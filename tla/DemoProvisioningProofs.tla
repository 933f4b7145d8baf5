------------------------ MODULE DemoProvisioningProofs ------------------------
(***************************************************************************)
(* The promises of DemoProvisioning, for any number of calls, keys and     *)
(* parts, any length of a day and of a demo's life, and any policies.      *)
(*                                                                         *)
(* The first part is that of types.  The second is what holds of a single  *)
(* call: while it may still be refused nothing is reserved for it and no   *)
(* request of its lingers, and once it was made its key and time stand.    *)
(* The third is of the table: what a step does to it (Effect), that a      *)
(* workspace only goes onward, that a key's record names what lives under  *)
(* it, that only what is whole is made ready, that nothing is cleaned up   *)
(* but what has failed, and that the counters count what is reserved.      *)
(***************************************************************************)
EXTENDS DemoProvisioning, FiniteSetTheorems, TLAPS

\* The steps of a call that only read.
Asking(c) ==
    \/ FindRecord(c) \/ FindWorkspace(c) \/ FindFails(c)
    \/ ReadPolicy(c) \/ ReadDay(c) \/ ReadMinute(c) \/ AdmissionFails(c) \/ Explain(c)
    \/ ReserveRefused(c) \/ ConfirmReady(c) \/ ConfirmFailed(c)
    \/ Inventory(c) \/ CleanupEnds(c) \/ Crash(c)

\* Nobody else's place, work or answer changes.
Only(c) == \A x \in Seekers \ {c} : pc'[x] = pc[x] /\ work'[x] = work[x] /\ answer'[x] = answer[x]

LEMMA AskingLeaves ==
    ASSUME NEW c \in Seekers, Asking(c)
    PROVE  UNCHANGED <<outside, table, whose, late>>
BY DEF Asking, FindRecord, FindWorkspace, FindFails, ReadPolicy, ReadDay, ReadMinute, AdmissionFails, Explain,
    ReserveRefused, ConfirmReady, ConfirmFailed, Inventory, CleanupEnds, Crash

LEMMA GoesOnly ==
    ASSUME NEW c \in Seekers, NEW to, NEW w, Goes(c, to, w)
    PROVE  Only(c)
BY DEF Goes, Only

LEMMA AnswersOnly ==
    ASSUME NEW c \in Seekers, NEW kind, NEW w, Answers(c, kind, w)
    PROVE  Only(c)
BY DEF Answers, Only

Typed ==
    /\ DemoTypeOK
    /\ \A c \in Seekers : (pc[c] # "idle" => key[c] \in Keys) /\ (pc[c] = "compare" => work[c].look \in Records)
    /\ \A q \in late : q[1] = "part" => q[3].made < Parts

LEMMA TypedInit == DemoInit => Typed
BY DemoAssumption DEF DemoInit, Typed, DemoTypeOK, Times, States, Places, Reasons, Kinds, Works, Fresh, Policies

LEMMA FreshWork == Fresh \in Works
BY DemoAssumption DEF Fresh, Works, Reasons

LEMMA GoesTyped ==
    ASSUME Typed, NEW c \in Seekers, NEW to \in Places, NEW w \in Works, Goes(c, to, w),
           to = "compare" => w.look \in Records
    PROVE  /\ pc' \in [Seekers -> Places] /\ work' \in [Seekers -> Works]
           /\ answer' \in [Seekers -> Kinds \X (Seekers \cup {Nobody})]
           /\ \A x \in Seekers : pc'[x] = "compare" => work'[x].look \in Records
BY DEF Goes, Typed, DemoTypeOK

LEMMA AnswersTyped ==
    ASSUME Typed, NEW c \in Seekers, NEW kind \in Kinds, NEW w \in Seekers \cup {Nobody}, Answers(c, kind, w)
    PROVE  /\ pc' \in [Seekers -> Places] /\ work' \in [Seekers -> Works]
           /\ answer' \in [Seekers -> Kinds \X (Seekers \cup {Nobody})]
           /\ \A x \in Seekers : pc'[x] = "compare" => work'[x].look \in Records
BY FreshWork DEF Answers, Typed, DemoTypeOK, Places

ControlTyped ==
    /\ pc \in [Seekers -> Places] /\ work \in [Seekers -> Works]
    /\ answer \in [Seekers -> Kinds \X (Seekers \cup {Nobody})]
    /\ \A c \in Seekers : pc[c] = "compare" => work[c].look \in Records

LEMMA Indexed ==
    ASSUME Typed, NEW c \in Seekers
    PROVE  /\ work[c] \in Works /\ at[c] \in Times /\ Day(at[c]) \in Days
           /\ daily[Day(at[c])] \in Nat /\ minutely[at[c]] \in Nat
BY DEF Typed, DemoTypeOK, Days

LEMMA GoesTo ==
    ASSUME Typed, NEW c \in Seekers, NEW to, NEW w, Goes(c, to, w)
    PROVE  Only(c) /\ pc'[c] = to
BY GoesOnly DEF Goes, Typed, DemoTypeOK

LEMMA AnswersTo ==
    ASSUME Typed, NEW c \in Seekers, NEW kind, NEW w, Answers(c, kind, w)
    PROVE  Only(c) /\ pc'[c] = "done"
BY AnswersOnly DEF Answers, Typed, DemoTypeOK

Looking(c) == [work[c] EXCEPT !.look = record[key[c]]]

LEMMA FindsRecord ==
    ASSUME Typed, NEW c \in Seekers, FindRecord(c)
    PROVE  /\ pc[c] = "find"
           /\ \/ work[c].why = "first" /\ Goes(c, "policy", work[c])
              \/ work[c].why = "quota" /\ Answers(c, "quota", Nobody)
              \/ work[c].why = "cancelled" /\ Goes(c, "explain", work[c])
              \/ work[c].why = "definite" /\ Answers(c, "unavailable", Nobody)
              \/ work[c].why = "unclear" /\ Answers(c, "uncertain", Nobody)
              \/ Answers(c, "conflict", Nobody)
              \/ Goes(c, "compare", Looking(c)) /\ record[key[c]] # Nobody
<1>1. work[c].why \in Reasons
  BY Indexed DEF Works
<1> QED BY <1>1 DEF FindRecord, NoReservation, Reasons, Looking

LEMMA AskingOnly ==
    ASSUME Typed, NEW c \in Seekers, Asking(c)
    PROVE  Only(c) /\ pc[c] # "idle" /\ pc'[c] # "idle"
<1>1. CASE FindRecord(c)
  BY <1>1, FindsRecord, GoesTo, AnswersTo
<1>2. CASE FindWorkspace(c)
  <2>1. work[c].look.state \in Provisioned
    BY <1>2 DEF FindWorkspace, Typed, Records
  <2> QED BY <1>2, <2>1, AnswersTo DEF FindWorkspace, Unreadable, Provisioned
<1>7. CASE FindFails(c)
  BY <1>7, AnswersTo DEF FindFails, Unreadable
<1>3. CASE ReadPolicy(c) \/ ReadDay(c) \/ ReadMinute(c)
  BY <1>3, GoesTo, AnswersTo DEF ReadPolicy, ReadDay, ReadMinute
<1>4. CASE AdmissionFails(c) \/ Explain(c) \/ CleanupEnds(c)
  BY <1>4, AnswersTo DEF AdmissionFails, Explain, CleanupEnds
<1>5. CASE ReserveRefused(c)
  BY <1>5, GoesTo DEF ReserveRefused
<1>8. CASE Inventory(c)
  BY <1>8, GoesTo DEF Inventory
<1>9. CASE Crash(c)
  BY <1>9, GoesTo DEF Crash
<1>6. CASE ConfirmReady(c) \/ ConfirmFailed(c)
  BY <1>6, GoesTo, AnswersTo DEF ConfirmReady, ConfirmFailed
<1> QED BY <1>1, <1>2, <1>3, <1>4, <1>5, <1>6, <1>7, <1>8, <1>9 DEF Asking

LEMMA AskingTyped ==
    ASSUME Typed, NEW c \in Seekers, Asking(c)
    PROVE  ControlTyped'
<1> USE DEF ControlTyped
<1>1. CASE FindRecord(c)
  <2> DEFINE found == record[key[c]]
  <2>1. pc[c] = "find" /\ found \in Records \cup {Nobody}
    BY <1>1, GoesTyped, AnswersTyped DEF FindRecord, Typed, DemoTypeOK
  <2>2. found # Nobody => [work[c] EXCEPT !.look = found] \in Works /\ [work[c] EXCEPT !.look = found].look \in Records
    BY <2>1, Indexed DEF Works
  <2>3. CASE found = Nobody
    BY <1>1, <2>3, GoesTyped, AnswersTyped, Indexed DEF FindRecord, NoReservation, Places, Kinds, Works, Reasons
  <2>4. CASE found # Nobody
    <3> DEFINE w == [work[c] EXCEPT !.look = found]
    <3>1. Answers(c, "conflict", Nobody) \/ Goes(c, "compare", w)
      BY <1>1, <2>4 DEF FindRecord
    <3>2. w \in Works /\ w.look \in Records
      BY <2>2, <2>4
    <3> HIDE DEF w
    <3>3. CASE Answers(c, "conflict", Nobody)
      BY <3>3, AnswersTyped DEF Kinds
    <3>4. CASE Goes(c, "compare", w)
      BY <3>2, <3>4, GoesTyped DEF Places
    <3> QED BY <3>1, <3>3, <3>4
  <2> QED BY <2>3, <2>4
<1>2. CASE FindWorkspace(c)
  <2>1. work[c].look \in Records
    BY <1>2, GoesTyped, AnswersTyped DEF FindWorkspace, Typed
  <2>2. work[c].look.ws \in Seekers /\ work[c].look.state \in Provisioned
    BY <2>1 DEF Records
  <2> QED BY <1>2, <2>2, GoesTyped, AnswersTyped DEF FindWorkspace, Unreadable, Kinds, Provisioned
<1>3. CASE FindFails(c)
  BY <1>3, GoesTyped, AnswersTyped DEF FindFails, Unreadable, Kinds
<1>4. CASE ReadPolicy(c)
  <2>1. [work[c] EXCEPT !.policy = policy] \in Works
    BY Indexed DEF Works, Typed, DemoTypeOK
  <2> QED BY <1>4, <2>1, GoesTyped, AnswersTyped DEF ReadPolicy, Places, Kinds
<1>5. CASE ReadDay(c)
  <2>1. [work[c] EXCEPT !.day = daily[Day(at[c])]] \in Works
    BY Indexed DEF Works
  <2> QED BY <1>5, <2>1, GoesTyped, AnswersTyped DEF ReadDay, Places
<1>6. CASE ReadMinute(c)
  <2>1. [work[c] EXCEPT !.minute = minutely[at[c]]] \in Works
    BY Indexed DEF Works
  <2>2. [Fresh EXCEPT !.why = "quota"] \in Works
    BY FreshWork, Indexed DEF Works, Reasons
  <2> QED BY <1>6, <2>1, <2>2, GoesTyped, AnswersTyped DEF ReadMinute, Places
<1>7. CASE AdmissionFails(c) \/ Explain(c) \/ CleanupEnds(c)
  BY <1>7, GoesTyped, AnswersTyped DEF AdmissionFails, Explain, CleanupEnds, Kinds
<1>8. CASE ReserveRefused(c)
  <2>1. work[c].policy \in Policies \cup {Nobody}
    BY Indexed DEF Works
  <2>2. PICK code \in {"cancelled", "definite"} : Goes(c, "find", [Fresh EXCEPT !.why = code, !.policy = work[c].policy])
    BY <1>8 DEF ReserveRefused
  <2> DEFINE v == [Fresh EXCEPT !.why = code]
             w == [v EXCEPT !.policy = work[c].policy]
  <2>3. Goes(c, "find", w)
    BY <2>2
  <2>4. v \in Works
    BY FreshWork DEF Works, Reasons
  <2>5. w \in Works
    <3> HIDE DEF v
    <3> QED BY <2>1, <2>4 DEF Works
  <2> HIDE DEF w
  <2> QED BY <2>3, <2>5, GoesTyped DEF Places
<1>9. CASE ConfirmReady(c)
  <2>1. CASE Answers(c, "session", c)
    BY <2>1, AnswersTyped DEF Kinds
  <2>2. CASE Goes(c, "fail", work[c])
    BY <2>2, GoesTyped, Indexed DEF Places
  <2> QED BY <1>9, <2>1, <2>2 DEF ConfirmReady
<1>12. CASE ConfirmFailed(c)
  <2>1. CASE Goes(c, "marker", work[c])
    BY <2>1, GoesTyped, Indexed DEF Places
  <2>2. CASE Answers(c, "uncertain", Nobody)
    BY <2>2, AnswersTyped DEF Kinds
  <2> QED BY <1>12, <2>1, <2>2 DEF ConfirmFailed
<1>10. CASE Inventory(c)
  <2> DEFINE known == parts[c] \cap (1..work[c].made)
  <2>1. \A found \in SUBSET (parts[c] \ known) : [work[c] EXCEPT !.doomed = known \cup found] \in Works
    BY Indexed DEF Works, Typed, DemoTypeOK
  <2> QED BY <1>10, <2>1, GoesTyped, AnswersTyped DEF Inventory, Places
<1>11. CASE Crash(c)
  BY <1>11, FreshWork, GoesTyped DEF Crash, Places
<1> QED BY <1>1, <1>2, <1>3, <1>4, <1>5, <1>6, <1>7, <1>8, <1>9, <1>10, <1>11, <1>12 DEF Asking

-----------------------------------------------------------------------------
LEMMA UnheardTyped ==
    ASSUME Typed, NEW c \in Seekers, NEW what \in {"reserve", "part", "ready", "failed"}, NEW applied,
           what = "part" => work[c].made < Parts,
           late' = late \/ late' = late \cup {<<what, c, work[c]>>}
    PROVE  /\ late' \subseteq {"reserve", "part", "ready", "failed"} \X Seekers \X Works
           /\ \A q \in late' : q[1] = "part" => q[3].made < Parts
BY Indexed DEF Typed, DemoTypeOK

TableTyped ==
    /\ daily \in [Days -> Nat] /\ minutely \in [Times -> Nat]
    /\ record \in [Keys -> Records \cup {Nobody}]
    /\ state \in [Seekers -> States] /\ parts \in [Seekers -> SUBSET (1..Parts)]

LEMMA ReservesTyped ==
    ASSUME Typed, NEW c \in Seekers, NEW w \in Works, Reserves(c, w)
    PROVE  TableTyped'
<1>1. w.day + 1 \in Nat /\ w.minute + 1 \in Nat
  BY DEF Works
<1>2. [ws |-> c, state |-> "PROVISIONING"] \in Records
  BY DEF Records, Provisioned
<1>3. "PROVISIONING" \in States
  BY DEF States, Provisioned
<1> QED BY <1>1, <1>2, <1>3 DEF Reserves, TableTyped, Typed, DemoTypeOK

LEMMA WritesTyped ==
    ASSUME Typed, NEW c \in Seekers, NEW w \in Works, w.made < Parts, Writes(c, w)
    PROVE  TableTyped'
<1>1. w.made + 1 \in 1..Parts
  BY DemoAssumption DEF Works
<1> QED BY <1>1 DEF Writes, TableTyped, Typed, DemoTypeOK

LEMMA MarksTyped ==
    ASSUME Typed, NEW c \in Seekers, NEW to \in {"READY", "FAILED"}, Marks(c, to)
    PROVE  TableTyped'
<1>1. [ws |-> c, state |-> to] \in Records /\ to \in States
  BY DEF Records, Provisioned, States
<1> QED BY <1>1 DEF Marks, TableTyped, Typed, DemoTypeOK

LateTyped ==
    /\ late \subseteq {"reserve", "part", "ready", "failed"} \X Seekers \X Works
    /\ \A q \in late : q[1] = "part" => q[3].made < Parts

LEMMA StepTyped ==
    ASSUME Typed, NEW c \in Seekers, pc[c] # "idle", Only(c), UNCHANGED <<outside, whose>>,
           ControlTyped', TableTyped', LateTyped'
    PROVE  Typed'
<1>1. \A x \in Seekers : pc'[x] # "idle" => key'[x] \in Keys
  BY DEF Only, whose, Typed, DemoTypeOK
<1> QED BY <1>1 DEF Typed, DemoTypeOK, ControlTyped, TableTyped, LateTyped, outside, whose

LEMMA StillTyped ==
    ASSUME Typed
    PROVE  /\ UNCHANGED table => TableTyped'
           /\ UNCHANGED late => LateTyped'
           /\ UNCHANGED <<pc, work, answer>> => ControlTyped'
BY DEF Typed, DemoTypeOK, table, TableTyped, LateTyped, ControlTyped

LEMMA SeekerTyped ==
    ASSUME Typed, NEW c \in Seekers, SeekerNext(c)
    PROVE  Typed'
<1>1. CASE \E k \in Keys : Start(c, k)
  <2>1. PICK k \in Keys : Start(c, k)
    BY <1>1
  <2>2. ControlTyped' /\ TableTyped' /\ LateTyped' /\ UNCHANGED outside
    BY <2>1, GoesTyped, FreshWork, StillTyped DEF Start, Places, ControlTyped
  <2>3. /\ key' \in [Seekers -> Keys \cup {Nobody}] /\ at' \in [Seekers -> Times]
        /\ \A x \in Seekers : pc'[x] # "idle" => key'[x] \in Keys
    BY <2>1 DEF Start, Goes, Typed, DemoTypeOK
  <2> QED BY <2>2, <2>3 DEF Typed, DemoTypeOK, ControlTyped, TableTyped, LateTyped, outside
<1>2. CASE Asking(c)
  BY <1>2, AskingLeaves, AskingOnly, AskingTyped, StillTyped, StepTyped
<1>3. CASE Reserve(c)
  <2>1. ControlTyped'
    BY <1>3, GoesTyped, FreshWork DEF Reserve, Places, ControlTyped
  <2>2. TableTyped' /\ LateTyped' /\ Only(c) /\ pc[c] # "idle" /\ UNCHANGED <<outside, whose>>
    BY <1>3, ReservesTyped, Indexed, StillTyped DEF Reserve, Goes, Only
  <2> QED BY <2>1, <2>2, StepTyped
<1>4. CASE ReserveUnheard(c)
  <2>1. [Fresh EXCEPT !.why = "unclear"] \in Works
    BY FreshWork DEF Works, Reasons
  <2>2. ControlTyped' /\ Only(c) /\ pc[c] # "idle" /\ UNCHANGED <<outside, whose>>
    BY <1>4, <2>1, GoesTyped DEF ReserveUnheard, Places, ControlTyped, Goes, Only
  <2>3. TableTyped' /\ LateTyped'
    BY <1>4, ReservesTyped, Indexed, StillTyped, UnheardTyped DEF ReserveUnheard, AnswerLost, LateTyped
  <2> QED BY <2>2, <2>3, StepTyped
<1>5. CASE Seed(c)
  <2>1. [work[c] EXCEPT !.made = @ + 1] \in Works
    BY <1>5, Indexed, DemoAssumption DEF Seed, Works
  <2>2. ControlTyped' /\ Only(c) /\ pc[c] # "idle" /\ UNCHANGED <<outside, whose>>
    BY <1>5, <2>1, GoesTyped DEF Seed, Places, ControlTyped, Goes, Only
  <2>3. TableTyped' /\ LateTyped'
    BY <1>5, WritesTyped, Indexed, StillTyped DEF Seed
  <2> QED BY <2>2, <2>3, StepTyped
<1>6. CASE SeedFails(c)
  <2>1. ControlTyped' /\ Only(c) /\ pc[c] # "idle" /\ UNCHANGED <<outside, whose>>
    BY <1>6, Indexed, GoesTyped DEF SeedFails, Places, ControlTyped, Goes, Only
  <2>2. TableTyped' /\ LateTyped'
    BY <1>6, WritesTyped, Indexed, StillTyped, UnheardTyped DEF SeedFails, AnswerLost, LateTyped
  <2> QED BY <2>1, <2>2, StepTyped
<1>7. CASE MarkReady(c)
  <2>1. ControlTyped' /\ Only(c) /\ pc[c] # "idle" /\ UNCHANGED <<outside, whose>>
    <3>1. CASE Goes(c, "confirm", work[c])
      BY <1>7, <3>1, Indexed, GoesTyped DEF MarkReady, Places, ControlTyped, Goes, Only
    <3>2. CASE Answers(c, "session", c)
      BY <1>7, <3>2, AnswersTyped DEF MarkReady, Kinds, ControlTyped, Answers, Only
    <3> QED BY <1>7, <3>1, <3>2 DEF MarkReady
  <2>2. TableTyped' /\ LateTyped'
    BY <1>7, MarksTyped, Indexed, StillTyped, UnheardTyped DEF MarkReady, AnswerLost, LateTyped
  <2> QED BY <2>1, <2>2, StepTyped
<1>8. CASE MarkFailed(c)
  <2>1. ControlTyped' /\ Only(c) /\ pc[c] # "idle" /\ UNCHANGED <<outside, whose>>
    BY <1>8, Indexed, GoesTyped DEF MarkFailed, Places, ControlTyped, Goes, Only
  <2>2. TableTyped' /\ LateTyped'
    BY <1>8, MarksTyped, Indexed, StillTyped, UnheardTyped DEF MarkFailed, AnswerLost, LateTyped
  <2> QED BY <2>1, <2>2, StepTyped
<1>9. CASE Delete(c)
  <2>1. PICK p \in work[c].doomed : /\ parts' = [parts EXCEPT ![c] = @ \ {p}]
                                    /\ Goes(c, "cleanup", [work[c] EXCEPT !.doomed = @ \ {p}])
    BY <1>9 DEF Delete
  <2>2. [work[c] EXCEPT !.doomed = @ \ {p}] \in Works
    BY Indexed DEF Works
  <2>3. ControlTyped' /\ Only(c) /\ pc[c] # "idle" /\ UNCHANGED <<outside, whose>>
    BY <1>9, <2>1, <2>2, GoesTyped DEF Delete, Places, ControlTyped, Goes, Only
  <2>4. TableTyped' /\ LateTyped'
    BY <1>9, <2>1 DEF Delete, Typed, DemoTypeOK, TableTyped, LateTyped
  <2> QED BY <2>3, <2>4, StepTyped
<1>10. CASE Expire(c)
  BY <1>10 DEF Expire, Typed, DemoTypeOK, outside, whose, States
<1> QED BY <1>1, <1>2, <1>3, <1>4, <1>5, <1>6, <1>7, <1>8, <1>9, <1>10 DEF SeekerNext, Asking

LEMMA ArrivesTyped ==
    ASSUME Typed, NEW q \in late, Arrives(q)
    PROVE  Typed'
<1>1. q[1] \in {"reserve", "part", "ready", "failed"} /\ q[2] \in Seekers /\ q[3] \in Works
  BY DEF Typed, DemoTypeOK
<1>2. TableTyped'
  <2>1. CASE q[1] = "reserve"
    BY <1>1, <2>1, ReservesTyped DEF Arrives
  <2>2. CASE q[1] = "part"
    BY <1>1, <2>2, WritesTyped DEF Arrives, Typed
  <2>3. CASE q[1] = "ready"
    BY <1>1, <2>3, MarksTyped DEF Arrives
  <2>4. CASE q[1] = "failed"
    BY <1>1, <2>4, MarksTyped DEF Arrives
  <2> QED BY <1>1, <2>1, <2>2, <2>3, <2>4
<1> QED BY <1>2 DEF Arrives, Typed, DemoTypeOK, TableTyped, outside, whose

LEMMA TypedNext == Typed /\ [DemoNext]_demoVars => Typed'
<1> SUFFICES ASSUME Typed, [DemoNext]_demoVars PROVE Typed'
  OBVIOUS
<1>1. CASE UNCHANGED demoVars
  BY <1>1 DEF demoVars, Typed, DemoTypeOK
<1>2. CASE \E c \in Seekers : SeekerNext(c)
  BY <1>2, SeekerTyped
<1>3. CASE \E q \in late : Arrives(q)
  BY <1>3, ArrivesTyped
<1>4. CASE \E k \in Keys : Forget(k)
  BY <1>4 DEF Forget, Typed, DemoTypeOK, outside, whose
<1>5. CASE Tick
  BY <1>5, DemoAssumption DEF Tick, Typed, DemoTypeOK, table, whose, Times
<1>6. CASE SetPolicy
  BY <1>6 DEF SetPolicy, Typed, DemoTypeOK, table, whose
<1> QED BY <1>1, <1>2, <1>3, <1>4, <1>5, <1>6 DEF DemoNext

-----------------------------------------------------------------------------
Unasked(c) ==
    \/ pc[c] \in {"idle", "policy", "day", "minute", "explain", "reserve"}
    \/ pc[c] \in {"find", "compare"} /\ work[c].why # "unclear"
    \/ pc[c] = "done" /\ answer[c][1] \in {"quota", "paused", "unavailable"}

Lingers(c) == \E q \in late : q[2] = c

Unreserved == \A c \in Seekers : Unasked(c) => state[c] = "none" /\ ~ Lingers(c)

Unanswered == \A c \in Seekers : pc[c] # "done" => answer[c][1] = "none"

Private(c) ==
    \A x \in Seekers \ {c} :
        /\ state'[x] = state[x] /\ parts'[x] = parts[x] /\ key'[x] = key[x] /\ at'[x] = at[x]
        /\ Lingers(x)' <=> Lingers(x)

LEMMA TablePrivate ==
    ASSUME Typed, NEW c \in Seekers
    PROVE  /\ \A w : Reserves(c, w) \/ Writes(c, w) => \A x \in Seekers \ {c} : state'[x] = state[x] /\ parts'[x] = parts[x]
           /\ \A to : Marks(c, to) => \A x \in Seekers \ {c} : state'[x] = state[x] /\ parts'[x] = parts[x]
BY DEF Typed, DemoTypeOK, Reserves, Writes, Marks

LEMMA LatePrivate ==
    ASSUME NEW c \in Seekers, NEW what, NEW w, late' = late \/ late' = late \cup {<<what, c, w>>}
    PROVE  \A x \in Seekers \ {c} : Lingers(x)' <=> Lingers(x)
BY DEF Lingers

LEMMA SeekerPrivate ==
    ASSUME Typed, NEW c \in Seekers, SeekerNext(c)
    PROVE  Private(c) /\ Only(c)
<1> USE DEF Private
<1>1. CASE \E k \in Keys : Start(c, k)
  BY <1>1, GoesOnly DEF Start, table, Lingers, Typed, DemoTypeOK
<1>2. CASE Asking(c)
  BY <1>2, AskingLeaves, AskingOnly DEF table, whose, Lingers
<1>3. CASE Reserve(c)
  BY <1>3, GoesOnly, TablePrivate DEF Reserve, whose, Lingers
<1>4. CASE ReserveUnheard(c)
  <2>1. Only(c) /\ key' = key /\ at' = at
    BY <1>4, GoesOnly DEF ReserveUnheard, whose
  <2>2. \A x \in Seekers \ {c} : state'[x] = state[x] /\ parts'[x] = parts[x]
    BY <1>4, TablePrivate DEF ReserveUnheard, AnswerLost, table
  <2>3. late' = late \/ late' = late \cup {<<"reserve", c, work[c]>>}
    BY <1>4 DEF ReserveUnheard, AnswerLost
  <2> QED BY <2>1, <2>2, <2>3, LatePrivate
<1>5. CASE Seed(c)
  BY <1>5, GoesOnly, TablePrivate DEF Seed, whose, Lingers
<1>6. CASE SeedFails(c)
  <2>1. Only(c) /\ key' = key /\ at' = at
    BY <1>6, GoesOnly DEF SeedFails, whose
  <2>2. \A x \in Seekers \ {c} : state'[x] = state[x] /\ parts'[x] = parts[x]
    BY <1>6, TablePrivate DEF SeedFails, AnswerLost, table
  <2>3. late' = late \/ late' = late \cup {<<"part", c, work[c]>>}
    BY <1>6 DEF SeedFails, AnswerLost
  <2> QED BY <2>1, <2>2, <2>3, LatePrivate
<1>7. CASE MarkReady(c)
  <2>1. Only(c) /\ key' = key /\ at' = at
    BY <1>7, GoesOnly, AnswersOnly DEF MarkReady, whose
  <2>2. \A x \in Seekers \ {c} : state'[x] = state[x] /\ parts'[x] = parts[x]
    BY <1>7, TablePrivate DEF MarkReady, AnswerLost, table
  <2>3. late' = late \/ late' = late \cup {<<"ready", c, work[c]>>}
    BY <1>7 DEF MarkReady, AnswerLost
  <2> QED BY <2>1, <2>2, <2>3, LatePrivate
<1>8. CASE MarkFailed(c)
  <2>1. Only(c) /\ key' = key /\ at' = at
    BY <1>8, GoesOnly DEF MarkFailed, whose
  <2>2. \A x \in Seekers \ {c} : state'[x] = state[x] /\ parts'[x] = parts[x]
    BY <1>8, TablePrivate DEF MarkFailed, AnswerLost, table
  <2>3. late' = late \/ late' = late \cup {<<"failed", c, work[c]>>}
    BY <1>8 DEF MarkFailed, AnswerLost
  <2> QED BY <2>1, <2>2, <2>3, LatePrivate
<1>9. CASE Delete(c)
  BY <1>9, GoesOnly DEF Delete, whose, Lingers, Typed, DemoTypeOK
<1>10. CASE Expire(c)
  BY <1>10 DEF Expire, Only, whose, Lingers, Typed, DemoTypeOK
<1> QED BY <1>1, <1>2, <1>3, <1>4, <1>5, <1>6, <1>7, <1>8, <1>9, <1>10 DEF SeekerNext, Asking

\* What an answered or a reserving call does to itself.
LEMMA SeekerUnreserved ==
    ASSUME Typed, Unreserved, Unanswered, NEW c \in Seekers, SeekerNext(c)
    PROVE  /\ Unasked(c)' => state'[c] = "none" /\ ~ Lingers(c)'
           /\ pc'[c] # "done" => answer'[c][1] = "none"
<1>0. /\ pc \in [Seekers -> Places] /\ work \in [Seekers -> Works] /\ state \in [Seekers -> States]
      /\ answer \in [Seekers -> Kinds \X (Seekers \cup {Nobody})]
      /\ work[c].why \in Reasons
  BY Indexed DEF Typed, DemoTypeOK, Works
<1> USE <1>0 DEF Goes, Answers, Unasked
<1>1. CASE \E k \in Keys : Start(c, k)
  BY <1>1 DEF Start, table, Lingers, Unreserved, Unanswered
<1>2. CASE Asking(c)
  <2>1. state' = state /\ late' = late
    BY <1>2, AskingLeaves DEF table
  <2>2. pc[c] \notin {"idle", "done"} => answer[c][1] = "none"
    BY DEF Unanswered
  <2>3. /\ Unasked(c)' => Unasked(c)
        /\ pc'[c] # "done" => answer'[c][1] = "none"
    <3>1. CASE FindRecord(c)
      <4>1. Looking(c).why = work[c].why
        BY DEF Looking, Works
      <4> QED BY <2>2, <3>1, <4>1, FindsRecord
    <3>2. CASE FindWorkspace(c)
      <4>1. work[c].look.state \in Provisioned
        BY <3>2 DEF FindWorkspace, Typed, Records
      <4>2. PICK kind \in {"uncertain", "unavailable", "progress", "conflict", "session"}, w \in Seekers \cup {Nobody} :
               Answers(c, kind, w) /\ (kind = "unavailable" => work[c].why # "unclear")
        <5> HIDE DEF Answers
        <5> QED BY <3>2, <4>1 DEF FindWorkspace, Unreadable, Provisioned, Typed, Records
      <4>3. pc[c] = "compare"
        BY <3>2 DEF FindWorkspace
      <4> QED BY <2>2, <4>2, <4>3
    <3>3. CASE FindFails(c)
      BY <2>2, <3>3 DEF FindFails, Unreadable
    <3>4. CASE ReadPolicy(c) \/ ReadDay(c)
      BY <2>2, <3>4 DEF ReadPolicy, ReadDay
    <3>5. CASE ReadMinute(c)
      BY <2>2, <3>5 DEF ReadMinute
    <3>6. CASE AdmissionFails(c) \/ Explain(c)
      BY <2>2, <3>6 DEF AdmissionFails, Explain
    <3>7. CASE ReserveRefused(c)
      BY <2>2, <3>7 DEF ReserveRefused
    <3>8. CASE ConfirmReady(c) \/ ConfirmFailed(c)
      BY <2>2, <3>8 DEF ConfirmReady, ConfirmFailed
    <3>9. CASE Inventory(c) \/ CleanupEnds(c)
      BY <2>2, <3>9 DEF Inventory, CleanupEnds
    <3>10. CASE Crash(c)
      BY <2>2, <3>10 DEF Crash
    <3> QED BY <1>2, <3>1, <3>2, <3>3, <3>4, <3>5, <3>6, <3>7, <3>8, <3>9, <3>10 DEF Asking
  <2> QED BY <2>1, <2>2, <2>3 DEF Unreserved, Lingers
<1>3. CASE Reserve(c)
  BY <1>3 DEF Reserve, Unanswered
<1>4. CASE ReserveUnheard(c)
  BY <1>4 DEF ReserveUnheard, Unanswered, Fresh
<1>5. CASE Seed(c) \/ SeedFails(c)
  BY <1>5 DEF Seed, SeedFails, Unanswered
<1>6. CASE MarkReady(c)
  BY <1>6 DEF MarkReady, Unanswered
<1>7. CASE MarkFailed(c)
  BY <1>7 DEF MarkFailed, Unanswered
<1>8. CASE Delete(c)
  BY <1>8 DEF Delete, Unanswered
<1>9. CASE Expire(c)
  BY <1>9 DEF Expire, Unreserved, Unanswered, Lingers
<1> QED BY <1>1, <1>2, <1>3, <1>4, <1>5, <1>6, <1>7, <1>8, <1>9 DEF SeekerNext, Asking

LEMMA UnreservedNext ==
    Typed /\ Unreserved /\ Unanswered /\ [DemoNext]_demoVars => Unreserved' /\ Unanswered'
<1> SUFFICES ASSUME Typed, Unreserved, Unanswered, [DemoNext]_demoVars PROVE Unreserved' /\ Unanswered'
  OBVIOUS
<1>1. ASSUME UNCHANGED <<pc, work, answer, late>>, UNCHANGED state
      PROVE  Unreserved' /\ Unanswered'
  BY <1>1 DEF Unreserved, Unanswered, Unasked, Lingers
<1>2. ASSUME NEW c \in Seekers, SeekerNext(c) PROVE Unreserved' /\ Unanswered'
  BY <1>2, SeekerPrivate, SeekerUnreserved DEF Private, Only, Unreserved, Unanswered, Unasked
<1>3. ASSUME NEW q \in late, Arrives(q) PROVE Unreserved' /\ Unanswered'
  <2>1. q[2] \in Seekers /\ q[1] \in {"reserve", "part", "ready", "failed"} /\ ~ Unasked(q[2])
    BY DEF Typed, DemoTypeOK, Unreserved, Lingers
  <2>2. \A x \in Seekers \ {q[2]} : state'[x] = state[x]
    BY <1>3, <2>1, TablePrivate DEF Arrives
  <2>3. UNCHANGED <<pc, work, answer>> /\ late' \subseteq late
    BY <1>3 DEF Arrives
  <2> QED BY <2>1, <2>2, <2>3 DEF Unreserved, Unanswered, Unasked, Lingers
<1>4. CASE UNCHANGED demoVars
  BY <1>1, <1>4 DEF demoVars
<1>5. CASE (\E k \in Keys : Forget(k)) \/ Tick \/ SetPolicy
  BY <1>1, <1>5 DEF Forget, Tick, SetPolicy, table
<1> QED BY <1>2, <1>3, <1>4, <1>5 DEF DemoNext

-----------------------------------------------------------------------------
\* A step never takes back when a call was made, nor with which key.
LEMMA Steady ==
    ASSUME Typed, [DemoNext]_demoVars, NEW x \in Seekers, pc[x] # "idle"
    PROVE  pc'[x] # "idle" /\ key'[x] = key[x] /\ at'[x] = at[x]
<1>1. CASE UNCHANGED demoVars
  BY <1>1 DEF demoVars
<1>2. CASE (\E q \in late : Arrives(q)) \/ (\E k \in Keys : Forget(k)) \/ Tick \/ SetPolicy
  BY <1>2 DEF Arrives, Forget, Tick, SetPolicy, whose
<1>3. ASSUME NEW c \in Seekers, SeekerNext(c)
      PROVE  pc'[x] # "idle" /\ key'[x] = key[x] /\ at'[x] = at[x]
  <2>1. CASE x # c
    BY <1>3, <2>1, SeekerPrivate DEF Private, Only
  <2>2. CASE x = c
    <3>0. pc \in [Seekers -> Places]
      BY DEF Typed, DemoTypeOK
    <3> USE <2>2, <3>0 DEF Goes, Answers, whose
    <3>1. CASE \E k \in Keys : Start(c, k)
      BY <3>1 DEF Start
    <3>2. CASE Asking(c)
      BY <3>2, AskingLeaves, AskingOnly
    <3>3. CASE Reserve(c) \/ ReserveUnheard(c)
      BY <3>3 DEF Reserve, ReserveUnheard
    <3>4. CASE Seed(c) \/ SeedFails(c) \/ Delete(c) \/ Expire(c)
      BY <3>4 DEF Seed, SeedFails, Delete, Expire
    <3>5. CASE MarkReady(c) \/ MarkFailed(c)
      BY <3>5 DEF MarkReady, MarkFailed
    <3> QED BY <1>3, <3>1, <3>2, <3>3, <3>4, <3>5 DEF SeekerNext, Asking
  <2> QED BY <2>1, <2>2
<1> QED BY <1>1, <1>2, <1>3 DEF DemoNext

\* By which step a call comes to a place, or to an answer.
CameBy(c) ==
    /\ pc'[c] = "compare" => FindRecord(c)
    /\ pc'[c] = "day" => ReadPolicy(c)
    /\ pc'[c] = "minute" => ReadDay(c)
    /\ pc'[c] = "reserve" => ReadMinute(c)
    /\ pc'[c] = "seed" => Reserve(c) \/ Seed(c)
    /\ pc'[c] = "confirm" => MarkReady(c)
    /\ pc'[c] = "fail" => SeedFails(c) \/ ConfirmReady(c)
    /\ pc'[c] = "confirmFailed" => MarkFailed(c)
    /\ pc'[c] = "marker" => MarkFailed(c) \/ ConfirmFailed(c)
    /\ pc'[c] = "cleanup" => Inventory(c) \/ Delete(c)
    /\ answer'[c] # answer[c] =>
        /\ answer'[c][1] = "session" => FindWorkspace(c) \/ MarkReady(c) \/ ConfirmReady(c)
        /\ answer'[c][1] = "failed" => CleanupEnds(c)

LEMMA GoesKeeps ==
    ASSUME Typed, NEW c \in Seekers, NEW to, NEW w, Goes(c, to, w)
    PROVE  pc'[c] = to /\ answer'[c] = answer[c]
BY DEF Goes, Typed, DemoTypeOK

LEMMA AnswersGives ==
    ASSUME Typed, NEW c \in Seekers, NEW kind, NEW w, Answers(c, kind, w)
    PROVE  pc'[c] = "done" /\ answer'[c][1] = kind /\ answer'[c][2] = w
BY DEF Answers, Typed, DemoTypeOK

LEMMA CameFrom ==
    ASSUME Typed, NEW c \in Seekers, SeekerNext(c), ~ Expire(c)
    PROVE  CameBy(c)
<1> USE GoesKeeps, AnswersGives DEF CameBy
<1>1. CASE \E k \in Keys : Start(c, k)
  BY <1>1 DEF Start
<1>2. CASE FindRecord(c)
  BY <1>2, FindsRecord
<1>3. CASE FindWorkspace(c)
  <2>1. work[c].look.state \in Provisioned
    BY <1>3 DEF FindWorkspace, Typed, Records
  <2>2. PICK kind \in {"uncertain", "unavailable", "progress", "conflict", "session"}, w \in Seekers \cup {Nobody} :
           Answers(c, kind, w)
    BY <1>3, <2>1 DEF FindWorkspace, Unreadable, Provisioned, Typed, Records
  <2> QED BY <1>3, <2>2
<1>4. CASE FindFails(c)
  BY <1>4 DEF FindFails, Unreadable
<1>5. CASE ReadPolicy(c) \/ ReadDay(c)
  BY <1>5 DEF ReadPolicy, ReadDay
<1>6. CASE ReadMinute(c)
  BY <1>6 DEF ReadMinute
<1>7. CASE AdmissionFails(c) \/ Explain(c) \/ CleanupEnds(c)
  BY <1>7 DEF AdmissionFails, Explain, CleanupEnds
<1>8. CASE Reserve(c) \/ ReserveUnheard(c)
  BY <1>8 DEF Reserve, ReserveUnheard
<1>9. CASE ReserveRefused(c)
  BY <1>9 DEF ReserveRefused
<1>10. CASE Seed(c) \/ SeedFails(c)
  BY <1>10 DEF Seed, SeedFails
<1>11. CASE MarkReady(c)
  <2>1. Answers(c, "session", c) \/ Goes(c, "confirm", work[c])
    BY <1>11 DEF MarkReady
  <2> QED BY <1>11, <2>1
<1>16. CASE MarkFailed(c)
  <2>1. Goes(c, "marker", work[c]) \/ Goes(c, "confirmFailed", work[c])
    BY <1>16 DEF MarkFailed
  <2> QED BY <1>16, <2>1
<1>12. CASE ConfirmReady(c)
  <2>1. Answers(c, "session", c) \/ Goes(c, "fail", work[c])
    BY <1>12 DEF ConfirmReady
  <2> QED BY <1>12, <2>1
<1>17. CASE ConfirmFailed(c)
  <2>1. Answers(c, "uncertain", Nobody) \/ Goes(c, "marker", work[c])
    BY <1>17 DEF ConfirmFailed
  <2> QED BY <1>17, <2>1
<1>13. CASE Inventory(c)
  <2>1. pc'[c] = "cleanup" /\ answer'[c] = answer[c]
    BY <1>13 DEF Inventory
  <2> QED BY <1>13, <2>1
<1>14. CASE Delete(c)
  <2>1. pc'[c] = "cleanup" /\ answer'[c] = answer[c]
    BY <1>14 DEF Delete
  <2> QED BY <1>14, <2>1
<1>15. CASE Crash(c)
  BY <1>15 DEF Crash
<1> QED BY <1>1, <1>2, <1>3, <1>4, <1>5, <1>6, <1>7, <1>8, <1>9, <1>10, <1>11, <1>12, <1>13, <1>14, <1>15, <1>16, <1>17 DEF SeekerNext

-----------------------------------------------------------------------------
\* A key's record, and what a call found of it, are of a call with that key.
Keyed ==
    /\ \A k \in Keys : record[k] # Nobody => key[record[k].ws] = k /\ pc[record[k].ws] # "idle"
    /\ \A c \in Seekers : pc[c] = "compare" => key[work[c].look.ws] = key[c] /\ pc[work[c].look.ws] # "idle"

\* A workspace that lives is the one recorded under its key.
Recorded == \A c \in Seekers : Live(c) => record[key[c]] = [ws |-> c, state |-> state[c]]

Seeded ==
    /\ \A c \in Seekers :
        /\ pc[c] = "seed" /\ state[c] = "PROVISIONING" => 1..work[c].made \subseteq parts[c]
        /\ state[c] = "READY" => parts[c] = 1..Parts
    /\ \A q \in late : q[1] = "ready" /\ state[q[2]] = "PROVISIONING" => parts[q[2]] = 1..Parts

Begun ==
    /\ \A c \in Seekers :
        /\ pc[c] \in {"seed", "confirm", "fail", "confirmFailed"} => state[c] # "none"
        /\ pc[c] \in {"marker", "cleanup"} => state[c] \in {"FAILED", "gone"}
    /\ \A q \in late : q[1] = "ready" => state[q[2]] # "none"

\* A session that was answered is of some call's workspace.
Delivered == \A c \in Seekers : answer[c][1] = "session" => answer[c][2] \in Seekers

\* A call asks to reserve what its policy had room for, whenever that is done.
Policed(w) == w.policy \in Policies /\ w.policy.enabled
Admitted(w) == Policed(w) /\ ~ Exhausted(w.policy, w.day, w.minute)

Budgeted ==
    /\ \A c \in Seekers :
        /\ pc[c] \in {"day", "minute"} => Policed(work[c])
        /\ pc[c] = "reserve" => Admitted(work[c])
    /\ \A q \in late : q[1] = "reserve" => Admitted(q[3])

\* The counters count what is reserved.
ReservedOn(d) == {x \in Seekers : Reserved(x) /\ Day(at[x]) = d}
ReservedAt(m) == {x \in Seekers : Reserved(x) /\ at[x] = m}

Counted ==
    /\ \A d \in Days : daily[d] = Cardinality(ReservedOn(d))
    /\ \A m \in Times : minutely[m] = Cardinality(ReservedAt(m))

ProvisionInv ==
    /\ Typed /\ Unreserved /\ Unanswered /\ Keyed /\ Recorded /\ Seeded /\ Begun
    /\ Delivered /\ DemoAnswersTrue /\ Budgeted /\ Counted

LEMMA ProvisionInit == DemoInit => ProvisionInv
<1> SUFFICES ASSUME DemoInit PROVE ProvisionInv
  OBVIOUS
<1>1. Unreserved /\ Unanswered
  BY DEF DemoInit, Unreserved, Unanswered, Unasked, Lingers
<1>2. Keyed /\ Recorded /\ Seeded /\ Begun
  BY DemoAssumption DEF DemoInit, Keyed, Recorded, Live, Seeded, Begun
<1>3. Delivered /\ DemoAnswersTrue
  BY DEF DemoInit, Delivered, DemoAnswersTrue
<1>4. Budgeted /\ Counted
  <2>1. \A d : ReservedOn(d) = {} /\ ReservedAt(d) = {}
    BY DEF DemoInit, ReservedOn, ReservedAt, Reserved
  <2> QED BY <2>1, FS_EmptySet DEF DemoInit, Budgeted, Counted
<1> QED BY <1>1, <1>2, <1>3, <1>4, TypedInit DEF ProvisionInv

(***************************************************************************)
(* What a step does to the table.                                          *)
(***************************************************************************)
Cleans(c, p) ==
    /\ state[c] = "FAILED" /\ parts' = [parts EXCEPT ![c] = @ \ {p}]
    /\ UNCHANGED <<daily, minutely, record, state>>

Effect ==
    \/ UNCHANGED table
    \/ \E c \in Seekers :
        /\ pc[c] # "idle" /\ UNCHANGED <<outside, whose>>
        /\ \/ \E w \in Works : (Admitted(w) /\ Reserves(c, w)) \/ (w.made < Parts /\ Writes(c, w))
           \/ \E to \in {"READY", "FAILED"} : Marks(c, to) /\ (to = "READY" => parts[c] = 1..Parts)
           \/ \E p \in 1..Parts : Cleans(c, p)
    \/ \E c \in Seekers : Expire(c)
    \/ \E k \in Keys : Forget(k)

LEMMA EffectHolds ==
    ASSUME ProvisionInv, [DemoNext]_demoVars
    PROVE  Effect
<1> USE DEF ProvisionInv
<1>1. CASE UNCHANGED demoVars \/ Tick \/ SetPolicy
  BY <1>1 DEF Effect, demoVars, Tick, SetPolicy, table
<1>2. CASE \E k \in Keys : Forget(k)
  BY <1>2 DEF Effect
<1>3. ASSUME NEW q \in late, Arrives(q) PROVE Effect
  <2>1. q[1] \in {"reserve", "part", "ready", "failed"} /\ q[2] \in Seekers /\ q[3] \in Works
    BY DEF Typed, DemoTypeOK
  <2>2. pc[q[2]] # "idle" /\ UNCHANGED <<outside, whose>>
    BY <1>3, <2>1 DEF Arrives, Unreserved, Unasked, Lingers
  <2>3. CASE q[1] = "reserve"
    BY <1>3, <2>1, <2>2, <2>3 DEF Arrives, Effect, Budgeted
  <2>4. CASE q[1] = "part"
    BY <1>3, <2>1, <2>2, <2>4 DEF Arrives, Effect, Typed
  <2>5. CASE q[1] = "ready"
    BY <1>3, <2>1, <2>2, <2>5 DEF Arrives, Effect, Seeded, Marks
  <2>6. CASE q[1] = "failed"
    BY <1>3, <2>1, <2>2, <2>6 DEF Arrives, Effect
  <2> QED BY <2>1, <2>3, <2>4, <2>5, <2>6
<1>4. ASSUME NEW c \in Seekers, SeekerNext(c) PROVE Effect
  <2>1. CASE (\E k \in Keys : Start(c, k)) \/ Asking(c)
    BY <2>1, AskingLeaves DEF Start, Effect
  <2>2. CASE Reserve(c) \/ ReserveUnheard(c)
    BY <2>2, Indexed DEF Reserve, ReserveUnheard, AnswerLost, Effect, Budgeted
  <2>3. CASE Seed(c) \/ SeedFails(c)
    BY <2>3, Indexed DEF Seed, SeedFails, AnswerLost, Effect
  <2>4. CASE MarkReady(c)
    <3>1. Marks(c, "READY") => parts[c] = 1..Parts
      BY <2>4 DEF MarkReady, Marks, Seeded, Typed, DemoTypeOK
    <3> QED BY <2>4, <3>1 DEF MarkReady, AnswerLost, Effect
  <2>5. CASE MarkFailed(c)
    BY <2>5 DEF MarkFailed, AnswerLost, Effect
  <2>6. CASE Delete(c)
    <3>1. work[c].doomed \subseteq 1..Parts
      BY Indexed DEF Works
    <3> QED BY <2>6, <3>1 DEF Delete, Cleans, Effect
  <2>7. CASE Expire(c)
    BY <2>7 DEF Effect
  <2> QED BY <1>4, <2>1, <2>2, <2>3, <2>4, <2>5, <2>6, <2>7 DEF SeekerNext, Asking
<1> QED BY <1>1, <1>2, <1>3, <1>4 DEF DemoNext

\* A workspace only goes on: no state is ever left for an earlier one.
Onward(x) ==
    /\ state[x] # "none" => state'[x] # "none"
    /\ state[x] = "gone" => state'[x] = "gone"
    /\ state[x] = "FAILED" => state'[x] \in {"FAILED", "gone"}
    /\ state[x] = "READY" => state'[x] = "READY" \/ (state'[x] = "gone" /\ clock >= Deadline(x))
    /\ state'[x] = "PROVISIONING" => state[x] \in {"none", "PROVISIONING"}

LEMMA GoesOnward ==
    ASSUME ProvisionInv, [DemoNext]_demoVars, NEW x \in Seekers
    PROVE  Onward(x)
<1>0. Effect /\ state \in [Seekers -> States] /\ x \in Seekers
  BY EffectHolds DEF ProvisionInv, Typed, DemoTypeOK
<1> USE <1>0 DEF Onward
<1>1. CASE UNCHANGED table
  BY <1>1 DEF table
<1>2. ASSUME NEW c \in Seekers, NEW w \in Works, Reserves(c, w) PROVE Onward(x)
  BY <1>2 DEF Reserves, Admissible
<1>3. ASSUME NEW c \in Seekers, NEW w \in Works, Writes(c, w) PROVE Onward(x)
  BY <1>3 DEF Writes
<1>4. ASSUME NEW c \in Seekers, NEW to \in {"READY", "FAILED"}, Marks(c, to) PROVE Onward(x)
  BY <1>4 DEF Marks
<1>5. ASSUME NEW c \in Seekers, NEW p \in 1..Parts, Cleans(c, p) PROVE Onward(x)
  BY <1>5 DEF Cleans
<1>6. ASSUME NEW c \in Seekers, Expire(c) PROVE Onward(x)
  BY <1>6 DEF Expire
<1>7. ASSUME NEW k \in Keys, Forget(k) PROVE Onward(x)
  BY <1>7 DEF Forget
<1> QED BY <1>1, <1>2, <1>3, <1>4, <1>5, <1>6, <1>7 DEF Effect

LEMMA TimeNext == ASSUME Typed, [DemoNext]_demoVars PROVE clock \in Nat /\ clock' \in Nat /\ clock' >= clock
<1>1. clock \in Nat
  BY DemoAssumption DEF Typed, DemoTypeOK, Times
<1>2. clock' = clock \/ clock' = clock + 1
  <2>1. ASSUME NEW c \in Seekers, SeekerNext(c) PROVE clock' = clock
    BY <2>1, AskingLeaves DEF SeekerNext, Asking, outside, Start, Reserve, ReserveUnheard, Seed, SeedFails, MarkReady,
        MarkFailed, Delete, Expire
  <2> QED BY <2>1 DEF DemoNext, demoVars, Arrives, Forget, Tick, SetPolicy, outside
<1> QED BY <1>1, <1>2

LEMMA RecordedNext ==
    ASSUME ProvisionInv, [DemoNext]_demoVars
    PROVE  Recorded'
<1>0. Effect /\ Typed /\ Typed' /\ Recorded /\ Unreserved
  BY EffectHolds, TypedNext DEF ProvisionInv
<1> USE <1>0 DEF Recorded
<1>1. ASSUME NEW x \in Seekers, Live(x)', state[x] \in {"PROVISIONING", "READY"}
      PROVE  pc[x] # "idle" /\ key'[x] = key[x] /\ key[x] \in Keys /\ Live(x)
  <2>1. pc[x] # "idle"
    BY <1>1 DEF Unreserved, Unasked
  <2>2. key'[x] = key[x] /\ at'[x] = at[x] /\ key[x] \in Keys
    BY <2>1, Steady DEF Typed
  <2>3. clock < Deadline(x)
    <3>1. at[x] \in Nat /\ Ttl \in Nat
      BY DemoAssumption, Indexed DEF Times
    <3> QED BY <1>1, <2>2, <3>1, TimeNext DEF Live, Deadline
  <2> QED BY <1>1, <2>1, <2>2, <2>3 DEF Live
<1>2. SUFFICES ASSUME NEW x \in Seekers, Live(x)'
               PROVE  record'[key'[x]] = [ws |-> x, state |-> state'[x]]
  BY DEF Recorded
<1>3. state'[x] \in {"PROVISIONING", "READY"}
  BY <1>2 DEF Live
<1>4. ASSUME state'[x] = state[x] PROVE /\ pc[x] # "idle" /\ key'[x] = key[x] /\ key[x] \in Keys
                                        /\ clock < Deadline(x) /\ record[key[x]] = [ws |-> x, state |-> state[x]]
  BY <1>1, <1>2, <1>3, <1>4 DEF Live
<1>5. CASE UNCHANGED table
  BY <1>4, <1>5 DEF table
<1>6. ASSUME NEW c \in Seekers, pc[c] # "idle", UNCHANGED whose, NEW w \in Works, Reserves(c, w)
      PROVE  record'[key'[x]] = [ws |-> x, state |-> state'[x]]
  <2>1. key[c] \in Keys /\ key' = key /\ record \in [Keys -> Records \cup {Nobody}]
    BY <1>6 DEF Typed, whose, DemoTypeOK
  <2>2. CASE x = c
    BY <1>6, <2>1, <2>2 DEF Reserves, Typed, DemoTypeOK
  <2>3. CASE x # c
    <3>1. state'[x] = state[x]
      BY <1>6, <2>3 DEF Reserves, Typed, DemoTypeOK
    <3>2. record[key[x]] # Nobody
      BY <1>4, <3>1, DemoAssumption, <2>1, <1>3 DEF Records, Provisioned
    <3> QED BY <1>4, <1>6, <2>1, <3>1, <3>2 DEF Reserves, Admissible
  <2> QED BY <2>2, <2>3
<1>7. ASSUME NEW c \in Seekers, NEW w \in Works, Writes(c, w)
      PROVE  record'[key'[x]] = [ws |-> x, state |-> state'[x]]
  BY <1>4, <1>7 DEF Writes
<1>8. ASSUME NEW c \in Seekers, pc[c] # "idle", UNCHANGED whose, NEW to \in {"READY", "FAILED"}, Marks(c, to)
      PROVE  record'[key'[x]] = [ws |-> x, state |-> state'[x]]
  <2>1. key[c] \in Keys /\ key' = key /\ record \in [Keys -> Records \cup {Nobody}]
    BY <1>8 DEF Typed, whose, DemoTypeOK
  <2>2. CASE x = c
    BY <1>8, <2>1, <2>2 DEF Marks, Typed, DemoTypeOK
  <2>3. CASE x # c
    <3>1. state'[x] = state[x]
      BY <1>8, <2>3 DEF Marks, Typed, DemoTypeOK
    <3>2. key[x] # key[c]
      BY <1>4, <1>8, <2>3, <3>1 DEF Marks
    <3> QED BY <1>4, <1>8, <2>1, <3>1, <3>2 DEF Marks
  <2> QED BY <2>2, <2>3
<1>9. ASSUME NEW c \in Seekers, NEW p \in 1..Parts, Cleans(c, p)
      PROVE  record'[key'[x]] = [ws |-> x, state |-> state'[x]]
  BY <1>4, <1>9 DEF Cleans
<1>10. ASSUME NEW c \in Seekers, Expire(c) PROVE record'[key'[x]] = [ws |-> x, state |-> state'[x]]
  <2>1. state'[x] = state[x]
    BY <1>3, <1>10 DEF Expire, Typed, DemoTypeOK
  <2> QED BY <1>4, <1>10, <2>1 DEF Expire
<1>11. ASSUME NEW k \in Keys, Forget(k) PROVE record'[key'[x]] = [ws |-> x, state |-> state'[x]]
  <2>1. state'[x] = state[x]
    BY <1>11 DEF Forget
  <2>2. key[x] # k
    <3>1. at[x] \in Nat /\ Ttl \in Nat /\ Retention \in Nat
      BY DemoAssumption, Indexed DEF Times
    <3> QED BY <1>4, <1>11, <2>1, <3>1, TimeNext DEF Forget, Deadline
  <2> QED BY <1>4, <1>11, <2>1, <2>2 DEF Forget, Typed, DemoTypeOK
<1> QED BY <1>5, <1>6, <1>7, <1>8, <1>9, <1>10, <1>11 DEF Effect

LEMMA KeyedNext ==
    ASSUME ProvisionInv, [DemoNext]_demoVars
    PROVE  Keyed'
<1>0. Effect /\ Typed /\ Typed' /\ Keyed
  BY EffectHolds, TypedNext DEF ProvisionInv
<1> USE <1>0
<1>1. ASSUME NEW k \in Keys, record'[k] # Nobody
      PROVE  key'[record'[k].ws] = k /\ pc'[record'[k].ws] # "idle"
  <2> DEFINE Fits(r) == r.ws \in Seekers /\ key[r.ws] = k /\ pc[r.ws] # "idle"
  <2>1. SUFFICES Fits(record'[k])
    BY Steady
  <2>2. record[k] # Nobody => Fits(record[k])
    BY DEF Keyed, Typed, DemoTypeOK, Records
  <2>3. ASSUME NEW c \in Seekers, pc[c] # "idle", NEW st \in Provisioned,
               record' = [record EXCEPT ![key[c]] = [ws |-> c, state |-> st]]
        PROVE  Fits(record'[k])
    BY <1>1, <2>2, <2>3 DEF Typed, DemoTypeOK
  <2>4. ASSUME record'[k] = record[k] PROVE Fits(record'[k])
    BY <1>1, <2>2, <2>4
  <2> HIDE DEF Fits
  <2>5. ASSUME NEW c \in Seekers, pc[c] # "idle",
               \/ \E w \in Works : Reserves(c, w) \/ (w.made < Parts /\ Writes(c, w))
               \/ \E to \in {"READY", "FAILED"} : Marks(c, to)
               \/ \E p \in 1..Parts : Cleans(c, p)
        PROVE  Fits(record'[k])
    BY <2>3, <2>4, <2>5 DEF Reserves, Writes, Marks, Cleans, Provisioned
  <2>6. ASSUME NEW j \in Keys, Forget(j) PROVE Fits(record'[k])
    BY <1>1, <2>4, <2>6 DEF Forget, Typed, DemoTypeOK
  <2> QED BY <2>4, <2>5, <2>6 DEF Effect, table, Expire
<1>2. ASSUME NEW x \in Seekers, pc'[x] = "compare"
      PROVE  key'[work'[x].look.ws] = key'[x] /\ pc'[work'[x].look.ws] # "idle"
  <2>1. CASE pc[x] = "compare" /\ work'[x] = work[x]
    <3>1. work[x].look.ws \in Seekers
      BY <2>1 DEF Typed, Records
    <3> QED BY <2>1, <3>1, Steady DEF Keyed
  <2>2. CASE FindRecord(x)
    <3>1. /\ pc[x] = "find" /\ work'[x].look = record[key[x]] /\ record[key[x]] # Nobody
      <4>1. Goes(x, "compare", Looking(x)) /\ record[key[x]] # Nobody
        BY <1>2, <2>2, FindsRecord, GoesTo, AnswersTo
      <4> QED BY <2>2, <4>1, Indexed DEF FindRecord, Goes, Looking, Works, Typed, DemoTypeOK
    <3>2. key[x] \in Keys
      BY <3>1 DEF Typed
    <3>3. record[key[x]].ws \in Seekers
      BY <3>1, <3>2 DEF Typed, DemoTypeOK, Records
    <3> QED BY <3>1, <3>2, <3>3, Steady DEF Keyed
  <2>3. (pc[x] = "compare" /\ work'[x] = work[x]) \/ FindRecord(x)
    <3>1. ASSUME UNCHANGED <<pc, work>> PROVE pc[x] = "compare" /\ work'[x] = work[x]
      BY <1>2, <3>1
    <3>2. ASSUME NEW c \in Seekers, SeekerNext(c), c # x PROVE pc[x] = "compare" /\ work'[x] = work[x]
      BY <1>2, <3>2, SeekerPrivate DEF Only
    <3>3. ASSUME SeekerNext(x), ~ Expire(x) PROVE FindRecord(x)
      BY <1>2, <3>3, CameFrom DEF CameBy
    <3>4. ASSUME Expire(x) PROVE UNCHANGED <<pc, work>>
      BY <3>4 DEF Expire
    <3> QED BY <3>1, <3>2, <3>3, <3>4 DEF DemoNext, demoVars, Arrives, Forget, Tick, SetPolicy
  <2> QED BY <2>1, <2>2, <2>3
<1> QED BY <1>1, <1>2 DEF Keyed

LEMMA BegunNext ==
    ASSUME ProvisionInv, [DemoNext]_demoVars
    PROVE  Begun'
<1>0. Typed /\ Begun /\ state \in [Seekers -> States]
  BY DEF ProvisionInv, Typed, DemoTypeOK
<1> USE <1>0
<1>1. \A x \in Seekers : Onward(x)
  BY GoesOnward
<1> DEFINE At(x) == /\ pc[x] \in {"seed", "confirm", "fail", "confirmFailed"} => state[x] # "none"
                    /\ pc[x] \in {"marker", "cleanup"} => state[x] \in {"FAILED", "gone"}
           Late == \A q \in late : q[1] = "ready" => state[q[2]] # "none"
<1>2. ASSUME NEW x \in Seekers, pc'[x] = pc[x] PROVE At(x)'
  BY <1>1, <1>2 DEF Begun, Onward
<1>3. ASSUME late' \subseteq late PROVE Late'
  BY <1>1, <1>3 DEF Begun, Onward, Typed, DemoTypeOK
<1>4. ASSUME NEW c \in Seekers, SeekerNext(c), ~ Expire(c) PROVE At(c)'
  <2>1. CASE Reserve(c)
    <3>1. pc'[c] = "seed" /\ state'[c] = "PROVISIONING"
      BY <2>1, GoesTo DEF Reserve, Reserves
    <3> QED BY <3>1
  <2>2. CASE Seed(c) \/ SeedFails(c) \/ MarkReady(c) \/ ConfirmReady(c)
    <3>1. pc[c] \in {"seed", "confirm"}
      BY <2>2 DEF Seed, SeedFails, MarkReady, ConfirmReady
    <3>2. pc'[c] \notin {"marker", "cleanup"}
      <4>1. CASE Seed(c)
        BY <4>1, GoesTo DEF Seed
      <4>2. CASE SeedFails(c)
        BY <4>2, GoesTo DEF SeedFails
      <4>3. CASE MarkReady(c)
        BY <4>3, GoesTo, AnswersTo DEF MarkReady
      <4>4. CASE ConfirmReady(c)
        BY <4>4, GoesTo, AnswersTo DEF ConfirmReady
      <4> QED BY <2>2, <4>1, <4>2, <4>3, <4>4
    <3> QED BY <1>1, <3>1, <3>2 DEF Begun, Onward
  <2>3. CASE MarkFailed(c)
    <3>1. pc[c] = "fail"
      BY <2>3 DEF MarkFailed
    <3>2. (pc'[c] = "marker" /\ state'[c] = "FAILED") \/ pc'[c] = "confirmFailed"
      BY <2>3, GoesTo DEF MarkFailed, Marks
    <3> QED BY <1>1, <3>1, <3>2 DEF Begun, Onward
  <2>4. CASE ConfirmFailed(c)
    <3>1. pc[c] = "confirmFailed" /\ state' = state
      BY <2>4 DEF ConfirmFailed, table
    <3>2. (pc'[c] = "marker" /\ state[c] = "FAILED") \/ pc'[c] = "done"
      BY <2>4, GoesTo, AnswersTo DEF ConfirmFailed
    <3> QED BY <3>1, <3>2
  <2>5. CASE Inventory(c) \/ Delete(c)
    <3>1. pc[c] \in {"marker", "cleanup"} /\ pc'[c] = "cleanup"
      <4>1. CASE Inventory(c)
        BY <4>1, GoesTo DEF Inventory
      <4>2. CASE Delete(c)
        BY <4>2, GoesTo DEF Delete
      <4> QED BY <2>5, <4>1, <4>2
    <3> QED BY <1>1, <3>1 DEF Begun, Onward
  <2> QED BY <1>4, <2>1, <2>2, <2>3, <2>4, <2>5, CameFrom DEF CameBy
<1>5. ASSUME NEW c \in Seekers, SeekerNext(c), ~ Expire(c) PROVE Late'
  <2>1. CASE MarkReady(c)
    <3>1. late' \subseteq late \cup {<<"ready", c, work[c]>>} /\ pc[c] = "seed"
      BY <2>1 DEF MarkReady, AnswerLost
    <3>2. state'[c] # "none"
      BY <1>1, <3>1 DEF Begun, Onward
    <3> QED BY <1>1, <3>1, <3>2 DEF Begun, Onward, Typed, DemoTypeOK
  <2>2. CASE ~ MarkReady(c)
    <3>1. PICK what \in {"reserve", "part", "failed"} : late' \subseteq late \cup {<<what, c, work[c]>>}
      BY <1>5, <2>2, AskingLeaves DEF SeekerNext, Asking, Start, Reserve, ReserveUnheard, Seed, SeedFails, MarkFailed,
          Delete, Expire, AnswerLost
    <3> QED BY <1>1, <3>1 DEF Begun, Onward, Typed, DemoTypeOK
  <2> QED BY <2>1, <2>2
<1>6. CASE \E c \in Seekers : SeekerNext(c)
  <2>1. PICK c \in Seekers : SeekerNext(c)
    BY <1>6
  <2>2. \A x \in Seekers \ {c} : pc'[x] = pc[x]
    BY <2>1, SeekerPrivate DEF Only
  <2>3. CASE Expire(c)
    BY <1>2, <1>3, <2>3 DEF Expire, Begun
  <2>4. CASE ~ Expire(c)
    BY <1>2, <1>4, <1>5, <2>1, <2>2, <2>4 DEF Begun
  <2> QED BY <2>3, <2>4
<1>7. CASE UNCHANGED pc /\ late' \subseteq late
  BY <1>2, <1>3, <1>7 DEF Begun
<1> QED BY <1>6, <1>7 DEF DemoNext, demoVars, Arrives, Forget, Tick, SetPolicy

-----------------------------------------------------------------------------
\* Nothing is deleted of a workspace that has not failed.
LEMMA PartsStay ==
    ASSUME ProvisionInv, [DemoNext]_demoVars, NEW x \in Seekers, state[x] # "FAILED"
    PROVE  parts[x] \subseteq parts'[x]
<1>0. Effect /\ parts \in [Seekers -> SUBSET (1..Parts)]
  BY EffectHolds DEF ProvisionInv, Typed, DemoTypeOK
<1>1. ASSUME parts' = parts PROVE parts[x] \subseteq parts'[x]
  BY <1>1
<1>2. ASSUME NEW c \in Seekers, NEW w \in Works, Writes(c, w) PROVE parts[x] \subseteq parts'[x]
  BY <1>0, <1>2 DEF Writes
<1>3. ASSUME NEW c \in Seekers, NEW p \in 1..Parts, Cleans(c, p) PROVE parts[x] \subseteq parts'[x]
  BY <1>0, <1>3 DEF Cleans
<1> QED BY <1>0, <1>1, <1>2, <1>3 DEF Effect, table, Reserves, Marks, Expire, Forget

\* Only what is whole is made ready.
LEMMA ReadyWhole ==
    ASSUME ProvisionInv, [DemoNext]_demoVars, NEW x \in Seekers, state'[x] = "READY"
    PROVE  parts[x] = 1..Parts /\ state[x] # "FAILED"
<1>0. Effect /\ state \in [Seekers -> States] /\ Seeded
  BY EffectHolds DEF ProvisionInv, Typed, DemoTypeOK
<1>1. ASSUME state'[x] = state[x] PROVE parts[x] = 1..Parts /\ state[x] # "FAILED"
  BY <1>0, <1>1 DEF Seeded
<1>2. ASSUME NEW c \in Seekers, NEW w \in Works, Reserves(c, w) PROVE state'[x] = state[x]
  BY <1>0, <1>2 DEF Reserves
<1>3. ASSUME NEW c \in Seekers, NEW to \in {"READY", "FAILED"}, Marks(c, to), to = "READY" => parts[c] = 1..Parts
      PROVE  state'[x] = state[x] \/ (state[x] = "PROVISIONING" /\ parts[x] = 1..Parts)
  BY <1>0, <1>3 DEF Marks
<1>4. ASSUME NEW c \in Seekers, Expire(c) PROVE state'[x] = state[x]
  BY <1>0, <1>4 DEF Expire
<1> QED BY <1>0, <1>1, <1>2, <1>3, <1>4 DEF Effect, table, Writes, Cleans, Forget

LEMMA SeededNext ==
    ASSUME ProvisionInv, [DemoNext]_demoVars
    PROVE  Seeded'
<1>0. Typed /\ Typed' /\ Seeded /\ Begun
  BY TypedNext DEF ProvisionInv
<1>1. \A x \in Seekers : parts'[x] \subseteq 1..Parts
  BY <1>0 DEF Typed, DemoTypeOK
<1>2. ASSUME NEW x \in Seekers, state'[x] = "READY" PROVE parts'[x] = 1..Parts
  BY <1>1, <1>2, ReadyWhole, PartsStay
<1>3. ASSUME NEW x \in Seekers, state'[x] = "PROVISIONING", state[x] # "none"
      PROVE  state[x] = "PROVISIONING" /\ parts[x] \subseteq parts'[x]
  BY <1>3, GoesOnward, PartsStay DEF Onward
<1>4. ASSUME NEW x \in Seekers, pc'[x] = pc[x], work'[x] = work[x], pc'[x] = "seed", state'[x] = "PROVISIONING"
      PROVE  1..work'[x].made \subseteq parts'[x]
  BY <1>0, <1>3, <1>4 DEF Begun, Seeded
<1>5. ASSUME NEW q \in late, q[1] = "ready", state'[q[2]] = "PROVISIONING"
      PROVE  parts'[q[2]] = 1..Parts
  <2>1. q[2] \in Seekers /\ state[q[2]] # "none"
    BY <1>0, <1>5 DEF Begun, Typed, DemoTypeOK
  <2>2. state[q[2]] = "PROVISIONING" /\ parts[q[2]] \subseteq parts'[q[2]]
    BY <1>3, <1>5, <2>1
  <2>3. parts[q[2]] = 1..Parts
    BY <1>0, <1>5, <2>2 DEF Seeded
  <2> QED BY <1>1, <2>1, <2>2, <2>3
<1>6. ASSUME NEW c \in Seekers, SeekerNext(c), ~ Expire(c), pc'[c] = "seed", state'[c] = "PROVISIONING"
      PROVE  1..work'[c].made \subseteq parts'[c]
  <2>1. CASE Reserve(c)
    <3>1. work'[c].made = 0
      BY <1>0, <2>1 DEF Reserve, Goes, Fresh, Typed, DemoTypeOK
    <3> QED BY <3>1
  <2>2. CASE Seed(c)
    <3>1. /\ pc[c] = "seed" /\ state'[c] = state[c]
          /\ parts'[c] = parts[c] \cup {work[c].made + 1}
      BY <1>0, <2>2 DEF Seed, Writes, Typed, DemoTypeOK
    <3>2. work'[c].made = work[c].made + 1 /\ work[c].made \in Nat
      BY <1>0, <2>2, Indexed, DemoAssumption DEF Seed, Goes, Works, Typed, DemoTypeOK
    <3>3. 1..work[c].made \subseteq parts[c]
      BY <1>0, <1>6, <3>1 DEF Seeded
    <3> QED BY <3>1, <3>2, <3>3
  <2> QED BY <1>0, <1>6, <2>1, <2>2, CameFrom DEF CameBy
<1>7. ASSUME NEW c \in Seekers, SeekerNext(c), NEW q \in late' \ late, q[1] = "ready", state'[q[2]] = "PROVISIONING"
      PROVE  parts'[q[2]] = 1..Parts
  <2>1. MarkReady(c)
    BY <1>7, AskingLeaves DEF SeekerNext, Asking, Start, Reserve, ReserveUnheard, Seed, SeedFails, MarkFailed, Delete,
        Expire, AnswerLost
  <2>2. q[2] = c /\ UNCHANGED table /\ pc[c] = "seed" /\ work[c].made = Parts
    BY <1>7, <2>1 DEF MarkReady, AnswerLost
  <2>3. 1..Parts \subseteq parts[c]
    BY <1>0, <1>7, <2>2 DEF Seeded, table
  <2> QED BY <1>1, <2>2, <2>3 DEF table
<1>8. CASE \E c \in Seekers : SeekerNext(c)
  <2>1. PICK c \in Seekers : SeekerNext(c)
    BY <1>8
  <2>2. \A x \in Seekers \ {c} : pc'[x] = pc[x] /\ work'[x] = work[x]
    BY <1>0, <2>1, SeekerPrivate DEF Only
  <2>3. Expire(c) => UNCHANGED <<pc, work>>
    BY DEF Expire
  <2> QED BY <1>2, <1>4, <1>5, <1>6, <1>7, <2>1, <2>2, <2>3 DEF Seeded
<1>9. CASE UNCHANGED <<pc, work>> /\ late' \subseteq late
  BY <1>2, <1>4, <1>5, <1>9 DEF Seeded
<1> QED BY <1>8, <1>9 DEF DemoNext, demoVars, Arrives, Forget, Tick, SetPolicy

-----------------------------------------------------------------------------
\* An answer is the one given before, or the call gives it now.
LEMMA AnsweredBy ==
    ASSUME Typed, [DemoNext]_demoVars, NEW c \in Seekers
    PROVE  answer'[c] = answer[c] \/ (SeekerNext(c) /\ ~ Expire(c))
<1>1. ASSUME NEW x \in Seekers, SeekerNext(x), x # c PROVE answer'[c] = answer[c]
  BY <1>1, SeekerPrivate DEF Only
<1>2. Expire(c) => answer'[c] = answer[c]
  BY DEF Expire
<1> QED BY <1>1, <1>2 DEF DemoNext, demoVars, Arrives, Forget, Tick, SetPolicy

\* The session a call answers now.
LEMMA SessionGiven ==
    ASSUME ProvisionInv, [DemoNext]_demoVars, NEW c \in Seekers, SeekerNext(c), ~ Expire(c),
           answer'[c] # answer[c], answer'[c][1] = "session"
    PROVE  LET ws == answer'[c][2] IN ws \in Seekers /\ key'[ws] = key'[c] /\ state'[ws] = "READY"
<1>0. Typed /\ Keyed /\ state \in [Seekers -> States]
  BY DEF ProvisionInv, Typed, DemoTypeOK
<1>1. CASE FindWorkspace(c)
  <2> DEFINE found == work[c].look
  <2>1. pc[c] = "compare" /\ found \in Records /\ UNCHANGED <<table, whose>>
    BY <1>0, <1>1 DEF FindWorkspace, Typed
  <2>2. found.ws \in Seekers /\ found.state \in Provisioned
    BY <2>1 DEF Records
  <2>3. found.state = "READY" /\ state[found.ws] = "READY" /\ Answers(c, "session", found.ws)
    <3>1. ASSUME NEW kind, kind # "session", NEW w, Answers(c, kind, w) PROVE FALSE
      BY <1>0, <3>1, AnswersGives
    <3> QED BY <1>1, <2>2, <3>1 DEF FindWorkspace, Unreadable, Provisioned
  <2>4. answer'[c][2] = found.ws
    BY <1>0, <2>3, AnswersGives
  <2> QED BY <1>0, <2>1, <2>2, <2>3, <2>4 DEF Keyed, table, whose
<1>2. CASE MarkReady(c)
  <2>1. Marks(c, "READY") /\ Answers(c, "session", c)
    BY <1>0, <1>2, GoesKeeps DEF MarkReady
  <2>2. answer'[c][2] = c
    BY <1>0, <2>1, AnswersGives
  <2> QED BY <1>0, <2>1, <2>2 DEF Marks
<1>3. CASE ConfirmReady(c)
  <2>1. state[c] = "READY" /\ Answers(c, "session", c) /\ UNCHANGED table
    BY <1>0, <1>3, GoesKeeps DEF ConfirmReady
  <2>2. answer'[c][2] = c
    BY <1>0, <2>1, AnswersGives
  <2> QED BY <2>1, <2>2 DEF table
<1> QED BY <1>0, <1>1, <1>2, <1>3, CameFrom DEF CameBy

LEMMA AnswersNext ==
    ASSUME ProvisionInv, [DemoNext]_demoVars
    PROVE  Delivered' /\ DemoAnswersTrue'
<1>0. /\ Typed /\ Unreserved /\ Unanswered /\ Begun /\ Delivered /\ DemoAnswersTrue
      /\ Typed' /\ Unreserved' /\ Unanswered' /\ Seeded'
  BY TypedNext, UnreservedNext, SeededNext DEF ProvisionInv
<1>2. ASSUME NEW c \in Seekers, answer'[c][1] = "session"
      PROVE  LET ws == answer[c][2] IN
             /\ ws' \in Seekers /\ key'[ws'] = key'[c]
             /\ Whole(ws)' \/ (state'[ws'] = "gone" /\ clock' >= Deadline(ws)')
  <2> DEFINE ws == answer[c][2]
  <2>1. CASE answer'[c] = answer[c]
    <3>1. /\ ws' = ws /\ ws \in Seekers /\ pc[c] = "done"
          /\ key[ws] = key[c] /\ (Whole(ws) \/ (state[ws] = "gone" /\ clock >= Deadline(ws)))
      BY <1>0, <1>2, <2>1 DEF Delivered, DemoAnswersTrue, Unanswered
    <3>2. pc[ws] # "idle"
      BY <1>0, <3>1 DEF Unreserved, Unasked, Whole
    <3>3. key'[c] = key[c] /\ key'[ws] = key[ws] /\ at'[ws] = at[ws]
      BY <1>0, <3>1, <3>2, Steady
    <3>4. state'[ws] = "READY" \/ (state'[ws] = "gone" /\ clock >= Deadline(ws))
      BY <3>1, GoesOnward DEF Onward, Whole
    <3>5. clock >= Deadline(ws) => clock' >= Deadline(ws)
      <4>1. at[ws] \in Nat /\ Ttl \in Nat
        BY <1>0, <3>1, Indexed, DemoAssumption DEF Times
      <4> QED BY <1>0, <4>1, TimeNext DEF Deadline
    <3> QED BY <1>0, <3>1, <3>3, <3>4, <3>5 DEF Seeded, Whole, Deadline
  <2>2. CASE answer'[c] # answer[c]
    <3>1. ws' \in Seekers /\ key'[ws'] = key'[c] /\ state'[ws'] = "READY"
      BY <1>0, <1>2, <2>2, AnsweredBy, SessionGiven
    <3> QED BY <1>0, <3>1 DEF Seeded, Whole
  <2> QED BY <2>1, <2>2
<1>3. ASSUME NEW c \in Seekers, answer'[c][1] = "failed" PROVE state'[c] \in {"FAILED", "gone"}
  <2>1. state[c] \in {"FAILED", "gone"}
    <3>1. CASE answer'[c] = answer[c]
      BY <1>0, <1>3, <3>1 DEF DemoAnswersTrue
    <3>2. CASE answer'[c] # answer[c]
      <4>1. CleanupEnds(c)
        BY <1>0, <1>3, <3>2, AnsweredBy, CameFrom DEF CameBy
      <4> QED BY <1>0, <4>1 DEF CleanupEnds, Begun
    <3> QED BY <3>1, <3>2
  <2> QED BY <2>1, GoesOnward DEF Onward
<1>4. ASSUME NEW c \in Seekers, answer'[c][1] \in {"quota", "paused", "unavailable"} PROVE state'[c] = "none"
  BY <1>0, <1>4 DEF Unreserved, Unanswered, Unasked
<1> QED BY <1>2, <1>3, <1>4 DEF Delivered, DemoAnswersTrue

-----------------------------------------------------------------------------
LEMMA BudgetedNext ==
    ASSUME ProvisionInv, [DemoNext]_demoVars
    PROVE  Budgeted'
<1>0. /\ Typed /\ Budgeted /\ policy \in Policies
      /\ pc \in [Seekers -> Places] /\ work \in [Seekers -> Works]
  BY DEF ProvisionInv, Typed, DemoTypeOK
<1> DEFINE Fits(x) ==
      /\ pc'[x] \in {"day", "minute"} => Policed(work'[x])
      /\ pc'[x] = "reserve" => Admitted(work'[x])
<1>1. ASSUME NEW x \in Seekers, pc'[x] = pc[x], work'[x] = work[x] PROVE Fits(x)
  BY <1>0, <1>1 DEF Budgeted
<1>2. \A q \in late : q[1] = "reserve" => Admitted(q[3])
  BY <1>0 DEF Budgeted
<1>3. ASSUME NEW c \in Seekers, SeekerNext(c), ~ Expire(c) PROVE Fits(c)
  <2>1. CASE ReadPolicy(c)
    <3>1. CASE policy.enabled
      <4>1. pc'[c] = "day" /\ work'[c].policy = policy
        BY <1>0, <2>1, <3>1 DEF ReadPolicy, Goes, Works
      <4> QED BY <1>0, <3>1, <4>1 DEF Policed
    <3>2. CASE ~ policy.enabled
      BY <1>0, <2>1, <3>2, AnswersTo DEF ReadPolicy
    <3> QED BY <3>1, <3>2
  <2>2. CASE ReadDay(c)
    <3>1. pc[c] = "day" /\ pc'[c] = "minute" /\ work'[c].policy = work[c].policy
      BY <1>0, <2>2 DEF ReadDay, Goes, Works
    <3> QED BY <1>0, <3>1 DEF Budgeted, Policed
  <2>3. CASE ReadMinute(c)
    <3>1. CASE Exhausted(work[c].policy, work[c].day, minutely[at[c]])
      BY <1>0, <2>3, <3>1 DEF ReadMinute, Goes
    <3>2. CASE ~ Exhausted(work[c].policy, work[c].day, minutely[at[c]])
      <4>1. /\ pc'[c] = "reserve" /\ work'[c].policy = work[c].policy
            /\ work'[c].day = work[c].day /\ work'[c].minute = minutely[at[c]]
        BY <1>0, <2>3, <3>2 DEF ReadMinute, Goes, Works
      <4>2. Policed(work[c])
        BY <1>0, <2>3 DEF ReadMinute, Budgeted
      <4> QED BY <3>2, <4>1, <4>2 DEF Policed, Admitted, Exhausted
    <3> QED BY <3>1, <3>2
  <2> QED BY <1>0, <1>3, <2>1, <2>2, <2>3, CameFrom DEF CameBy
<1>4. ASSUME NEW c \in Seekers, SeekerNext(c), NEW q \in late' \ late, q[1] = "reserve" PROVE Admitted(q[3])
  <2>1. ReserveUnheard(c)
    BY <1>4, AskingLeaves DEF SeekerNext, Asking, Start, Reserve, Seed, SeedFails, MarkReady, MarkFailed, Delete,
        Expire, AnswerLost
  <2> QED BY <1>0, <1>4, <2>1 DEF ReserveUnheard, AnswerLost, Budgeted
<1>5. ASSUME \E c \in Seekers : SeekerNext(c)
      PROVE  (\A x \in Seekers : Fits(x)) /\ (\A q \in late' : q[1] = "reserve" => Admitted(q[3]))
  <2>1. PICK c \in Seekers : SeekerNext(c)
    BY <1>5
  <2>2. \A x \in Seekers \ {c} : pc'[x] = pc[x] /\ work'[x] = work[x]
    BY <1>0, <2>1, SeekerPrivate DEF Only
  <2>3. Expire(c) => UNCHANGED <<pc, work>>
    BY DEF Expire
  <2> QED BY <1>1, <1>2, <1>3, <1>4, <2>1, <2>2, <2>3
<1>6. ASSUME UNCHANGED <<pc, work>> /\ late' \subseteq late
      PROVE  (\A x \in Seekers : Fits(x)) /\ (\A q \in late' : q[1] = "reserve" => Admitted(q[3]))
  BY <1>1, <1>2, <1>6
<1>7. (\A x \in Seekers : Fits(x)) /\ (\A q \in late' : q[1] = "reserve" => Admitted(q[3]))
  <2> HIDE DEF Fits
  <2> QED BY <1>5, <1>6 DEF DemoNext, demoVars, Arrives, Forget, Tick, SetPolicy
<1> QED BY <1>7 DEF Budgeted, Policed, Admitted, Exhausted

\* A step reserves a workspace, within the policy it finds, or none.
Reservation(c) ==
    /\ ~ Reserved(c) /\ UNCHANGED <<outside, whose>>
    /\ \A x \in Seekers : Reserved(x)' <=> x = c \/ Reserved(x)
    /\ policy.enabled
    /\ daily[Day(at[c])] < policy.budget.daily /\ minutely[at[c]] < policy.budget.minute
    /\ daily' = [daily EXCEPT ![Day(at[c])] = @ + 1]
    /\ minutely' = [minutely EXCEPT ![at[c]] = @ + 1]

NoReservations ==
    /\ \A x \in Seekers : Reserved(x)' <=> Reserved(x)
    /\ UNCHANGED <<daily, minutely>>

LEMMA ReservesOne ==
    ASSUME ProvisionInv, [DemoNext]_demoVars
    PROVE  NoReservations \/ \E c \in Seekers : Reservation(c)
<1>0. Effect /\ Typed /\ state \in [Seekers -> States]
  BY EffectHolds DEF ProvisionInv, Typed, DemoTypeOK
<1> USE DEF NoReservations, Reserved
<1>1. CASE UNCHANGED table
  BY <1>1 DEF table
<1>2. ASSUME NEW c \in Seekers, UNCHANGED <<outside, whose>>, NEW w \in Works, Admitted(w), Reserves(c, w)
      PROVE  Reservation(c)
  <2>1. /\ policy = w.policy /\ daily[Day(at[c])] = w.day /\ minutely[at[c]] = w.minute
        /\ state[c] = "none"
    BY <1>2 DEF Reserves, Admissible
  <2>2. policy.enabled /\ daily[Day(at[c])] < policy.budget.daily /\ minutely[at[c]] < policy.budget.minute
    <3>1. policy.budget.daily \in Nat /\ policy.budget.minute \in Nat
      BY <1>0, DemoAssumption DEF Typed, DemoTypeOK, Policies
    <3> QED BY <1>0, <1>2, <2>1, <3>1, Indexed DEF Admitted, Policed, Exhausted
  <2> QED BY <1>0, <1>2, <2>1, <2>2 DEF Reservation, Reserves
<1>3. ASSUME NEW c \in Seekers, NEW w \in Works, Writes(c, w) PROVE NoReservations
  BY <1>3 DEF Writes
<1>4. ASSUME NEW c \in Seekers, NEW to \in {"READY", "FAILED"}, Marks(c, to) PROVE NoReservations
  BY <1>0, <1>4 DEF Marks
<1>5. ASSUME NEW c \in Seekers, NEW p \in 1..Parts, Cleans(c, p) PROVE NoReservations
  BY <1>5 DEF Cleans
<1>6. ASSUME NEW c \in Seekers, Expire(c) PROVE NoReservations
  BY <1>0, <1>6 DEF Expire
<1>7. ASSUME NEW k \in Keys, Forget(k) PROVE NoReservations
  BY <1>7 DEF Forget
<1> HIDE DEF NoReservations, Reserved
<1> QED BY <1>0, <1>1, <1>2, <1>3, <1>4, <1>5, <1>6, <1>7 DEF Effect

\* What is reserved was asked for when it says, before the step and after.
LEMMA ReservedSteady ==
    ASSUME ProvisionInv, [DemoNext]_demoVars, NEW x \in Seekers, Reserved(x)
    PROVE  at'[x] = at[x]
BY Steady DEF ProvisionInv, Unreserved, Unasked, Reserved

\* Adding one to a set of calls adds one to its size.
LEMMA OneMore ==
    ASSUME NEW S \in SUBSET Seekers, NEW c, c \notin S
    PROVE  Cardinality(S \cup {c}) = Cardinality(S) + 1
BY DemoAssumption, FS_Subset, FS_AddElement

LEMMA CountedNext ==
    ASSUME ProvisionInv, [DemoNext]_demoVars
    PROVE  Counted'
<1>0. /\ Typed /\ Counted
      /\ daily \in [Days -> Nat] /\ minutely \in [Times -> Nat]
  BY DEF ProvisionInv, Typed, DemoTypeOK
<1>1. CASE NoReservations
  <2>1. \A d : ReservedOn(d)' = ReservedOn(d) /\ ReservedAt(d)' = ReservedAt(d)
    BY <1>1, ReservedSteady DEF NoReservations, ReservedOn, ReservedAt
  <2> QED BY <1>0, <1>1, <2>1 DEF Counted, NoReservations
<1>2. ASSUME NEW c \in Seekers, Reservation(c) PROVE Counted'
  <2>1. at' = at
    BY <1>2 DEF Reservation, whose
  <2>2. ASSUME NEW d \in Days PROVE daily'[d] = Cardinality(ReservedOn(d)')
    <3>1. CASE d = Day(at[c])
      <4>1. ReservedOn(d)' = ReservedOn(d) \cup {c} /\ c \notin ReservedOn(d)
        BY <1>2, <2>1, <3>1 DEF Reservation, ReservedOn, Day
      <4>2. ReservedOn(d) \in SUBSET Seekers
        BY DEF ReservedOn
      <4> QED BY <1>0, <1>2, <3>1, <4>1, <4>2, OneMore DEF Reservation, Counted
    <3>2. CASE d # Day(at[c])
      <4>1. ReservedOn(d)' = ReservedOn(d)
        BY <1>2, <2>1, <3>2 DEF Reservation, ReservedOn, Day
      <4> QED BY <1>0, <1>2, <3>2, <4>1 DEF Reservation, Counted
    <3> QED BY <3>1, <3>2
  <2>3. ASSUME NEW m \in Times PROVE minutely'[m] = Cardinality(ReservedAt(m)')
    <3>1. CASE m = at[c]
      <4>1. ReservedAt(m)' = ReservedAt(m) \cup {c} /\ c \notin ReservedAt(m)
        BY <1>2, <2>1, <3>1 DEF Reservation, ReservedAt
      <4>2. ReservedAt(m) \in SUBSET Seekers
        BY DEF ReservedAt
      <4> QED BY <1>0, <1>2, <3>1, <4>1, <4>2, OneMore DEF Reservation, Counted
    <3>2. CASE m # at[c]
      <4>1. ReservedAt(m)' = ReservedAt(m)
        BY <1>2, <2>1, <3>2 DEF Reservation, ReservedAt
      <4> QED BY <1>0, <1>2, <3>2, <4>1 DEF Reservation, Counted
    <3> QED BY <3>1, <3>2
  <2> QED BY <2>2, <2>3 DEF Counted
<1> QED BY <1>1, <1>2, ReservesOne

LEMMA ProvisionNext == ProvisionInv /\ [DemoNext]_demoVars => ProvisionInv'
<1> SUFFICES ASSUME ProvisionInv, [DemoNext]_demoVars PROVE ProvisionInv'
  OBVIOUS
<1>1. Typed' /\ Unreserved' /\ Unanswered'
  BY TypedNext, UnreservedNext DEF ProvisionInv
<1> QED BY <1>1, KeyedNext, RecordedNext, SeededNext, BegunNext, AnswersNext, BudgetedNext, CountedNext DEF ProvisionInv

-----------------------------------------------------------------------------
LEMMA Provisions == DemoSpec => []ProvisionInv
<1>1. ProvisionInv /\ UNCHANGED demoVars => ProvisionInv'
  BY ProvisionNext
<1> QED BY ProvisionInit, ProvisionNext, PTL DEF DemoSpec

(***************************************************************************)
(* Every variable keeps its type, whatever the calls, the table and the    *)
(* operator do.                                                            *)
(***************************************************************************)
THEOREM DemoTypeCorrect == DemoSpec => []DemoTypeOK
<1>1. ProvisionInv => DemoTypeOK
  BY DEF ProvisionInv, Typed
<1> QED BY <1>1, Provisions, PTL

(***************************************************************************)
(* A key never has two demos at a time: what lives under it is what its    *)
(* record names.                                                           *)
(***************************************************************************)
THEOREM OneDemoAtATime == DemoSpec => []OneDemoPerKey
<1>1. ProvisionInv => OneDemoPerKey
  <2> SUFFICES ASSUME Recorded, NEW v \in Seekers, NEW w \in Seekers, Live(v), Live(w), key[v] = key[w]
               PROVE  v = w
    BY DEF ProvisionInv, OneDemoPerKey
  <2>1. record[key[v]] = [ws |-> v, state |-> state[v]] /\ record[key[w]] = [ws |-> w, state |-> state[w]]
    BY DEF Recorded
  <2>2. [ws |-> v, state |-> state[v]].ws = [ws |-> w, state |-> state[w]].ws
    BY <2>1
  <2> QED BY <2>2
<1> QED BY <1>1, Provisions, PTL

(***************************************************************************)
(* Every answer is true, and remains so: of a session, of a failure and of *)
(* a refusal, though requests fail, are lost, or are applied late.         *)
(***************************************************************************)
THEOREM AnswersAreTrue == DemoSpec => []DemoAnswersTrue
<1>1. ProvisionInv => DemoAnswersTrue
  BY DEF ProvisionInv
<1> QED BY <1>1, Provisions, PTL

(***************************************************************************)
(* Whenever a workspace is reserved, issuing is enabled and the budgets of *)
(* that moment's policy cover everything reserved for the same day, and    *)
(* for the same minute.                                                    *)
(***************************************************************************)
THEOREM BudgetsAreKept == DemoSpec => WithinBudget
<1> DEFINE SameDay(c) == {x \in Seekers : Reserved(x)' /\ Day(at[x]) = Day(at[c])}
           SameMinute(c) == {x \in Seekers : Reserved(x)' /\ at[x] = at[c]}
           Kept(c) == /\ policy.enabled
                      /\ Cardinality(SameDay(c)) <= policy.budget.daily
                      /\ Cardinality(SameMinute(c)) <= policy.budget.minute
<1>1. ProvisionInv /\ [DemoNext]_demoVars => [\A c \in Seekers : ~ Reserved(c) /\ Reserved(c)' => Kept(c)]_demoVars
  <2> SUFFICES ASSUME ProvisionInv, [DemoNext]_demoVars, NEW c \in Seekers, ~ Reserved(c), Reserved(c)'
               PROVE  Kept(c)
    OBVIOUS
  <2>1. Reservation(c)
    <3>1. PICK x \in Seekers : Reservation(x)
      BY ReservesOne DEF NoReservations
    <3>2. x = c
      BY <3>1 DEF Reservation
    <3> QED BY <3>1, <3>2
  <2>2. /\ Typed /\ Counted /\ Day(at[c]) \in Days /\ at[c] \in Times
        /\ daily[Day(at[c])] \in Nat /\ minutely[at[c]] \in Nat
    BY Indexed DEF ProvisionInv
  <2>3. Cardinality(SameDay(c)) = daily[Day(at[c])] + 1
    <3>1. SameDay(c) = ReservedOn(Day(at[c])) \cup {c} /\ c \notin ReservedOn(Day(at[c]))
      BY <2>1 DEF Reservation, ReservedOn
    <3>2. ReservedOn(Day(at[c])) \in SUBSET Seekers
      BY DEF ReservedOn
    <3> HIDE DEF SameDay
    <3> QED BY <2>2, <3>1, <3>2, OneMore DEF Counted
  <2>4. Cardinality(SameMinute(c)) = minutely[at[c]] + 1
    <3>1. SameMinute(c) = ReservedAt(at[c]) \cup {c} /\ c \notin ReservedAt(at[c])
      BY <2>1 DEF Reservation, ReservedAt
    <3>2. ReservedAt(at[c]) \in SUBSET Seekers
      BY DEF ReservedAt
    <3> HIDE DEF SameMinute
    <3> QED BY <2>2, <3>1, <3>2, OneMore DEF Counted
  <2>5. policy.budget.daily \in Nat /\ policy.budget.minute \in Nat
    BY <2>2, DemoAssumption DEF Typed, DemoTypeOK, Policies
  <2> HIDE DEF SameDay, SameMinute
  <2> QED BY <2>1, <2>2, <2>3, <2>4, <2>5 DEF Reservation
<1> QED BY <1>1, Provisions, PTL DEF DemoSpec, WithinBudget
===============================================================================
