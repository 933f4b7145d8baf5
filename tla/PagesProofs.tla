----------------------------- MODULE PagesProofs -----------------------------
(***************************************************************************)
(* Theorems about the pages that change something, one section for each:   *)
(* the settings, the forms that edit a record, the preparation drawer, the *)
(* form that adds an opportunity, and the frame around them.               *)
(***************************************************************************)
EXTENDS MCPages, FiniteSetTheorems, SequenceTheorems, TLAPS

-----------------------------------------------------------------------------
(***************************************************************************)
(* The settings.                                                           *)
(***************************************************************************)

(***************************************************************************)
(* A copy of the record that has the server's version is the same as the   *)
(* server's, and none is newer.                                            *)
(***************************************************************************)
Agrees(rec) == rec.ver <= server.ver /\ (rec.ver = server.ver => rec = server)

Copied ==
    /\ cached # Nothing => Agrees(cached)
    /\ reading # Nothing => Agrees(reading)

\* A change was made from a version the server had, and its answer is a copy.
Honest(s, change) ==
    /\ change.by = s /\ change.ver <= server.ver
    /\ change.state = "saved" => change.answer \in Records /\ Agrees(change.answer)

Flying ==
    /\ \A s \in Savers : Pending(s) => Honest(s, sent[s])
    /\ \A change \in left : change.ver <= server.ver

\* What any page with copies of the record knows.
RecordInv == RecordTypeOK /\ Copied /\ Flying

\* What the form sends is new to the version it was made from.
News(change) == \E f \in Fields \cap DOMAIN change.patch : change.patch[f] # server.val[f]

FormIsNews ==
    Pending("form") =>
        /\ attempted \/ marked
        /\ sent["form"].state = "sent" /\ sent["form"].ver = server.ver => News(sent["form"])

\* An automatic zone that is still under way comes too late.
TooLate ==
    /\ Pending("automatic") /\ sent["automatic"].state = "sent" => sent["automatic"].ver < server.ver
    /\ \A change \in left : change.by = "automatic" => change.ver < server.ver

SettingsInv ==
    /\ SettingsTypeOK
    /\ Copied /\ Flying /\ FormIsNews
    /\ marked \/ Saved("form") => TooLate
    /\ OnlyEditedSent

\* The server's record only moves on to newer versions.
Moves ==
    /\ server' \in Records /\ server'.ver >= server.ver
    /\ server'.ver = server.ver => server' = server

LEMMA SettingsRecord == ASSUME SettingsInv PROVE RecordInv
BY DEF SettingsInv, SettingsTypeOK, RecordInv

LEMMA RecordVersions == ASSUME NEW rec \in Records PROVE rec.ver \in Int
BY RecordAssumption DEF Records

LEMMA FlightFields ==
    ASSUME NEW change \in Flights
    PROVE  /\ change.by \in Savers /\ change.ver \in 1..MaxVersion /\ change.ver \in Int
           /\ change.patch \in Patches
BY RecordAssumption DEF Flights

LEMMA MergedIsTyped ==
    ASSUME NEW patch \in Patches, NEW val \in [Fields -> Values]
    PROVE  Merged(patch, val) \in [Fields -> Values]
<1>1. PICK F \in SUBSET Fields : patch \in [F -> Values]
  BY DEF Patches
<1> QED BY <1>1 DEF Merged

LEMMA AfterMoves ==
    ASSUME server \in Records, NEW change \in Flights, After(change).ver <= MaxVersion
    PROVE  /\ After(change) \in Records /\ After(change).ver >= server.ver
           /\ After(change).ver = server.ver => After(change) = server
           /\ News(change) => After(change).ver > server.ver
<1> DEFINE val == Merged(change.patch, server.val)
<1>1. server.ver \in 1..MaxVersion /\ server.ver \in Int /\ server.val \in [Fields -> Values]
  BY RecordVersions DEF Records
<1>2. val \in [Fields -> Values]
  BY <1>1, FlightFields, MergedIsTyped
<1>3. News(change) => val # server.val
  BY DEF News, Merged
<1>4. After(change) = IF val = server.val THEN server ELSE [ver |-> server.ver + 1, val |-> val]
  BY DEF After
<1> HIDE DEF val
<1>5. CASE val = server.val
  BY <1>1, <1>3, <1>4, <1>5
<1>6. CASE val # server.val
  <2>1. After(change) = [ver |-> server.ver + 1, val |-> val]
    BY <1>4, <1>6
  <2>2. server.ver + 1 \in 1..MaxVersion
    BY <1>1, <2>1, RecordAssumption
  <2> QED BY <1>1, <1>2, <2>1, <2>2 DEF Records
<1> QED BY <1>5, <1>6

LEMMA CopyStays ==
    ASSUME server \in Records, Moves, NEW rec \in Records, Agrees(rec)
    PROVE  Agrees(rec)'
<1>1. rec.ver \in Int /\ server.ver \in Int /\ server'.ver \in Int
  BY RecordVersions DEF Moves
<1> QED BY <1>1 DEF Agrees, Moves

LEMMA HonestStays ==
    ASSUME server \in Records, Moves, NEW s, NEW change \in Flights, Honest(s, change)
    PROVE  Honest(s, change)'
<1>1. change.ver \in Int /\ server.ver \in Int /\ server'.ver \in Int
  BY RecordVersions, FlightFields DEF Moves
<1>2. change.state = "saved" => Agrees(change.answer)'
  BY CopyStays DEF Honest
<1> QED BY <1>1, <1>2 DEF Honest, Moves

-----------------------------------------------------------------------------
(***************************************************************************)
(* The parts of the invariant, each under the little of a step it depends  *)
(* on.                                                                     *)
(***************************************************************************)
LEMMA CopiesStay ==
    ASSUME server \in Records, Moves, NEW c, NEW r, cached' = c, reading' = r,
           c # Nothing => c \in Records /\ Agrees(c),
           r # Nothing => r \in Records /\ Agrees(r)
    PROVE  Copied'
<1>1. c # Nothing => Agrees(c)'
  BY CopyStays
<1>2. r # Nothing => Agrees(r)'
  BY CopyStays
<1> QED BY <1>1, <1>2 DEF Copied, Agrees

LEMMA OwnCopies ==
    ASSUME RecordInv
    PROVE  /\ server \in Records /\ server.ver \in Int /\ Agrees(server)
           /\ cached # Nothing => cached \in Records /\ Agrees(cached)
           /\ reading # Nothing => reading \in Records /\ Agrees(reading)
<1>1. /\ server \in Records
      /\ cached # Nothing => cached \in Records
      /\ reading # Nothing => reading \in Records
  BY DEF RecordInv, RecordTypeOK
<1>2. Agrees(server)
  BY <1>1, RecordVersions DEF Agrees
<1> QED BY <1>1, <1>2, RecordVersions DEF RecordInv, Copied

LEMMA CopiedStays ==
    ASSUME RecordInv, Moves, cached' = cached, reading' \in {reading, server, Nothing}
    PROVE  Copied'
<1>1. PICK c, r : c = cached /\ r = reading'
  OBVIOUS
<1>2. /\ c # Nothing => c \in Records /\ Agrees(c)
      /\ r # Nothing => r \in Records /\ Agrees(r)
  BY <1>1, OwnCopies
<1>3. server \in Records /\ cached' = c /\ reading' = r
  BY <1>1, OwnCopies
<1> QED BY <1>2, <1>3, CopiesStay

LEMMA FlyingStays ==
    ASSUME RecordInv, Moves, NEW fixed,
           \A t \in Savers \ fixed : sent'[t] \in {sent[t], Nothing},
           \A t \in fixed \cap Savers : (sent[t] # Nothing => Honest(t, sent[t]))',
           left' \subseteq left \cup {sent[t] : t \in {p \in Savers : Pending(p)}}
    PROVE  Flying'
<1>1. server \in Records /\ server.ver \in Int /\ server'.ver \in Int
  BY OwnCopies, RecordVersions DEF Moves
<1>2. ASSUME NEW t \in Savers, Pending(t)' PROVE Honest(t, sent[t])'
  <2>1. CASE t \in fixed
    BY <1>2, <2>1 DEF Pending, Honest
  <2>2. CASE t \notin fixed
    <3>1. sent'[t] = sent[t] /\ sent[t] # Nothing
      BY <1>2, <2>2 DEF Pending
    <3>2. PICK change \in Flights : change = sent[t]
      BY <3>1 DEF RecordInv, RecordTypeOK
    <3>3. Honest(t, change)'
      BY <1>1, <3>1, <3>2, HonestStays DEF RecordInv, Flying, Pending
    <3> QED BY <3>1, <3>2, <3>3 DEF Honest
  <2> QED BY <2>1, <2>2
<1>3. ASSUME NEW change \in left' PROVE change.ver <= server'.ver
  <2>1. change \in Flights /\ change.ver <= server.ver
    <3>1. CASE change \in left
      BY <3>1 DEF RecordInv, RecordTypeOK, Flying
    <3>2. ASSUME NEW t \in Savers, Pending(t), change = sent[t] PROVE change \in Flights /\ change.ver <= server.ver
      BY <3>2 DEF RecordInv, RecordTypeOK, Flying, Honest, Pending
    <3> QED BY <3>1, <3>2
  <2>2. change.ver \in Int
    BY <2>1, FlightFields
  <2> QED BY <1>1, <2>1, <2>2 DEF Moves
<1> QED BY <1>2, <1>3 DEF Flying

LEMMA FormStays ==
    ASSUME SettingsInv, Moves,
           \/ sent'["form"] = Nothing
           \/ sent'["form"] = sent["form"] /\ (attempted => attempted') /\ (marked => marked')
    PROVE  FormIsNews'
<1> SUFFICES ASSUME Pending("form")' PROVE FormIsNews'
  BY DEF FormIsNews
<1>1. /\ sent'["form"] = sent["form"] /\ Pending("form") /\ "form" \in Savers
      /\ (attempted => attempted') /\ (marked => marked')
  BY SettingsAssumption DEF Pending
<1>2. PICK change \in Flights : change = sent["form"]
  BY <1>1 DEF SettingsInv, SettingsTypeOK, RecordTypeOK, Pending
<1>3. change.ver \in Int /\ server.ver \in Int /\ server'.ver \in Int /\ change.ver <= server.ver
  BY <1>1, <1>2, OwnCopies, RecordVersions, FlightFields, SettingsRecord DEF Moves, SettingsInv, Flying, Honest
<1>4. change.ver = server'.ver => server' = server /\ change.ver = server.ver
  BY <1>3 DEF Moves
<1> QED BY <1>1, <1>2, <1>4 DEF SettingsInv, FormIsNews, News, Pending

LEMMA EditsStay ==
    ASSUME SettingsInv, UNCHANGED <<draft, dirty, cached>>
    PROVE  OnlyEditedSent'
BY DEF SettingsInv, OnlyEditedSent

LEMMA SentTyped ==
    ASSUME RecordInv, NEW s \in Savers, NEW new \in Flights \cup {Nothing}, sent' = [sent EXCEPT ![s] = new]
    PROVE  /\ sent' \in [Savers -> Flights \cup {Nothing}]
           /\ sent'[s] = new /\ \A t \in Savers \ {s} : sent'[t] = sent[t]
BY DEF RecordInv, RecordTypeOK

LEMMA LateStays ==
    ASSUME SettingsInv, Moves, (marked \/ Saved("form"))' => marked \/ Saved("form"),
           \/ sent'["automatic"] \in {sent["automatic"], Nothing}
           \/ sent'["automatic"].state # "sent",
           left' \subseteq left \cup {sent[t] : t \in {p \in Savers : Pending(p) /\ sent[p].state = "sent"}}
    PROVE  (marked \/ Saved("form") => TooLate)'
<1> SUFFICES ASSUME (marked \/ Saved("form"))' PROVE TooLate'
  OBVIOUS
<1>1. server.ver \in Int /\ server'.ver \in Int /\ TooLate /\ server'.ver >= server.ver
  BY OwnCopies, RecordVersions, SettingsRecord DEF Moves, SettingsInv
<1>2. "automatic" \in Savers
  BY SettingsAssumption
<1>3. Pending("automatic") => sent["automatic"] \in Flights
  BY <1>2 DEF SettingsInv, SettingsTypeOK, RecordTypeOK, Pending
<1>4. (Pending("automatic") /\ sent["automatic"].state = "sent" => sent["automatic"].ver < server.ver)'
  BY <1>1, <1>2, <1>3, FlightFields DEF TooLate, Pending
<1>5. ASSUME NEW change \in left', change.by = "automatic" PROVE change.ver < server'.ver
  <2>1. change \in Flights /\ change.ver < server.ver
    <3>1. CASE change \in left
      BY <1>1, <1>5, <3>1 DEF SettingsInv, SettingsTypeOK, RecordTypeOK, TooLate
    <3>2. ASSUME NEW t \in Savers, Pending(t), sent[t].state = "sent", change = sent[t]
          PROVE  change \in Flights /\ change.ver < server.ver
      <4>1. t = "automatic"
        BY <1>5, <3>2 DEF SettingsInv, Flying, Honest
      <4> QED BY <1>1, <1>3, <3>2, <4>1 DEF TooLate
    <3> QED BY <3>1, <3>2
  <2>2. change.ver \in Int
    BY <2>1, FlightFields
  <2> QED BY <1>1, <2>1, <2>2
<1> QED BY <1>4, <1>5 DEF TooLate

-----------------------------------------------------------------------------
\* The page stands still while the server moves on.
LEMMA ServerKeeps ==
    ASSUME SettingsInv, Moves, UNCHANGED <<cached, formVars, zoneVars, sent>>,
           reading' \in {reading, server, Nothing}, left' \subseteq left
    PROVE  SettingsInv'
<1> USE DEF formVars, zoneVars
<1>1. SettingsTypeOK'
  BY OwnCopies, SettingsRecord DEF SettingsInv, SettingsTypeOK, RecordTypeOK, Moves
<1>2. Flying'
  <2>1. \A t \in Savers \ {} : sent'[t] \in {sent[t], Nothing}
    OBVIOUS
  <2>2. \A t \in {} \cap Savers : (sent[t] # Nothing => Honest(t, sent[t]))'
    OBVIOUS
  <2> QED BY <2>1, <2>2, FlyingStays, SettingsRecord
<1>3. (marked \/ Saved("form") => TooLate)'
  <2>1. (marked \/ Saved("form"))' => marked \/ Saved("form")
    BY DEF Saved, Pending
  <2> QED BY <2>1, LateStays
<1> QED BY <1>1, <1>2, <1>3, CopiedStays, FormStays, EditsStay, SettingsRecord DEF SettingsInv

LEMMA StandsStill == ASSUME RecordInv, server' = server PROVE Moves
BY OwnCopies DEF Moves

LEMMA AnswerIs ==
    ASSUME RecordInv, NEW s \in Savers, Pending(s), NEW state \in {"saved", "failed"},
           NEW rec \in Records \cup {Nothing}, Answer(s, state, rec)
    PROVE  /\ sent[s] \in Flights /\ sent' \in [Savers -> Flights \cup {Nothing}]
           /\ sent'[s] \in Flights /\ sent'[s].by = sent[s].by /\ sent'[s].ver = sent[s].ver
           /\ sent'[s].state = state /\ sent'[s].answer = rec
           /\ \A t \in Savers \ {s} : sent'[t] = sent[t]
<1>1. sent \in [Savers -> Flights \cup {Nothing}] /\ sent[s] \in Flights
  BY DEF RecordInv, RecordTypeOK, Pending
<1> DEFINE one == [sent EXCEPT ![s].state = state]
           first == [sent[s] EXCEPT !.state = state]
           new == [first EXCEPT !.answer = rec]
<1>2. first \in Flights /\ first.by = sent[s].by /\ first.ver = sent[s].ver /\ first.state = state
  BY <1>1 DEF Flights
<1>3. new \in Flights /\ new.by = sent[s].by /\ new.ver = sent[s].ver /\ new.state = state /\ new.answer = rec
  <2> HIDE DEF first
  <2> QED BY <1>2 DEF Flights
<1>4. one = [sent EXCEPT ![s] = first]
  OBVIOUS
<1>5. sent' = [one EXCEPT ![s].answer = rec]
  BY DEF Answer
<1>6. sent' = [sent EXCEPT ![s] = new]
  <2> HIDE DEF one, first
  <2>1. one[s] = first
    BY <1>1, <1>4
  <2> QED BY <1>1, <1>4, <1>5, <2>1
<1> HIDE DEF new
<1> QED BY <1>1, <1>3, <1>6, SentTyped

LEMMA FailedKeeps ==
    ASSUME SettingsInv, NEW s \in Savers, Pending(s), Answer(s, "failed", Nothing),
           UNCHANGED <<server, cached, reading, left, formVars, zoneVars>>
    PROVE  SettingsInv'
<1> USE DEF formVars, zoneVars
<1>1. /\ sent[s] \in Flights /\ sent' \in [Savers -> Flights \cup {Nothing}]
      /\ sent'[s] \in Flights /\ sent'[s].by = sent[s].by /\ sent'[s].ver = sent[s].ver
      /\ sent'[s].state = "failed"
      /\ \A t \in Savers \ {s} : sent'[t] = sent[t]
  BY AnswerIs, SettingsRecord
<1>2. Moves
  BY StandsStill, SettingsRecord
<1>3. SettingsTypeOK'
  BY <1>1 DEF SettingsInv, SettingsTypeOK, RecordTypeOK
<1>4. Flying'
  <2>1. (sent[s] # Nothing => Honest(s, sent[s]))'
    BY <1>1 DEF SettingsInv, Flying, Honest
  <2>2. \A t \in Savers \ {s} : sent'[t] \in {sent[t], Nothing}
    BY <1>1
  <2>3. \A t \in {s} \cap Savers : (sent[t] # Nothing => Honest(t, sent[t]))'
    BY <2>1
  <2> QED BY <1>2, <2>2, <2>3, FlyingStays, SettingsRecord
<1>5. FormIsNews'
  <2>1. CASE s = "form"
    BY <1>1, <2>1 DEF SettingsInv, FormIsNews, Pending
  <2>2. CASE s # "form"
    <3>1. sent'["form"] = sent["form"]
      BY <1>1, <2>2, SettingsAssumption
    <3> QED BY <1>2, <3>1, FormStays
  <2> QED BY <2>1, <2>2
<1>6. (marked \/ Saved("form") => TooLate)'
  <2>1. (marked \/ Saved("form"))' => marked \/ Saved("form")
    BY <1>1, SettingsAssumption DEF Saved, Pending
  <2>2. sent'["automatic"] \in {sent["automatic"], Nothing} \/ sent'["automatic"].state # "sent"
    BY <1>1, SettingsAssumption
  <2> QED BY <1>2, <2>1, <2>2, LateStays
<1> QED BY <1>2, <1>3, <1>4, <1>5, <1>6, CopiedStays, EditsStay, SettingsRecord DEF SettingsInv

LEMMA CommitKeeps ==
    ASSUME SettingsInv, NEW s \in Savers, Commit(s), UNCHANGED <<formVars, zoneVars>>
    PROVE  SettingsInv'
<1> USE DEF formVars, zoneVars
<1> DEFINE next == After(sent[s])
<1>1. /\ Pending(s) /\ sent[s].state = "sent" /\ sent[s].ver = server.ver /\ next.ver <= MaxVersion
      /\ server' = next /\ Answer(s, "saved", next) /\ UNCHANGED <<cached, reading, left>>
  BY DEF Commit
<1>2. sent[s] \in Flights /\ server \in Records
  BY <1>1, OwnCopies, SettingsRecord DEF SettingsInv, SettingsTypeOK, RecordTypeOK, Pending
<1>3. /\ next \in Records /\ next.ver >= server.ver /\ (next.ver = server.ver => next = server)
      /\ News(sent[s]) => next.ver > server.ver
  BY <1>1, <1>2, AfterMoves
<1> HIDE DEF next
<1>4. Moves
  BY <1>1, <1>3 DEF Moves
<1>5. /\ sent' \in [Savers -> Flights \cup {Nothing}]
      /\ sent'[s] \in Flights /\ sent'[s].by = sent[s].by /\ sent'[s].ver = sent[s].ver
      /\ sent'[s].state = "saved" /\ sent'[s].answer = next
      /\ \A t \in Savers \ {s} : sent'[t] = sent[t]
  BY <1>1, <1>3, AnswerIs, SettingsRecord
<1>6. SettingsTypeOK'
  BY <1>1, <1>3, <1>5 DEF SettingsInv, SettingsTypeOK, RecordTypeOK
<1>7. server.ver \in Int /\ next.ver \in Int
  BY <1>2, <1>3, RecordVersions
<1>8. Flying'
  <2>1. Honest(s, sent[s])'
    <3>1. sent'[s].by = s /\ sent'[s].ver <= server'.ver
      BY <1>1, <1>3, <1>5, <1>7 DEF SettingsInv, Flying, Honest
    <3>2. Agrees(sent[s].answer)' /\ sent'[s].answer \in Records
      BY <1>1, <1>3, <1>5, <1>7 DEF Agrees
    <3> QED BY <3>1, <3>2 DEF Honest
  <2>2. \A t \in Savers \ {s} : sent'[t] \in {sent[t], Nothing}
    BY <1>5
  <2>3. \A t \in {s} \cap Savers : (sent[t] # Nothing => Honest(t, sent[t]))'
    BY <2>1
  <2> QED BY <1>1, <1>4, <2>2, <2>3, FlyingStays, SettingsRecord
<1>9. FormIsNews'
  <2>1. CASE s = "form"
    BY <1>1, <1>5, <2>1 DEF SettingsInv, FormIsNews, Pending
  <2>2. CASE s # "form"
    <3>1. sent'["form"] = sent["form"]
      BY <1>5, <2>2, SettingsAssumption
    <3> QED BY <1>4, <3>1, FormStays
  <2> QED BY <2>1, <2>2
<1>10. (marked \/ Saved("form") => TooLate)'
  <2>1. CASE s = "form"
    <3>1. server'.ver > server.ver
      BY <1>1, <1>3, <2>1 DEF SettingsInv, FormIsNews
    <3>2. "automatic" \in Savers /\ sent'["automatic"] = sent["automatic"]
      BY <1>5, <2>1, SettingsAssumption
    <3>3. Pending("automatic") => sent["automatic"].ver \in Int /\ sent["automatic"].ver <= server.ver
      BY <3>2, FlightFields DEF SettingsInv, SettingsTypeOK, RecordTypeOK, Flying, Honest, Pending
    <3>4. \A change \in left : change.ver \in Int /\ change.ver <= server.ver
      BY FlightFields DEF SettingsInv, SettingsTypeOK, RecordTypeOK, Flying
    <3> QED BY <1>1, <1>7, <3>1, <3>2, <3>3, <3>4 DEF TooLate, Pending
  <2>2. CASE s # "form"
    <3>1. (marked \/ Saved("form"))' => marked \/ Saved("form")
      BY <1>5, <2>2, SettingsAssumption DEF Saved, Pending
    <3>2. sent'["automatic"] \in {sent["automatic"], Nothing} \/ sent'["automatic"].state # "sent"
      BY <1>5, SettingsAssumption
    <3> QED BY <1>1, <1>4, <3>1, <3>2, LateStays
  <2> QED BY <2>1, <2>2
<1>11. Copied' /\ OnlyEditedSent'
  BY <1>1, <1>4, CopiedStays, EditsStay, SettingsRecord
<1> QED BY <1>6, <1>8, <1>9, <1>10, <1>11 DEF SettingsInv

LEMMA ElsewhereMoves == ASSUME RecordInv, NEW f \in Fields, NEW x \in Values, ElsewhereSaves(f, x) PROVE Moves
<1> DEFINE val == [server.val EXCEPT ![f] = x]
<1>1. server.ver \in 1..MaxVersion /\ server.ver \in Int /\ server.val \in [Fields -> Values]
  BY OwnCopies DEF Records
<1>2. val \in [Fields -> Values]
  BY <1>1
<1>3. server' = [ver |-> server.ver + 1, val |-> val] /\ server.ver < MaxVersion
  BY DEF ElsewhereSaves
<1>4. server.ver + 1 \in 1..MaxVersion
  BY <1>1, <1>3, RecordAssumption
<1> HIDE DEF val
<1> QED BY <1>1, <1>2, <1>3, <1>4 DEF Moves, Records

LEMMA ServerNextKeeps == ASSUME SettingsInv, ServerNext, UNCHANGED <<formVars, zoneVars>> PROVE SettingsInv'
<1>1. ASSUME NEW f \in Fields, NEW x \in Values, ElsewhereSaves(f, x) PROVE SettingsInv'
  BY <1>1, ElsewhereMoves, ServerKeeps, SettingsRecord DEF ElsewhereSaves
<1>2. CASE Read \/ ReadFails
  BY <1>2, StandsStill, ServerKeeps, SettingsRecord DEF Read, ReadFails
<1>3. ASSUME NEW s \in Savers, Commit(s) PROVE SettingsInv'
  BY <1>3, CommitKeeps
<1>4. ASSUME NEW s \in Savers, Refuse(s) \/ AnswerLost(s) PROVE SettingsInv'
  BY <1>4, FailedKeeps DEF Refuse, AnswerLost
<1>5. CASE CommitLeft
  <2>1. PICK change \in left : /\ After(change).ver <= MaxVersion /\ server' = After(change)
                               /\ left' = left \ {change} /\ UNCHANGED <<cached, reading, sent>>
    BY <1>5 DEF CommitLeft
  <2>2. change \in Flights /\ server \in Records
    BY DEF SettingsInv, SettingsTypeOK, RecordTypeOK
  <2>3. Moves
    BY <2>1, <2>2, AfterMoves DEF Moves
  <2> QED BY <2>1, <2>3, ServerKeeps
<1> QED BY <1>1, <1>2, <1>3, <1>4, <1>5 DEF ServerNext

-----------------------------------------------------------------------------
\* The page hears an answer, shows a copy, or is left.
LEMMA PageKeeps ==
    ASSUME SettingsInv, server' = server, reading' \in {reading, Nothing},
           sent' \in [Savers -> Flights \cup {Nothing}],
           \A t \in Savers : sent'[t] \in {sent[t], Nothing},
           left' \subseteq left \cup {sent[t] : t \in {p \in Savers : Pending(p) /\ sent[p].state = "sent"}},
           NEW c, cached' = c, c # Nothing => c \in Records /\ Agrees(c),
           draft' \in [Fields -> Values] \cup {Nothing}, draft' = Nothing <=> c = Nothing,
           dirty' \subseteq Fields, attempted' \in BOOLEAN, listening' \in BOOLEAN, marked' \in BOOLEAN,
           sent'["form"] = Nothing \/ ((attempted => attempted') /\ (marked => marked')),
           marked' => marked \/ Saved("form"),
           OnlyEditedSent'
    PROVE  SettingsInv'
<1>1. Moves
  BY StandsStill, SettingsRecord
<1>2. left' \subseteq Flights
  BY DEF SettingsInv, SettingsTypeOK, RecordTypeOK, Pending
<1>3. SettingsTypeOK'
  BY <1>2, OwnCopies, SettingsRecord DEF SettingsInv, SettingsTypeOK, RecordTypeOK
<1>4. Copied'
  <2>1. PICK r : r = reading'
    OBVIOUS
  <2>2. r # Nothing => r \in Records /\ Agrees(r)
    BY <2>1, OwnCopies, SettingsRecord
  <2> QED BY <1>1, <2>1, <2>2, OwnCopies, CopiesStay, SettingsRecord
<1>5. Flying'
  <2>1. \A t \in Savers \ {} : sent'[t] \in {sent[t], Nothing}
    OBVIOUS
  <2>2. \A t \in {} \cap Savers : (sent[t] # Nothing => Honest(t, sent[t]))'
    OBVIOUS
  <2>3. left' \subseteq left \cup {sent[t] : t \in {p \in Savers : Pending(p)}}
    OBVIOUS
  <2> QED BY <1>1, <2>1, <2>2, <2>3, FlyingStays, SettingsRecord
<1>6. FormIsNews'
  <2>1. sent'["form"] \in {sent["form"], Nothing}
    BY SettingsAssumption
  <2> QED BY <1>1, <2>1, FormStays
<1>7. (marked \/ Saved("form") => TooLate)'
  <2>1. Saved("form")' => Saved("form")
    BY SettingsAssumption DEF Saved, Pending
  <2>2. (marked \/ Saved("form"))' => marked \/ Saved("form")
    BY <2>1
  <2>3. sent'["automatic"] \in {sent["automatic"], Nothing}
    BY SettingsAssumption
  <2> QED BY <1>1, <2>2, <2>3, LateStays
<1> QED BY <1>3, <1>4, <1>5, <1>6, <1>7 DEF SettingsInv

LEMMA HeardIs ==
    ASSUME RecordInv, NEW s \in Savers, Answered(s)
    PROVE  /\ sent' \in [Savers -> Flights \cup {Nothing}]
           /\ \A t \in Savers : sent'[t] \in {sent[t], Nothing}
BY SentTyped DEF Answered

LEMMA ShowsSame ==
    ASSUME SettingsInv
    PROVE  /\ draft \in [Fields -> Values] \cup {Nothing} /\ (draft = Nothing <=> cached = Nothing)
           /\ dirty \subseteq Fields /\ attempted \in BOOLEAN /\ listening \in BOOLEAN /\ marked \in BOOLEAN
           /\ sent \in [Savers -> Flights \cup {Nothing}]
BY DEF SettingsInv, SettingsTypeOK, RecordTypeOK

\* A form whose copy is replaced keeps what the person changed, and no more.
LEMMA ShownIs ==
    ASSUME SettingsInv, NEW rec \in Records, Shown(rec), dirty' = dirty
    PROVE  /\ draft' \in [Fields -> Values] /\ draft' # Nothing /\ cached' = rec /\ cached' # Nothing
           /\ listening' \in BOOLEAN /\ OnlyEditedSent'
<1>1. rec.val \in [Fields -> Values] /\ rec # Nothing
  BY RecordAssumption DEF Records
<1>2. cached' = rec /\ draft' = MergeRefreshedDraft(rec) /\ listening' \in BOOLEAN
  BY ShowsSame DEF Shown
<1>3. draft' \in [Fields -> Values] /\ \A f \in Fields : draft'[f] # rec.val[f] => f \in dirty
  <2>1. CASE draft = Nothing
    BY <1>1, <1>2, <2>1 DEF MergeRefreshedDraft
  <2>2. CASE draft # Nothing
    BY <1>1, <1>2, <2>2, ShowsSame DEF MergeRefreshedDraft
  <2> QED BY <2>1, <2>2
<1> QED BY <1>1, <1>2, <1>3, SettingsAssumption DEF OnlyEditedSent

\* An answer that says saved holds the record as it was saved.
LEMMA AnswerIsCopy ==
    ASSUME RecordInv, NEW s \in Savers, Saved(s)
    PROVE  sent[s].answer \in Records /\ Agrees(sent[s].answer) /\ sent[s].answer # Nothing
<1>1. sent[s].answer \in Records /\ Agrees(sent[s].answer)
  BY DEF RecordInv, Flying, Honest, Saved
<1> QED BY <1>1, RecordAssumption

LEMMA RefreshedKeeps == ASSUME SettingsInv, Refreshed PROVE SettingsInv'
<1>1. /\ reading # Nothing /\ reading' = Nothing /\ Shown(reading)
      /\ UNCHANGED <<server, sent, left, dirty, attempted, marked>>
  BY DEF Refreshed, ReadArrives
<1>2. PICK rec : rec = reading
  OBVIOUS
<1>3. rec \in Records /\ Agrees(rec) /\ rec # Nothing
  BY <1>1, <1>2, OwnCopies, SettingsRecord
<1>4. /\ draft' \in [Fields -> Values] /\ draft' # Nothing /\ cached' = rec
      /\ listening' \in BOOLEAN /\ OnlyEditedSent'
  BY <1>1, <1>2, <1>3, ShownIs
<1> QED BY <1>1, <1>3, <1>4, ShowsSame, PageKeeps

LEMMA HeardShownKeeps ==
    ASSUME SettingsInv, NEW s \in Savers, Saved(s), Answered(s), Shown(sent[s].answer),
           UNCHANGED <<server, reading, left, dirty, attempted, marked>>
    PROVE  SettingsInv'
<1>1. PICK rec : rec = sent[s].answer
  OBVIOUS
<1>2. rec \in Records /\ Agrees(rec) /\ rec # Nothing
  BY <1>1, AnswerIsCopy, SettingsRecord
<1>3. /\ draft' \in [Fields -> Values] /\ draft' # Nothing /\ cached' = rec
      /\ listening' \in BOOLEAN /\ OnlyEditedSent'
  BY <1>1, <1>2, ShownIs
<1> QED BY <1>2, <1>3, ShowsSame, HeardIs, PageKeeps, SettingsRecord

\* An answer that changes nothing in the page.
LEMMA HeardKeeps ==
    ASSUME SettingsInv, NEW s \in Savers, Answered(s),
           UNCHANGED <<server, cached, reading, left, formVars, zoneVars>>
    PROVE  SettingsInv'
<1> USE DEF formVars, zoneVars
<1>1. PICK c : c = cached
  OBVIOUS
<1>2. c # Nothing => c \in Records /\ Agrees(c)
  BY <1>1, OwnCopies, SettingsRecord
<1>3. OnlyEditedSent'
  BY EditsStay
<1> QED BY <1>1, <1>2, <1>3, ShowsSame, HeardIs, PageKeeps, SettingsRecord

LEMMA ChangeKeeps == ASSUME SettingsInv, NEW f \in Fields, NEW x \in Values, Change(f, x) PROVE SettingsInv'
<1>1. /\ draft # Nothing /\ draft' = [draft EXCEPT ![f] = x]
      /\ dirty' = {g \in Fields : draft'[g] # cached.val[g]}
      /\ UNCHANGED <<server, cached, reading, sent, left, attempted, listening, marked>>
  BY DEF Change, recordVars, zoneVars
<1>2. draft \in [Fields -> Values] /\ cached # Nothing /\ dirty \subseteq Fields
  BY <1>1, ShowsSame
<1>3. draft' \in [Fields -> Values] /\ draft' # Nothing /\ dirty' \subseteq Fields
  BY <1>1, <1>2, SettingsAssumption
<1>4. OnlyEditedSent'
  BY <1>1, <1>2 DEF SettingsInv, OnlyEditedSent
<1>5. PICK c : c = cached
  OBVIOUS
<1>6. c # Nothing => c \in Records /\ Agrees(c)
  BY <1>5, OwnCopies, SettingsRecord
<1> QED BY <1>1, <1>2, <1>3, <1>4, <1>5, <1>6, ShowsSame, PageKeeps

LEMMA SubmittedKeeps == ASSUME SettingsInv, Submitted PROVE SettingsInv'
<1>1. "form" \in Savers
  BY SettingsAssumption
<1>2. PICK rec : rec = sent["form"].answer
  OBVIOUS
<1>3. rec \in Records /\ Agrees(rec) /\ rec # Nothing
  BY <1>1, <1>2, AnswerIsCopy, SettingsRecord DEF Submitted
<1>4. /\ cached' = rec /\ draft' = rec.val /\ dirty' = {} /\ listening' = FALSE
      /\ marked' = (marked \/ ByHand) /\ UNCHANGED <<server, reading, left, attempted>>
      /\ Answered("form") /\ Saved("form")
  BY <1>2 DEF Submitted
<1>5. rec.val \in [Fields -> Values] /\ rec.val # Nothing
  BY <1>3, SettingsAssumption DEF Records
<1>6. OnlyEditedSent'
  BY <1>4 DEF OnlyEditedSent
<1>7. marked' \in BOOLEAN /\ listening' \in BOOLEAN
  BY <1>4
<1> QED BY <1>1, <1>3, <1>4, <1>5, <1>6, <1>7, ShowsSame, HeardIs, PageKeeps, SettingsRecord

LEMMA UnmountKeeps == ASSUME SettingsInv, Unmount PROVE SettingsInv'
<1>1. /\ draft # Nothing /\ draft' = cached.val /\ dirty' = {}
      /\ UNCHANGED <<server, cached, reading, sent, left, attempted, listening, marked>>
  BY DEF Unmount, recordVars, zoneVars
<1>2. PICK c : c = cached
  OBVIOUS
<1>3. c \in Records /\ Agrees(c) /\ c # Nothing
  BY <1>1, <1>2, ShowsSame, OwnCopies, SettingsRecord
<1>4. draft' \in [Fields -> Values] /\ draft' # Nothing
  BY <1>1, <1>2, <1>3, SettingsAssumption DEF Records
<1>5. OnlyEditedSent'
  BY <1>1 DEF OnlyEditedSent
<1> QED BY <1>1, <1>2, <1>3, <1>4, <1>5, ShowsSame, PageKeeps

LEMMA ReloadKeeps == ASSUME SettingsInv, Reload PROVE SettingsInv'
<1>1. /\ cached' = Nothing /\ reading' = Nothing /\ sent' = [s \in Savers |-> Nothing]
      /\ left' = left \cup {sent[t] : t \in {p \in Savers : Pending(p) /\ sent[p].state = "sent"}}
      /\ draft' = Nothing /\ dirty' = {} /\ attempted' = FALSE /\ listening' = FALSE
      /\ UNCHANGED <<server, marked>>
  BY DEF Reload, Abandoned
<1>2. sent'["form"] = Nothing
  BY <1>1, SettingsAssumption
<1>3. OnlyEditedSent'
  BY <1>1 DEF OnlyEditedSent
<1>4. attempted' \in BOOLEAN /\ listening' \in BOOLEAN /\ marked' \in BOOLEAN
  BY <1>1, ShowsSame
<1>5. sent' \in [Savers -> Flights \cup {Nothing}] /\ \A t \in Savers : sent'[t] \in {sent[t], Nothing}
  BY <1>1
<1> QED BY <1>1, <1>2, <1>3, <1>4, <1>5, PageKeeps

-----------------------------------------------------------------------------
\* The page sends a change made from its copy.
LEMMA SendKeeps ==
    ASSUME SettingsInv, NEW s \in Savers, NEW patch \in Patches, cached # Nothing, Send(s, cached.ver, patch),
           UNCHANGED <<server, cached, reading, left, draft, dirty, marked>>,
           attempted => attempted', attempted' \in BOOLEAN, listening' \in BOOLEAN,
           s = "form" => /\ attempted \/ marked
                         /\ \E f \in Fields \cap DOMAIN patch : patch[f] # cached.val[f],
           s = "automatic" => ~ marked /\ ~ Pending("form")
    PROVE  SettingsInv'
<1> DEFINE new == [by |-> s, ver |-> cached.ver, patch |-> patch, answer |-> Nothing, state |-> "sent"]
<1>1. cached \in Records /\ Agrees(cached) /\ cached.ver \in 1..MaxVersion /\ server.ver \in Int
  BY OwnCopies, SettingsRecord DEF Records
<1>2. new \in Flights
  BY <1>1 DEF Flights
<1>3. sent' = [sent EXCEPT ![s] = new] /\ ~ Pending(s)
  BY DEF Send
<1>4. new.by = s /\ new.ver = cached.ver /\ new.patch = patch /\ new.state = "sent"
  OBVIOUS
<1> HIDE DEF new
<1>5. /\ sent' \in [Savers -> Flights \cup {Nothing}]
      /\ sent'[s] = new /\ \A t \in Savers \ {s} : sent'[t] = sent[t]
  BY <1>2, <1>3, SentTyped, SettingsRecord
<1>6. Moves
  BY StandsStill, SettingsRecord
<1>7. SettingsTypeOK'
  BY <1>5, ShowsSame DEF SettingsInv, SettingsTypeOK, RecordTypeOK
<1>8. Flying'
  <2>1. Honest(s, sent[s])'
    BY <1>1, <1>4, <1>5 DEF Honest, Agrees
  <2>2. \A t \in Savers \ {s} : sent'[t] \in {sent[t], Nothing}
    BY <1>5
  <2>3. \A t \in {s} \cap Savers : (sent[t] # Nothing => Honest(t, sent[t]))'
    BY <2>1
  <2> QED BY <1>6, <2>2, <2>3, FlyingStays, SettingsRecord
<1>9. FormIsNews'
  <2>1. CASE s = "form"
    <3>1. new.ver = server.ver => \E f \in Fields \cap DOMAIN patch : patch[f] # server.val[f]
      BY <1>1, <1>4, <2>1 DEF Agrees
    <3> QED BY <1>4, <1>5, <2>1, <3>1 DEF FormIsNews, News
  <2>2. CASE s # "form"
    <3>1. sent'["form"] = sent["form"]
      BY <1>5, <2>2, SettingsAssumption
    <3> QED BY <1>6, <3>1, FormStays
  <2> QED BY <2>1, <2>2
<1>10. (marked \/ Saved("form") => TooLate)'
  <2>1. CASE s = "automatic"
    <3>1. sent'["form"] = sent["form"]
      BY <1>5, <2>1, SettingsAssumption
    <3> QED BY <2>1, <3>1 DEF Saved, Pending
  <2>2. CASE s # "automatic"
    <3>1. Saved("form")' => Saved("form")
      BY <1>4, <1>5, SettingsAssumption DEF Saved, Pending
    <3>2. (marked \/ Saved("form"))' => marked \/ Saved("form")
      BY <3>1
    <3>3. sent'["automatic"] \in {sent["automatic"], Nothing}
      BY <1>5, <2>2, SettingsAssumption
    <3> QED BY <1>6, <3>2, <3>3, LateStays
  <2> QED BY <2>1, <2>2
<1> QED BY <1>6, <1>7, <1>8, <1>9, <1>10, CopiedStays, EditsStay, SettingsRecord DEF SettingsInv

LEMMA OneFieldPatch ==
    ASSUME NEW f \in Fields, NEW x \in Values
    PROVE  [g \in {f} |-> x] \in Patches
<1>1. {f} \in SUBSET Fields /\ [g \in {f} |-> x] \in [{f} -> Values]
  OBVIOUS
<1> QED BY <1>1 DEF Patches

LEMMA SubmitKeeps == ASSUME SettingsInv, ~ AutoDue, SubmitSettings PROVE SettingsInv'
<1> USE DEF formVars, zoneVars
<1>1. /\ draft # Nothing /\ draft # cached.val /\ Send("form", cached.ver, ChangedSettings)
      /\ UNCHANGED <<server, cached, reading, left, formVars, zoneVars>>
  BY DEF SubmitSettings
<1>2. draft \in [Fields -> Values] /\ cached # Nothing /\ cached.val \in [Fields -> Values]
  BY <1>1, ShowsSame, OwnCopies, SettingsRecord DEF Records
<1>3. PICK f \in Fields : draft[f] # cached.val[f]
  BY <1>1, <1>2
<1> DEFINE G == {g \in Fields : draft[g] # cached.val[g]}
<1>4. ChangedSettings \in [G -> Values] /\ G \in SUBSET Fields
  BY <1>2 DEF ChangedSettings
<1>5. ChangedSettings \in Patches
  BY <1>4 DEF Patches
<1>6. f \in Fields \cap DOMAIN ChangedSettings /\ ChangedSettings[f] # cached.val[f]
  BY <1>3 DEF ChangedSettings
<1>7. attempted \/ marked
  BY <1>2 DEF AutoDue
<1>8. "form" \in Savers /\ attempted' \in BOOLEAN /\ listening' \in BOOLEAN
  BY <1>1, ShowsSame, SettingsAssumption
<1> QED BY <1>1, <1>2, <1>5, <1>6, <1>7, <1>8, SendKeeps

LEMMA SwitchThemeKeeps == ASSUME SettingsInv, NEW x \in Values, SwitchTheme(x) PROVE SettingsInv'
<1> USE DEF formVars, zoneVars
<1>1. [f \in {"theme"} |-> x] \in Patches
  BY OneFieldPatch, SettingsAssumption
<1>2. "header" \in Savers /\ attempted' \in BOOLEAN /\ listening' \in BOOLEAN
  BY ShowsSame, SettingsAssumption DEF SwitchTheme
<1> QED BY <1>1, <1>2, SendKeeps DEF SwitchTheme

LEMMA AutoDetectKeeps == ASSUME SettingsInv, AutoDetect PROVE SettingsInv'
<1> USE DEF formVars
<1>1. [f \in {"zone"} |-> Detected] \in Patches
  BY OneFieldPatch, SettingsAssumption
<1>2. "automatic" \in Savers /\ attempted' \in BOOLEAN /\ listening' \in BOOLEAN /\ (attempted => attempted')
  BY SettingsAssumption DEF AutoDetect
<1>3. ~ marked /\ ~ Pending("form")
  BY DEF AutoDetect, AutoDue, SettingsInv, FormIsNews
<1> QED BY <1>1, <1>2, <1>3, SendKeeps DEF AutoDetect, AutoDue

LEMMA PageNextKeeps == ASSUME SettingsInv, ~ AutoDue, PageNext PROVE SettingsInv'
<1>1. "form" \in Savers /\ "header" \in Savers /\ "automatic" \in Savers
  BY SettingsAssumption
<1>2. CASE Refreshed
  BY <1>2, RefreshedKeeps
<1>3. ASSUME NEW f \in Fields, NEW x \in Values, Change(f, x) PROVE SettingsInv'
  BY <1>3, ChangeKeeps
<1>4. CASE SubmitSettings
  BY <1>4, SubmitKeeps
<1>5. CASE Submitted
  BY <1>5, SubmittedKeeps
<1>6. CASE NotSubmitted \/ ThemeNotSwitched \/ NotAutoDetected
  BY <1>1, <1>6, HeardKeeps DEF NotSubmitted, ThemeNotSwitched, NotAutoDetected
<1>7. ASSUME NEW x \in Values, SwitchTheme(x) PROVE SettingsInv'
  BY <1>7, SwitchThemeKeeps
<1>8. CASE ThemeSwitched
  BY <1>1, <1>8, HeardShownKeeps DEF ThemeSwitched
<1>9. CASE AutoDetected
  <2>1. CASE listening
    BY <1>1, <1>9, <2>1, HeardShownKeeps DEF AutoDetected
  <2>2. CASE ~ listening
    BY <1>1, <1>9, <2>2, HeardKeeps DEF AutoDetected, formVars, zoneVars
  <2> QED BY <2>1, <2>2
<1>10. CASE Unmount
  BY <1>10, UnmountKeeps
<1>11. CASE Reload
  BY <1>11, ReloadKeeps
<1> QED BY <1>2, <1>3, <1>4, <1>5, <1>6, <1>7, <1>8, <1>9, <1>10, <1>11 DEF PageNext

LEMMA SettingsInitInv == SettingsInit => SettingsInv
<1> SUFFICES ASSUME SettingsInit PROVE SettingsInv
  OBVIOUS
<1> USE DEF SettingsInit, RecordInit, FormInit
<1>1. server \in Records
  BY RecordAssumption DEF Records
<1>2. SettingsTypeOK
  BY <1>1, SettingsAssumption DEF SettingsTypeOK, RecordTypeOK
<1>3. Copied /\ OnlyEditedSent
  BY DEF Copied, OnlyEditedSent
<1>4. Flying /\ FormIsNews /\ ~ Saved("form") /\ ~ marked
  BY SettingsAssumption DEF Flying, FormIsNews, Saved, Pending
<1> QED BY <1>2, <1>3, <1>4 DEF SettingsInv

LEMMA SettingsStep == SettingsInv /\ [SettingsNext]_settingsVars => SettingsInv'
<1> SUFFICES ASSUME SettingsInv, [SettingsNext]_settingsVars PROVE SettingsInv'
  OBVIOUS
<1>1. CASE ServerNext /\ UNCHANGED <<formVars, zoneVars>>
  BY <1>1, ServerNextKeeps
<1>2. CASE AutoDetect
  BY <1>2, AutoDetectKeeps
<1>3. CASE ~ AutoDue /\ PageNext
  BY <1>3, PageNextKeeps
<1>4. CASE UNCHANGED settingsVars
  BY <1>4, StandsStill, ServerKeeps, SettingsRecord DEF settingsVars, recordVars
<1> QED BY <1>1, <1>2, <1>3, <1>4 DEF SettingsNext

LEMMA SettingsInvHolds == SettingsSpec => []SettingsInv
<1>1. SettingsInit => SettingsInv
  BY SettingsInitInv
<1>2. SettingsInv /\ [SettingsNext]_settingsVars => SettingsInv'
  BY SettingsStep
<1> QED BY <1>1, <1>2, PTL DEF SettingsSpec

-----------------------------------------------------------------------------
\* Only the server's yes makes an answer, and only it drops a change that was left.
LEMMA YesIsCommit ==
    ASSUME SettingsInv, SettingsNext, Pending("automatic"), sent'["automatic"] # sent["automatic"],
           sent'["automatic"] # Nothing, sent'["automatic"].state = "saved"
    PROVE  sent["automatic"].state = "sent" /\ sent["automatic"].ver = server.ver
<1>1. "form" \in Savers /\ "header" \in Savers /\ "automatic" \in Savers
  BY SettingsAssumption
<1>2. ~ (\A t \in Savers : sent'[t] \in {sent[t], Nothing})
  BY <1>1
<1>3. ~ UNCHANGED sent
  OBVIOUS
<1>4. ASSUME NEW s \in Savers PROVE ~ Answered(s)
  BY <1>2, HeardIs, SettingsRecord
<1>5. ASSUME NEW s \in Savers, NEW ver, NEW patch, Send(s, ver, patch) PROVE FALSE
  <2>1. s # "automatic" /\ sent' = [sent EXCEPT ![s] = [by |-> s, ver |-> ver, patch |-> patch, answer |-> Nothing, state |-> "sent"]]
    BY <1>5 DEF Send
  <2> QED BY <1>1, <2>1, ShowsSame
<1>6. CASE ServerNext
  <2>1. PICK s \in Savers : Commit(s) \/ Refuse(s) \/ AnswerLost(s)
    BY <1>3, <1>6 DEF ServerNext, ElsewhereSaves, Read, ReadFails, CommitLeft
  <2>2. CASE Refuse(s) \/ AnswerLost(s)
    <3>1. Pending(s) /\ Answer(s, "failed", Nothing)
      BY <2>2 DEF Refuse, AnswerLost
    <3>2. sent'[s].state = "failed" /\ \A t \in Savers \ {s} : sent'[t] = sent[t]
      BY <3>1, AnswerIs, SettingsRecord
    <3> QED BY <1>1, <3>2
  <2>3. CASE Commit(s)
    <3>1. /\ Pending(s) /\ sent[s].state = "sent" /\ sent[s].ver = server.ver
          /\ Answer(s, "saved", After(sent[s])) /\ After(sent[s]).ver <= MaxVersion
      BY <2>3 DEF Commit
    <3>2. sent[s] \in Flights /\ server \in Records
      BY <3>1, OwnCopies, SettingsRecord DEF SettingsInv, SettingsTypeOK, RecordTypeOK, Pending
    <3>3. After(sent[s]) \in Records
      BY <3>1, <3>2, AfterMoves
    <3>4. \A t \in Savers \ {s} : sent'[t] = sent[t]
      BY <3>1, <3>3, AnswerIs, SettingsRecord
    <3> QED BY <1>1, <3>1, <3>4
  <2> QED BY <2>1, <2>2, <2>3
<1>7. ~ AutoDetect
  BY <1>1, <1>5 DEF AutoDetect
<1>8. ~ PageNext
  <2>1. ~ SubmitSettings /\ ~ (\E x \in Values : SwitchTheme(x))
    BY <1>1, <1>5 DEF SubmitSettings, SwitchTheme
  <2>2. /\ ~ Submitted /\ ~ NotSubmitted /\ ~ ThemeSwitched /\ ~ ThemeNotSwitched
        /\ ~ AutoDetected /\ ~ NotAutoDetected
    BY <1>1, <1>4 DEF Submitted, NotSubmitted, ThemeSwitched, ThemeNotSwitched, AutoDetected, NotAutoDetected
  <2>3. ~ Refreshed /\ ~ Unmount /\ ~ (\E f \in Fields, x \in Values : Change(f, x))
    BY <1>3 DEF Refreshed, ReadArrives, Unmount, Change, recordVars
  <2>4. ~ Reload
    BY <1>1 DEF Reload, Abandoned
  <2> QED BY <2>1, <2>2, <2>3, <2>4 DEF PageNext
<1> QED BY <1>6, <1>7, <1>8 DEF SettingsNext

LEMMA DroppedIsCommit ==
    ASSUME SettingsInv, SettingsNext, NEW change \in left \ left'
    PROVE  change.ver = server.ver
<1>1. CASE ServerNext
  BY <1>1 DEF ServerNext, ElsewhereSaves, Read, ReadFails, Commit, Refuse, AnswerLost, CommitLeft
<1>2. ~ AutoDetect
  BY DEF AutoDetect
<1>3. ~ PageNext
  <2>1. /\ ~ SubmitSettings /\ ~ (\E x \in Values : SwitchTheme(x))
        /\ ~ Submitted /\ ~ NotSubmitted /\ ~ ThemeSwitched /\ ~ ThemeNotSwitched
        /\ ~ AutoDetected /\ ~ NotAutoDetected
    BY DEF SubmitSettings, SwitchTheme, Submitted, NotSubmitted, ThemeSwitched, ThemeNotSwitched, AutoDetected, NotAutoDetected
  <2>2. ~ Refreshed /\ ~ Unmount /\ ~ (\E f \in Fields, x \in Values : Change(f, x)) /\ ~ Reload
    BY DEF Refreshed, ReadArrives, Unmount, Change, recordVars, Reload, Abandoned
  <2> QED BY <2>1, <2>2 DEF PageNext
<1> QED BY <1>1, <1>2, <1>3 DEF SettingsNext

LEMMA CommitIsNotLate == ASSUME SettingsInv, SettingsNext, AutomaticCommits PROVE ~ marked
<1> SUFFICES ASSUME marked PROVE FALSE
  OBVIOUS
<1>1. TooLate /\ server.ver \in Int
  BY OwnCopies, SettingsRecord DEF SettingsInv
<1>2. CASE /\ Pending("automatic") /\ sent'["automatic"] # sent["automatic"]
           /\ sent'["automatic"] # Nothing /\ sent'["automatic"].state = "saved"
  BY <1>1, <1>2, YesIsCommit DEF TooLate
<1>3. ASSUME NEW change \in left \ left', change.by = "automatic" PROVE FALSE
  BY <1>1, <1>3, DroppedIsCommit DEF TooLate
<1> QED BY <1>2, <1>3 DEF AutomaticCommits

(***************************************************************************)
(* Every variable of the settings has its type, and the form shows         *)
(* something exactly when the page has a copy to show.                     *)
(***************************************************************************)
THEOREM SettingsTyped == SettingsSpec => []SettingsTypeOK
<1>1. SettingsInv => SettingsTypeOK
  BY DEF SettingsInv
<1> QED BY <1>1, SettingsInvHolds, PTL

(***************************************************************************)
(* OnlyEditedSent: whatever copies reach the form, it differs from the     *)
(* page's copy only in fields the person changed, so a save that the       *)
(* server accepts puts back nothing that others changed.                   *)
(***************************************************************************)
THEOREM FormSendsEdits == SettingsSpec => []OnlyEditedSent
<1>1. SettingsInv => OnlyEditedSent
  BY DEF SettingsInv
<1> QED BY <1>1, SettingsInvHolds, PTL

(***************************************************************************)
(* ChosenZoneKept: no step commits an automatic zone once a zone chosen by *)
(* hand was confirmed.  The confirmed choice was a new version of the      *)
(* record, every automatic change sent before it is of an older one, and   *)
(* none is sent after it, by this page or by the page loaded anew.         *)
(***************************************************************************)
THEOREM ChosenZoneIsKept == SettingsSpec => ChosenZoneKept
<1>1. SettingsInv /\ [SettingsNext]_settingsVars => [AutomaticCommits => ~ marked]_settingsVars
  BY CommitIsNotLate
<1> QED BY <1>1, SettingsInvHolds, PTL DEF ChosenZoneKept, SettingsSpec

-----------------------------------------------------------------------------
(***************************************************************************)
(* The forms that edit a record.                                           *)
(***************************************************************************)

(***************************************************************************)
(* A form that is open differs from the record it was opened with only     *)
(* where its person edited it; a status has nothing else to edit.          *)
(***************************************************************************)
FromBase == editor # Nothing =>
    /\ cached # Nothing
    /\ editor = [base |-> editor.base, draft |-> editor.draft, edited |-> editor.edited]
    /\ editor.base \in Records /\ Agrees(editor.base)
    /\ editor.draft \in [Fields -> Values] /\ editor.edited \subseteq Fields
    /\ IF form = "status" THEN editor.edited = {Own}
       ELSE \A f \in Fields : editor.draft[f] # editor.base.val[f] => f \in editor.edited

Planning == plan # Nothing => form = "details" /\ cached # Nothing /\ plan.date \in Values

Senders == \A s \in Savers : Pending(s) => s = "editor" \/ (s = "planner" /\ form = "details")

\* A save that will be taken changes only what was edited.
OwnEdits ==
    form \in Careful /\ Pending("editor") /\ sent["editor"].state = "sent" /\ sent["editor"].ver = server.ver =>
        \A f \in DOMAIN sent["editor"].patch :
            sent["editor"].patch[f] # server.val[f] => f \in claimed["editor"]

EditingInv ==
    /\ RecordInv /\ left = {}
    /\ form \in Forms /\ claimed \in [Savers -> SUBSET Fields] /\ replaced \subseteq Fields
    /\ FromBase /\ Planning /\ Senders /\ OwnEdits
    /\ form \in Careful => StaleWritesConflict

LEMMA EditingRecord == ASSUME EditingInv PROVE RecordInv
BY DEF EditingInv

LEMMA FromBaseStays ==
    ASSUME EditingInv, Moves, editor' = editor, form' = form, cached # Nothing => cached' # Nothing
    PROVE  FromBase'
<1> SUFFICES ASSUME editor # Nothing PROVE FromBase'
  BY DEF FromBase
<1>1. server \in Records /\ editor.base \in Records /\ Agrees(editor.base)
  BY EditingRecord, OwnCopies DEF EditingInv, FromBase
<1>2. PICK rec \in Records : rec = editor.base
  BY <1>1
<1>3. Agrees(rec)'
  BY <1>1, <1>2, CopyStays
<1>4. Agrees(editor.base)'
  BY <1>2, <1>3 DEF Agrees
<1> QED BY <1>4 DEF EditingInv, FromBase

LEMMA OwnEditsStay ==
    ASSUME EditingInv, Moves, form' = form, claimed' = claimed,
           sent'["editor"] \in {sent["editor"], Nothing} \/ sent'["editor"].state # "sent"
    PROVE  OwnEdits'
<1> SUFFICES ASSUME OwnEdits' = FALSE, (Pending("editor") /\ sent["editor"].state = "sent")' PROVE FALSE
  BY DEF OwnEdits
<1>1. "editor" \in Savers
  BY EditorsAssumption
<1>2. sent'["editor"] = sent["editor"] /\ Pending("editor")
  BY DEF Pending
<1>3. sent["editor"] \in Flights /\ sent["editor"].ver <= server.ver
  BY <1>1, <1>2 DEF EditingInv, RecordInv, RecordTypeOK, Flying, Honest, Pending
<1>4. sent["editor"].ver \in Int /\ server.ver \in Int /\ server'.ver \in Int
  BY <1>3, EditingRecord, OwnCopies, FlightFields, RecordVersions DEF Moves
<1>5. sent["editor"].ver = server'.ver => server' = server
  BY <1>3, <1>4 DEF Moves
<1> QED BY <1>2, <1>5 DEF EditingInv, OwnEdits, Pending

(***************************************************************************)
(* The server, and other writers, under a form that stands still.          *)
(***************************************************************************)
LEMMA StandingKeeps ==
    ASSUME EditingInv, Moves, UNCHANGED <<cached, sent, left, editorVars>>, reading' \in {reading, server, Nothing}
    PROVE  EditingInv'
<1> USE DEF editorVars
<1>1. RecordTypeOK'
  BY EditingRecord, OwnCopies DEF RecordInv, RecordTypeOK, Moves
<1>2. Flying'
  <2>1. \A t \in Savers \ {} : sent'[t] \in {sent[t], Nothing}
    OBVIOUS
  <2>2. \A t \in {} \cap Savers : (sent[t] # Nothing => Honest(t, sent[t]))'
    OBVIOUS
  <2> QED BY <2>1, <2>2, EditingRecord, FlyingStays
<1>3. RecordInv'
  BY <1>1, <1>2, EditingRecord, CopiedStays DEF RecordInv
<1> QED BY <1>3, FromBaseStays, OwnEditsStay
        DEF EditingInv, Planning, Senders, Pending, StaleWritesConflict

\* A form is opened, filled in or closed.
LEMMA FormKeeps ==
    ASSUME EditingInv, UNCHANGED <<recordVars, form, claimed, replaced>>, FromBase', Planning'
    PROVE  EditingInv'
<1> USE DEF recordVars
<1>1. Moves
  BY EditingRecord, StandsStill
<1>2. RecordInv'
  BY DEF EditingInv, RecordInv, RecordTypeOK, Copied, Flying, Agrees, Honest, Pending
<1> QED BY <1>1, <1>2, OwnEditsStay DEF EditingInv, Senders, Pending, StaleWritesConflict

\* An answer is heard, or a copy arrives.
LEMMA HearingKeeps ==
    ASSUME EditingInv, \A t \in Savers : sent'[t] \in {sent[t], Nothing},
           sent' \in [Savers -> Flights \cup {Nothing}],
           NEW c, cached' = c, (c \in Records /\ Agrees(c)) \/ c = cached,
           reading' \in {reading, Nothing}, editor' \in {editor, Nothing}, plan' \in {plan, Nothing},
           UNCHANGED <<server, left, form, claimed, replaced>>
    PROVE  EditingInv'
<1>1. Moves
  BY EditingRecord, StandsStill
<1>2. (c # Nothing => c \in Records /\ Agrees(c)) /\ (cached # Nothing => c # Nothing)
  BY EditingRecord, OwnCopies, RecordAssumption
<1>3. RecordTypeOK'
  BY <1>2 DEF EditingInv, RecordInv, RecordTypeOK
<1>4. Copied'
  <2>1. PICK r : r = reading'
    OBVIOUS
  <2>2. server \in Records /\ (r # Nothing => r \in Records /\ Agrees(r))
    BY <2>1, EditingRecord, OwnCopies
  <2> QED BY <1>1, <1>2, <2>1, <2>2, CopiesStay
<1>5. Flying'
  <2>1. \A t \in Savers \ {} : sent'[t] \in {sent[t], Nothing}
    OBVIOUS
  <2>2. \A t \in {} \cap Savers : (sent[t] # Nothing => Honest(t, sent[t]))'
    OBVIOUS
  <2> QED BY <1>1, <2>1, <2>2, EditingRecord, FlyingStays
<1>6. FromBase' /\ Planning'
  <2>1. CASE editor' = Nothing
    BY <1>2, <2>1 DEF FromBase, Planning, EditingInv
  <2>2. CASE editor' = editor
    BY <1>1, <1>2, <2>2, FromBaseStays DEF Planning, EditingInv
  <2> QED BY <2>1, <2>2
<1>7. OwnEdits' /\ Senders'
  BY <1>1, OwnEditsStay, EditorsAssumption DEF EditingInv, Senders, Pending
<1> QED BY <1>3, <1>4, <1>5, <1>6, <1>7 DEF EditingInv, RecordInv, StaleWritesConflict

LEMMA AnsweredIs ==
    ASSUME EditingInv, NEW s \in Savers, Pending(s), NEW state \in {"saved", "failed"},
           NEW rec \in Records \cup {Nothing}, Answer(s, state, rec), Moves,
           server' \in Records, UNCHANGED <<cached, reading, left, form>>,
           state = "saved" => rec = server'
    PROVE  /\ RecordInv' /\ Senders'
           /\ sent'["editor"] = sent["editor"] \/ sent'["editor"].state # "sent"
<1>1. /\ sent[s] \in Flights /\ sent' \in [Savers -> Flights \cup {Nothing}]
      /\ sent'[s] \in Flights /\ sent'[s].by = sent[s].by /\ sent'[s].ver = sent[s].ver
      /\ sent'[s].state = state /\ sent'[s].answer = rec
      /\ \A t \in Savers \ {s} : sent'[t] = sent[t]
  BY EditingRecord, AnswerIs
<1>2. RecordTypeOK'
  BY <1>1 DEF EditingInv, RecordInv, RecordTypeOK
<1>3. Honest(s, sent[s])'
  <2>1. sent'[s].by = s /\ sent'[s].ver <= server'.ver
    <3>1. sent[s].by = s /\ sent[s].ver <= server.ver
      BY DEF EditingInv, RecordInv, Flying, Honest
    <3>2. sent[s].ver \in Int /\ server.ver \in Int /\ server'.ver \in Int /\ server'.ver >= server.ver
      BY <1>1, EditingRecord, OwnCopies, RecordVersions, FlightFields DEF Moves
    <3> QED BY <1>1, <3>1, <3>2
  <2>2. state = "saved" => sent'[s].answer \in Records /\ Agrees(sent[s].answer)'
    BY <1>1, RecordVersions DEF Agrees
  <2> QED BY <1>1, <2>1, <2>2 DEF Honest
<1>4. Flying'
  <2>1. \A t \in Savers \ {s} : sent'[t] \in {sent[t], Nothing}
    BY <1>1
  <2>2. \A t \in {s} \cap Savers : (sent[t] # Nothing => Honest(t, sent[t]))'
    BY <1>3
  <2> QED BY <2>1, <2>2, EditingRecord, FlyingStays
<1>5. Copied'
  BY EditingRecord, CopiedStays
<1>6. Senders'
  BY <1>1 DEF EditingInv, Senders, Pending
<1> QED BY <1>1, <1>2, <1>4, <1>5, <1>6, EditorsAssumption DEF RecordInv

LEMMA RefusedEditKeeps ==
    ASSUME EditingInv, NEW s \in Savers, Refuse(s) \/ AnswerLost(s), UNCHANGED editorVars
    PROVE  EditingInv'
<1> USE DEF editorVars
<1>1. Pending(s) /\ Answer(s, "failed", Nothing) /\ UNCHANGED <<server, cached, reading, left>>
  BY DEF Refuse, AnswerLost
<1>2. Moves /\ server \in Records
  BY <1>1, EditingRecord, StandsStill, OwnCopies
<1>3. RecordInv' /\ Senders' /\ (sent'["editor"] = sent["editor"] \/ sent'["editor"].state # "sent")
  BY <1>1, <1>2, AnsweredIs
<1> QED BY <1>1, <1>2, <1>3, FromBaseStays, OwnEditsStay DEF EditingInv, Planning, StaleWritesConflict

LEMMA CommittedKeeps == ASSUME EditingInv, NEW s \in Savers, Committed(s) PROVE EditingInv'
<1> DEFINE next == After(sent[s])
<1>1. /\ Pending(s) /\ sent[s].state = "sent" /\ sent[s].ver = server.ver /\ next.ver <= MaxVersion
      /\ server' = next /\ Answer(s, "saved", next) /\ UNCHANGED <<cached, reading, left>>
      /\ replaced' = replaced \cup Unasked(s) /\ UNCHANGED <<form, editor, plan, claimed>>
  BY DEF Committed, Commit
<1>2. sent[s] \in Flights /\ server \in Records
  BY <1>1, EditingRecord, OwnCopies DEF RecordInv, RecordTypeOK, Pending
<1>3. next \in Records /\ next.ver >= server.ver /\ (next.ver = server.ver => next = server)
  BY <1>1, <1>2, AfterMoves
<1> HIDE DEF next
<1>4. Moves
  BY <1>1, <1>3 DEF Moves
<1>5. RecordInv' /\ Senders' /\ (sent'["editor"] = sent["editor"] \/ sent'["editor"].state # "sent")
  BY <1>1, <1>3, <1>4, AnsweredIs
<1>6. Unasked(s) \subseteq Fields
  <2>1. PICK F \in SUBSET Fields : sent[s].patch \in [F -> Values]
    BY <1>2, FlightFields DEF Patches
  <2> QED BY <2>1 DEF Unasked
<1>7. ASSUME form \in Careful PROVE Unasked(s) = {}
  <2>1. s = "editor"
    BY <1>1, <1>7 DEF EditingInv, Senders, Careful
  <2> QED BY <1>1, <1>7, <2>1 DEF EditingInv, OwnEdits, Unasked
<1> QED BY <1>1, <1>4, <1>5, <1>6, <1>7, FromBaseStays, OwnEditsStay DEF EditingInv, Planning, StaleWritesConflict

(***************************************************************************)
(* Sending.                                                                *)
(***************************************************************************)
LEMMA SendingKeeps ==
    ASSUME EditingInv, NEW s \in Savers, NEW patch \in Patches, NEW ver \in 1..MaxVersion, ver <= server.ver,
           Send(s, ver, patch), s = "editor" \/ (s = "planner" /\ form = "details"),
           NEW edited \in SUBSET Fields, claimed' = [claimed EXCEPT ![s] = edited],
           s = "editor" /\ form \in Careful /\ ver = server.ver =>
               \A f \in DOMAIN patch : patch[f] # server.val[f] => f \in edited,
           UNCHANGED <<server, cached, reading, left, form, editor, plan, replaced>>
    PROVE  EditingInv'
<1> DEFINE new == [by |-> s, ver |-> ver, patch |-> patch, answer |-> Nothing, state |-> "sent"]
<1>1. new \in Flights
  BY DEF Flights
<1>2. sent' = [sent EXCEPT ![s] = new] /\ ~ Pending(s)
  BY DEF Send
<1>3. new.by = s /\ new.ver = ver /\ new.patch = patch /\ new.state = "sent"
  OBVIOUS
<1> HIDE DEF new
<1>4. /\ sent' \in [Savers -> Flights \cup {Nothing}]
      /\ sent'[s] = new /\ \A t \in Savers \ {s} : sent'[t] = sent[t]
  BY <1>1, <1>2, EditingRecord, SentTyped
<1>5. Moves
  BY EditingRecord, StandsStill
<1>6. RecordTypeOK'
  BY <1>4 DEF EditingInv, RecordInv, RecordTypeOK
<1>7. Flying'
  <2>1. \A t \in Savers \ {s} : sent'[t] \in {sent[t], Nothing}
    BY <1>4
  <2>2. \A t \in {s} \cap Savers : (sent[t] # Nothing => Honest(t, sent[t]))'
    BY <1>3, <1>4 DEF Honest
  <2> QED BY <1>5, <2>1, <2>2, EditingRecord, FlyingStays
<1>8. Copied'
  BY <1>5, EditingRecord, CopiedStays
<1>9. Senders'
  BY <1>4 DEF EditingInv, Senders, Pending
<1>10. claimed' \in [Savers -> SUBSET Fields]
  BY DEF EditingInv
<1>11. OwnEdits'
  <2>1. CASE s = "editor"
    <3>1. claimed'["editor"] = edited
      BY <2>1 DEF EditingInv
    <3> QED BY <1>3, <1>4, <2>1, <3>1 DEF OwnEdits
  <2>2. CASE s = "planner" /\ form = "details"
    BY <2>2 DEF OwnEdits, Careful
  <2> QED BY <2>1, <2>2
<1>12. FromBase'
  BY <1>5, FromBaseStays
<1> QED BY <1>6, <1>7, <1>8, <1>9, <1>10, <1>11, <1>12 DEF EditingInv, RecordInv, Planning, StaleWritesConflict

LEMMA CachedVersion == ASSUME EditingInv, NEW rec \in Records, Agrees(rec) PROVE rec.ver \in 1..MaxVersion /\ rec.ver <= server.ver
BY DEF Agrees, Records

LEMMA SaveFormKeeps == ASSUME EditingInv, SaveForm, form \in KnownForms PROVE EditingInv'
<1> DEFINE S == FieldsShown(form)
           patch == [f \in S |-> editor.draft[f]]
<1>1. /\ editor # Nothing /\ Send("editor", VersionSent, patch)
      /\ claimed' = [claimed EXCEPT !["editor"] = editor.edited]
      /\ UNCHANGED <<server, cached, reading, left, form, editor, plan, replaced>>
  BY DEF SaveForm
<1>2. /\ cached \in Records /\ Agrees(cached) /\ editor.base \in Records /\ Agrees(editor.base)
      /\ editor.draft \in [Fields -> Values] /\ editor.edited \in SUBSET Fields
      /\ IF form = "status" THEN editor.edited = {Own}
         ELSE \A f \in Fields : editor.draft[f] # editor.base.val[f] => f \in editor.edited
  BY <1>1, EditingRecord, OwnCopies DEF EditingInv, FromBase
<1>3. VersionSent \in 1..MaxVersion /\ VersionSent <= server.ver
  BY <1>2, CachedVersion DEF VersionSent
<1>4. S \subseteq Fields
  BY EditorsAssumption DEF FieldsShown
<1>5. patch \in [S -> Values]
  BY <1>2, <1>4
<1>6. patch \in Patches
  BY <1>4, <1>5 DEF Patches
<1>7. ASSUME form \in Careful, VersionSent = server.ver, NEW f \in DOMAIN patch, patch[f] # server.val[f]
      PROVE  f \in editor.edited
  <2>1. f \in S /\ f \in Fields /\ editor.draft[f] # server.val[f]
    BY <1>4, <1>7
  <2>2. CASE form = "status"
    BY <1>2, <2>1, <2>2 DEF FieldsShown
  <2>3. CASE form \in {"schedule", "move"}
    <3>1. editor.base = server
      BY <1>2, <1>7, <2>3 DEF VersionSent, Agrees
    <3> QED BY <1>2, <2>1, <2>3, <3>1
  <2> QED BY <1>7, <2>2, <2>3 DEF Careful
<1> HIDE DEF patch
<1>8. "editor" \in Savers
  BY EditorsAssumption
<1> QED BY <1>1, <1>2, <1>3, <1>6, <1>7, <1>8, SendingKeeps

LEMMA SavePlanKeeps == ASSUME EditingInv, SavePlan PROVE EditingInv'
<1> DEFINE patch == [f \in {Planned} |-> plan.date]
           edited == IF plan.edited THEN {Planned} ELSE {}
<1>1. /\ plan # Nothing /\ Send("planner", cached.ver, patch) /\ claimed' = [claimed EXCEPT !["planner"] = edited]
      /\ UNCHANGED <<server, cached, reading, left, form, editor, plan, replaced>>
  BY DEF SavePlan
<1>2. form = "details" /\ plan.date \in Values /\ cached \in Records /\ Agrees(cached)
  BY <1>1, EditingRecord, OwnCopies DEF EditingInv, Planning
<1>3. cached.ver \in 1..MaxVersion /\ cached.ver <= server.ver
  BY <1>2, CachedVersion
<1>4. Planned \in Fields /\ "planner" \in Savers
  BY EditorsAssumption
<1>5. patch \in Patches
  <2>1. patch \in [{Planned} -> Values] /\ {Planned} \in SUBSET Fields
    BY <1>2, <1>4
  <2> QED BY <2>1 DEF Patches
<1>6. edited \in SUBSET Fields
  BY <1>4
<1>7. "planner" # "editor"
  OBVIOUS
<1> HIDE DEF patch, edited
<1> QED BY <1>1, <1>2, <1>3, <1>4, <1>5, <1>6, <1>7, SendingKeeps

(***************************************************************************)
(* Every step.                                                             *)
(***************************************************************************)
LEMMA BeginKeeps == ASSUME EditingInv, Begin, form # "status" PROVE EditingInv'
<1>1. cached \in Records /\ Agrees(cached) /\ editor' = Started /\ cached # Nothing
      /\ UNCHANGED <<recordVars, form, plan, claimed, replaced>>
  BY EditingRecord, OwnCopies DEF Begin
<1>2. FromBase'
  BY <1>1 DEF FromBase, Started, Records, Agrees, recordVars
<1> QED BY <1>1, <1>2, FormKeeps DEF EditingInv, Planning, recordVars

LEMMA OnDragEndKeeps == ASSUME EditingInv, NEW x \in Values, OnDragEnd(x) PROVE EditingInv'
<1> DEFINE draft0 == [cached.val EXCEPT ![Own] = x]
<1>1. /\ cached \in Records /\ Agrees(cached) /\ cached # Nothing /\ form = "move"
      /\ UNCHANGED <<recordVars, form, plan, claimed, replaced>>
  BY EditingRecord, OwnCopies DEF OnDragEnd, Targets
<1>2. editor' = [base |-> cached, draft |-> draft0, edited |-> {Own}]
  BY DEF OnDragEnd, Started
<1>3. draft0 \in [Fields -> Values] /\ \A f \in Fields : draft0[f] # cached.val[f] => f \in {Own}
  BY <1>1, EditorsAssumption DEF Records
<1> HIDE DEF draft0
<1>4. FromBase'
  BY <1>1, <1>2, <1>3, EditorsAssumption DEF FromBase, Agrees, recordVars
<1> QED BY <1>1, <1>4, FormKeeps DEF EditingInv, Planning, recordVars

LEMMA SelectStatusKeeps == ASSUME EditingInv, NEW x \in Values, SelectStatus(x) PROVE EditingInv'
<1> DEFINE draft0 == [cached.val EXCEPT ![Own] = x]
<1>1. /\ cached \in Records /\ Agrees(cached) /\ cached # Nothing /\ form = "status"
      /\ editor' = [base |-> cached, draft |-> draft0, edited |-> {Own}]
      /\ UNCHANGED <<recordVars, form, plan, claimed, replaced>>
  BY EditingRecord, OwnCopies DEF SelectStatus, Targets
<1>2. draft0 \in [Fields -> Values]
  BY <1>1, EditorsAssumption DEF Records
<1> HIDE DEF draft0
<1>3. FromBase'
  BY <1>1, <1>2, EditorsAssumption DEF FromBase, Agrees, recordVars
<1> QED BY <1>1, <1>3, FormKeeps DEF EditingInv, Planning, recordVars

LEMMA TypeKeeps ==
    ASSUME EditingInv, NEW f \in Fields, NEW x \in Values, Type(f, x), form # "status"
    PROVE  EditingInv'
<1> DEFINE draft0 == [editor.draft EXCEPT ![f] = x]
           edited == editor.edited \cup {f}
<1>1. /\ editor # Nothing /\ editor' = [editor EXCEPT !.draft[f] = x, !.edited = @ \cup {f}]
      /\ UNCHANGED <<recordVars, form, plan, claimed, replaced>>
  BY DEF Type
<1>2. /\ cached # Nothing /\ editor.base \in Records /\ Agrees(editor.base)
      /\ editor.draft \in [Fields -> Values] /\ editor.edited \subseteq Fields
      /\ \A g \in Fields : editor.draft[g] # editor.base.val[g] => g \in editor.edited
  BY <1>1 DEF EditingInv, FromBase
<1>3. PICK b, d, e : editor = [base |-> b, draft |-> d, edited |-> e]
  BY <1>1 DEF EditingInv, FromBase
<1>4. editor' = [base |-> editor.base, draft |-> draft0, edited |-> edited]
  BY <1>1, <1>3
<1>5. draft0 \in [Fields -> Values] /\ edited \subseteq Fields
      /\ \A g \in Fields : draft0[g] # editor.base.val[g] => g \in edited
  BY <1>2
<1> HIDE DEF draft0, edited
<1>6. FromBase'
  BY <1>1, <1>2, <1>4, <1>5 DEF FromBase, Agrees, recordVars
<1> QED BY <1>1, <1>6, FormKeeps DEF EditingInv, Planning, recordVars

LEMMA OpenDetailsKeeps == ASSUME EditingInv, OpenDetails PROVE EditingInv'
<1>1. /\ cached \in Records /\ Agrees(cached) /\ cached # Nothing /\ form = "details"
      /\ editor' = Started /\ plan' = [date |-> cached.val[Planned], edited |-> FALSE]
      /\ UNCHANGED <<recordVars, form, claimed, replaced>>
  BY EditingRecord, OwnCopies DEF OpenDetails
<1>2. FromBase'
  BY <1>1 DEF FromBase, Started, Records, Agrees, recordVars
<1>3. Planning'
  BY <1>1, EditorsAssumption DEF Planning, Records, recordVars
<1> QED BY <1>1, <1>2, <1>3, FormKeeps

LEMMA PlanKeeps == ASSUME EditingInv, NEW x \in Values, Plan(x) PROVE EditingInv'
<1>1. /\ plan # Nothing /\ plan' = [date |-> x, edited |-> TRUE]
      /\ UNCHANGED <<recordVars, form, editor, claimed, replaced>>
  BY DEF Plan
<1>2. FromBase'
  BY <1>1, EditingRecord, StandsStill, FromBaseStays DEF recordVars
<1>3. Planning'
  BY <1>1 DEF EditingInv, Planning, recordVars
<1> QED BY <1>1, <1>2, <1>3, FormKeeps

LEMMA CloseEditorKeeps == ASSUME EditingInv, CloseEditor PROVE EditingInv'
<1>1. editor' = Nothing /\ plan' = Nothing /\ UNCHANGED <<recordVars, form, claimed, replaced>>
  BY DEF CloseEditor
<1> QED BY <1>1, FormKeeps DEF FromBase, Planning

LEMMA EditorSavedKeeps == ASSUME EditingInv, EditorSaved PROVE EditingInv'
<1>1. /\ Saved("editor") /\ Answered("editor") /\ cached' \in {cached, sent["editor"].answer}
      /\ reading' \in {reading, Nothing} /\ editor' = Nothing /\ plan' = Nothing
      /\ UNCHANGED <<server, left, form, claimed, replaced>>
  BY DEF EditorSaved
<1>2. PICK c : cached' = c
  OBVIOUS
<1>3. (c \in Records /\ Agrees(c)) \/ c = cached
  BY <1>1, <1>2, EditorsAssumption, EditingRecord, AnswerIsCopy
<1>4. sent' \in [Savers -> Flights \cup {Nothing}] /\ \A t \in Savers : sent'[t] \in {sent[t], Nothing}
  BY <1>1, EditorsAssumption, EditingRecord, HeardIs
<1> QED BY <1>1, <1>2, <1>3, <1>4, HearingKeeps

LEMMA PlanHeardKeeps == ASSUME EditingInv, PlanHeard PROVE EditingInv'
<1>1. /\ Saved("planner") /\ Answered("planner") /\ cached' = sent["planner"].answer
      /\ reading' = Nothing /\ UNCHANGED <<server, left, form, editor, plan, claimed, replaced>>
  BY DEF PlanHeard, editorVars
<1>2. PICK c : cached' = c
  OBVIOUS
<1>3. c \in Records /\ Agrees(c)
  BY <1>1, <1>2, EditorsAssumption, EditingRecord, AnswerIsCopy
<1>4. sent' \in [Savers -> Flights \cup {Nothing}] /\ \A t \in Savers : sent'[t] \in {sent[t], Nothing}
  BY <1>1, EditorsAssumption, EditingRecord, HeardIs
<1> QED BY <1>1, <1>2, <1>3, <1>4, HearingKeeps

LEMMA RefusalHeardKeeps ==
    ASSUME EditingInv, NEW s \in Savers, Answered(s), reading' \in {Nothing, reading},
           UNCHANGED <<server, cached, left, editorVars>>
    PROVE  EditingInv'
<1>1. UNCHANGED <<server, left, form, editor, plan, claimed, replaced>>
  BY DEF editorVars
<1>2. PICK c : cached' = c /\ c = cached
  OBVIOUS
<1>3. sent' \in [Savers -> Flights \cup {Nothing}] /\ \A t \in Savers : sent'[t] \in {sent[t], Nothing}
  BY EditingRecord, HeardIs
<1> QED BY <1>1, <1>2, <1>3, HearingKeeps

LEMMA ArrivesKeeps == ASSUME EditingInv, Arrives PROVE EditingInv'
<1>1. /\ reading # Nothing /\ cached' = reading /\ reading' = Nothing
      /\ UNCHANGED <<server, sent, left, form, editor, plan, claimed, replaced>>
  BY DEF Arrives, ReadArrives, editorVars
<1>2. PICK c : cached' = c
  OBVIOUS
<1>3. c \in Records /\ Agrees(c)
  BY <1>1, <1>2, EditingRecord, OwnCopies
<1>4. sent' \in [Savers -> Flights \cup {Nothing}] /\ \A t \in Savers : sent'[t] \in {sent[t], Nothing}
  BY <1>1 DEF EditingInv, RecordInv, RecordTypeOK
<1> QED BY <1>1, <1>2, <1>3, <1>4, HearingKeeps

LEMMA EditingInitInv == EditingInit => EditingInv
<1> SUFFICES ASSUME EditingInit PROVE EditingInv
  OBVIOUS
<1> USE DEF EditingInit, RecordInit, EditorInit
<1>1. server \in Records
  BY RecordAssumption DEF Records
<1>2. RecordTypeOK
  BY <1>1 DEF RecordTypeOK
<1>3. RecordInv
  BY <1>2 DEF RecordInv, Copied, Flying, Pending
<1>4. FromBase /\ Planning /\ Senders /\ OwnEdits
  BY EditorsAssumption DEF FromBase, Planning, Senders, OwnEdits, Pending
<1> QED BY <1>3, <1>4 DEF EditingInv, StaleWritesConflict

LEMMA EditingStep == EditingInv /\ [EditingNext]_editingVars => EditingInv'
<1> SUFFICES ASSUME EditingInv, [EditingNext]_editingVars PROVE EditingInv'
  OBVIOUS
<1>1. ASSUME NEW f \in Fields, NEW x \in Values, ElsewhereSaves(f, x), UNCHANGED editorVars PROVE EditingInv'
  BY <1>1, EditingRecord, ElsewhereMoves, StandingKeeps DEF ElsewhereSaves
<1>2. CASE Read /\ UNCHANGED editorVars
  BY <1>2, EditingRecord, StandsStill, StandingKeeps DEF Read
<1>3. ASSUME NEW s \in Savers, Committed(s) PROVE EditingInv'
  BY <1>3, CommittedKeeps
<1>4. ASSUME NEW s \in Savers, Refuse(s) \/ AnswerLost(s), UNCHANGED editorVars PROVE EditingInv'
  BY <1>4, RefusedEditKeeps
<1>5. CASE Arrives
  BY <1>5, ArrivesKeeps
<1>6. CASE StartEdit \/ EditNote \/ BeginMove
  BY <1>6, BeginKeeps DEF StartEdit, EditNote, BeginMove
<1>7. CASE OpenDetails
  BY <1>7, OpenDetailsKeeps
<1>8. CASE CloseForm \/ CancelNote \/ Unchoose \/ CancelMove \/ LeaveDetails
  BY <1>8, CloseEditorKeeps DEF CloseForm, CancelNote, Unchoose, CancelMove, LeaveDetails
<1>9. ASSUME NEW f \in Fields, NEW x \in Values, EnterSchedule(f, x) \/ EnterDetail(f, x) PROVE EditingInv'
  BY <1>9, TypeKeeps DEF EnterSchedule, EnterDetail
<1>10. ASSUME NEW x \in Values, EnterNote(x) \/ ChooseTarget(x) PROVE EditingInv'
  BY <1>10, TypeKeeps, EditorsAssumption DEF EnterNote, ChooseTarget
<1>11. ASSUME NEW x \in Values, SelectStatus(x) \/ OnDragEnd(x) PROVE EditingInv'
  BY <1>11, SelectStatusKeeps, OnDragEndKeeps
<1>12. CASE SaveSchedule \/ SaveNote \/ SaveStatus \/ ConfirmMove \/ SaveDetails
  BY <1>12, SaveFormKeeps, EditorsAssumption
     DEF EditingInv, SaveSchedule, SaveNote, SaveStatus, ConfirmMove, SaveDetails
<1>13. CASE EditorSaved
  BY <1>13, EditorSavedKeeps
<1>14. CASE EditorRefused
  BY <1>14, RefusalHeardKeeps, EditorsAssumption DEF EditorRefused
<1>15. ASSUME NEW x \in Values, Plan(x) PROVE EditingInv'
  BY <1>15, PlanKeeps
<1>16. CASE SavePlan
  BY <1>16, SavePlanKeeps
<1>17. CASE PlanHeard
  BY <1>17, PlanHeardKeeps
<1>18. CASE PlanRefused
  BY <1>18, RefusalHeardKeeps, EditorsAssumption DEF PlanRefused
<1>19. CASE UNCHANGED editingVars
  BY <1>19, EditingRecord, StandsStill, StandingKeeps DEF editingVars, recordVars
<1> QED
  <2> SUFFICES ASSUME EditingNext PROVE EditingInv'
    BY <1>19
  <2> QED BY <1>1, <1>2, <1>3, <1>4, <1>5, <1>6, <1>7, <1>8, <1>9, <1>10, <1>11, <1>12, <1>13, <1>14, <1>15,
             <1>16, <1>17, <1>18 DEF EditingNext

LEMMA EditingInductive == EditingSpec => []EditingInv
<1> QED BY EditingInitInv, EditingStep, PTL DEF EditingSpec

(***************************************************************************)
(* EditingTypeOK: the forms and their record keep their types, whatever    *)
(* forms, fields, values and senders there are.                            *)
(***************************************************************************)
THEOREM EditorsTyped == EditingSpec => []EditingTypeOK
<1>1. EditingInv => EditingTypeOK
  BY EditorsAssumption DEF EditingInv, EditingTypeOK, RecordInv, FromBase
<1> QED BY <1>1, EditingInductive, PTL

(***************************************************************************)
(* OnlyOwnEdits, of all pages: no save that the server takes puts back     *)
(* what others changed, neither from the settings, however their copies    *)
(* arrive, nor from the schedule of an interview, a status or a card       *)
(* moved.  What such a form sends of a field that was not edited is what   *)
(* the record it was opened with has; a save that is taken was made from   *)
(* the server's own version, which is that record.  A status has no other  *)
(* field to send.                                                          *)
(***************************************************************************)
OnlyRoute ==
    /\ route = "settings" => SettingsInv /\ replaced = {}
    /\ route = "record" => EditingInv /\ draft = Nothing
    /\ route \notin {"settings", "record"} => draft = Nothing /\ replaced = {}

THEOREM EditsAreOwn == MCSpec => []OnlyOwnEdits
<1>1. MCInit => OnlyRoute
  BY SettingsInitInv, EditingInitInv DEF MCInit, OnlyRoute, SettingsInit, EditingInit, FormInit, EditorInit
<1>2. OnlyRoute /\ [MCNext]_<<route, settingsVars, editorVars, drawerVars, captureVars, shellVars>> => OnlyRoute'
  <2> SUFFICES ASSUME OnlyRoute, MCNext \/ UNCHANGED <<route, settingsVars, editorVars>> PROVE OnlyRoute'
    OBVIOUS
  <2>1. UNCHANGED route
    BY DEF MCNext, Others
  <2>2. CASE route = "settings"
    <3>1. [SettingsNext]_settingsVars /\ UNCHANGED editorVars
      BY <2>2 DEF MCNext, Others
    <3> QED BY <2>1, <2>2, <3>1, SettingsStep DEF OnlyRoute, editorVars
  <2>3. CASE route = "record"
    <3>1. [EditingNext]_editingVars /\ UNCHANGED <<formVars, zoneVars>>
      BY <2>3 DEF MCNext, Others, settingsVars, editingVars
    <3> QED BY <2>1, <2>3, <3>1, EditingStep DEF OnlyRoute, formVars
  <2>4. CASE route \notin {"settings", "record"}
    <3>1. UNCHANGED <<formVars, zoneVars, editorVars>>
      BY <2>4 DEF MCNext, Others, settingsVars
    <3> QED BY <2>1, <2>4, <3>1 DEF OnlyRoute, formVars, editorVars
  <2> QED BY <2>2, <2>3, <2>4
<1>3. OnlyRoute => OnlyOwnEdits
  BY DEF OnlyRoute, OnlyOwnEdits, SettingsInv, EditingInv, OnlyEditedSent, StaleWritesConflict
<1> QED BY <1>1, <1>2, <1>3, PTL DEF MCSpec

-----------------------------------------------------------------------------
(***************************************************************************)
(* The preparation drawer.                                                 *)
(***************************************************************************)

(***************************************************************************)
(* A copy of an interview that has the version of the server's is the same *)
(* as the server's, and none is newer.                                     *)
(***************************************************************************)
UpToDate(rec, r) == rec.ver <= round[r].ver /\ (rec.ver = round[r].ver => rec = round[r])

Ticked(d, rec) == d.done \subseteq Allowed(rec)

\* A save that will be taken for current is one of items the server knows.
Sendable(c) ==
    /\ c.state # "unknown"
    /\ c.state = "sent" =>
        /\ c.ver <= round[c.of].ver
        /\ Saving(c) /\ c.ver = round[c.of].ver => Ticked(c.arg, round[c.of])

\* The open drawer ticks only what its copy of the interview has.
Working == IsOpen =>
    /\ UpToDate(drawer.current, drawer.of)
    /\ Ticked(drawer.draft, drawer.current) /\ Ticked(drawer.saved, drawer.current)

\* The answer it waits for is of its own copy, one change later.
Expected == call # Closed =>
    /\ call.of = drawer.of /\ call.ver = drawer.current.ver
    /\ call.state = "done" /\ call.kind # "role" =>
        /\ UpToDate(call.answer, call.of)
        /\ call.kind \in {"add", "remove"} =>
            call.answer.role = drawer.current.role /\ call.answer.custom = (call.kind = "add")

DrawerInv ==
    /\ DrawerTypeOK
    /\ \A r \in Rounds : UpToDate(known[r], r)
    /\ \A c \in late : Sendable(c)
    /\ call # Closed => Sendable(call)
    /\ Working /\ Expected

\* An interview only changes with its version.
Newer ==
    /\ round' \in [Rounds -> Interviews]
    /\ \A r \in Rounds : round'[r] = round[r] \/ round'[r].ver > round[r].ver

LEMMA VersionsAreInts == ASSUME NEW rec \in Interviews PROVE rec.ver \in Int
BY DrawerAssumption DEF Interviews

LEMMA OldCopiesStay ==
    ASSUME DrawerTypeOK, Newer, NEW r \in Rounds, NEW rec \in Interviews, UpToDate(rec, r)
    PROVE  UpToDate(rec, r)'
<1>1. rec.ver \in Int /\ round[r].ver \in Int /\ round'[r].ver \in Int
  BY VersionsAreInts DEF Newer, DrawerTypeOK
<1> QED BY <1>1 DEF UpToDate, Newer

LEMMA OldCallsStay ==
    ASSUME DrawerTypeOK, Newer, NEW c \in Calls, Sendable(c)
    PROVE  Sendable(c)'
<1>1. c.ver \in Int /\ c.of \in Rounds /\ round[c.of].ver \in Int /\ round'[c.of].ver \in Int
  BY VersionsAreInts, DrawerAssumption DEF Newer, DrawerTypeOK, Calls
<1> QED BY <1>1 DEF Sendable, Newer, Saving

\* An interview, field by field.
LEMMA InterviewFields ==
    ASSUME NEW rec \in Interviews
    PROVE  \E v \in 1..LastVersion, role \in Roles, custom \in BOOLEAN, done \in SUBSET Items, text \in Texts, reflected \in BOOLEAN :
             rec = [ver |-> v, role |-> role, custom |-> custom, done |-> done, text |-> text, reflected |-> reflected]
BY DEF Interviews

LEMMA IsInterview ==
    ASSUME NEW v \in 1..LastVersion, NEW role \in Roles, NEW custom \in BOOLEAN, NEW done \in SUBSET Items,
           NEW text \in Texts, NEW reflected \in BOOLEAN
    PROVE  [ver |-> v, role |-> role, custom |-> custom, done |-> done, text |-> text, reflected |-> reflected] \in Interviews
BY DEF Interviews

LEMMA RoleIsNewer == ASSUME DrawerTypeOK, RoleEverywhere PROVE Newer
<1> DEFINE turned(r) == [round[r] EXCEPT !.role = OtherRole(round[r]), !.ver = @ + 1]
<1>1. ASSUME NEW r \in Rounds PROVE turned(r) \in Interviews /\ turned(r).ver > round[r].ver
  <2>1. round[r] \in Interviews /\ round[r].ver < LastVersion
    BY DEF DrawerTypeOK, RoleEverywhere
  <2>2. PICK v \in 1..LastVersion, role \in Roles, custom \in BOOLEAN, done \in SUBSET Items, text \in Texts, reflected \in BOOLEAN :
        round[r] = [ver |-> v, role |-> role, custom |-> custom, done |-> done, text |-> text, reflected |-> reflected]
    BY <2>1, InterviewFields
  <2>3. OtherRole(round[r]) \in Roles
    BY DEF OtherRole, Roles
  <2> DEFINE other == OtherRole(round[r])
  <2>4. turned(r) = [ver |-> v + 1, role |-> other, custom |-> custom, done |-> done, text |-> text, reflected |-> reflected]
    <3> DEFINE one == [round[r] EXCEPT !.role = other]
    <3>1. one = [ver |-> v, role |-> other, custom |-> custom, done |-> done, text |-> text, reflected |-> reflected]
      <4> HIDE DEF other
      <4> QED BY <2>2
    <3>2. turned(r) = [one EXCEPT !.ver = @ + 1]
      OBVIOUS
    <3>3. [one EXCEPT !.ver = @ + 1] = [ver |-> v + 1, role |-> other, custom |-> custom, done |-> done, text |-> text, reflected |-> reflected]
      <4> HIDE DEF one, other
      <4> QED BY <3>1
    <3> QED BY <3>2, <3>3
  <2>5. v + 1 \in 1..LastVersion /\ v \in Int /\ round[r].ver = v
    BY <2>1, <2>2, DrawerAssumption
  <2> HIDE DEF turned, other
  <2>6. turned(r) \in Interviews
    BY <2>3, <2>4, <2>5, IsInterview DEF other
  <2>7. turned(r).ver = v + 1
    BY <2>4
  <2> QED BY <2>5, <2>6, <2>7
<1>2. round' = [r \in Rounds |-> turned(r)]
  BY DEF RoleEverywhere
<1> HIDE DEF turned
<1> QED BY <1>1, <1>2 DEF Newer

LEMMA ChangedIsOne ==
    ASSUME NEW rec \in Interviews, NEW c \in Calls, c.kind # "role"
    PROVE  /\ Changed(rec, c) \in Interviews /\ Changed(rec, c).ver = rec.ver
           /\ Changed(rec, c).role = rec.role
           /\ c.kind = "add" => Changed(rec, c).custom = TRUE
           /\ c.kind = "remove" => Changed(rec, c).custom = FALSE
<1>1. PICK v \in 1..LastVersion, role \in Roles, custom \in BOOLEAN, done \in SUBSET Items, text \in Texts, reflected \in BOOLEAN :
        rec = [ver |-> v, role |-> role, custom |-> custom, done |-> done, text |-> text, reflected |-> reflected]
  BY InterviewFields
<1>2. c.arg.done \in SUBSET Items /\ c.arg.text \in Texts
  BY DEF Calls, Drafts
<1>3. CASE c.kind = "save"
  <2>1. Changed(rec, c) = [ver |-> v, role |-> role, custom |-> custom, done |-> c.arg.done, text |-> c.arg.text, reflected |-> reflected]
    BY <1>1, <1>3 DEF Changed
  <2>2. Changed(rec, c) \in Interviews
    BY <1>2, <1>3, <2>1, IsInterview
  <2> QED BY <1>1, <1>3, <2>1, <2>2
<1>4. CASE c.kind = "reflect"
  <2>1. Changed(rec, c) = [ver |-> v, role |-> role, custom |-> custom, done |-> c.arg.done, text |-> c.arg.text, reflected |-> TRUE]
    BY <1>1, <1>4 DEF Changed
  <2>2. Changed(rec, c) \in Interviews
    BY <1>2, <1>4, <2>1, TRUE \in BOOLEAN, IsInterview
  <2> QED BY <1>1, <1>4, <2>1, <2>2
<1>5. CASE c.kind = "add"
  <2>1. Changed(rec, c) = [ver |-> v, role |-> role, custom |-> TRUE, done |-> done, text |-> text, reflected |-> reflected]
    BY <1>1, <1>5 DEF Changed
  <2>2. Changed(rec, c) \in Interviews
    BY <2>1, TRUE \in BOOLEAN, IsInterview
  <2> QED BY <1>1, <1>5, <2>1, <2>2
<1>6. CASE c.kind = "remove"
  <2>1. Changed(rec, c) = [ver |-> v, role |-> role, custom |-> FALSE, done |-> done \ {"custom"}, text |-> text, reflected |-> reflected]
    BY <1>1, <1>6 DEF Changed
  <2>2. Changed(rec, c) \in Interviews
    BY <2>1, FALSE \in BOOLEAN, done \ {"custom"} \in SUBSET Items, IsInterview
  <2> QED BY <1>1, <1>6, <2>1, <2>2
<1> QED BY <1>3, <1>4, <1>5, <1>6 DEF Calls

\* An item added or removed in another tab.
LEMMA ItemIsOne ==
    ASSUME NEW rec \in Interviews, NEW kind \in {"add", "remove"}
    PROVE  Changed(rec, [kind |-> kind]) \in Interviews /\ Changed(rec, [kind |-> kind]).ver = rec.ver
<1>1. PICK v \in 1..LastVersion, role \in Roles, custom \in BOOLEAN, done \in SUBSET Items, text \in Texts, reflected \in BOOLEAN :
        rec = [ver |-> v, role |-> role, custom |-> custom, done |-> done, text |-> text, reflected |-> reflected]
  BY InterviewFields
<1>2. CASE kind = "add"
  <2>1. Changed(rec, [kind |-> kind]) = [ver |-> v, role |-> role, custom |-> TRUE, done |-> done, text |-> text, reflected |-> reflected]
    BY <1>1, <1>2 DEF Changed
  <2>2. Changed(rec, [kind |-> kind]) \in Interviews
    BY <2>1, TRUE \in BOOLEAN, IsInterview
  <2> QED BY <1>1, <2>1, <2>2
<1>3. CASE kind = "remove"
  <2>1. Changed(rec, [kind |-> kind]) = [ver |-> v, role |-> role, custom |-> FALSE, done |-> done \ {"custom"}, text |-> text, reflected |-> reflected]
    BY <1>1, <1>3 DEF Changed
  <2>2. Changed(rec, [kind |-> kind]) \in Interviews
    BY <2>1, FALSE \in BOOLEAN, done \ {"custom"} \in SUBSET Items, IsInterview
  <2> QED BY <1>1, <2>1, <2>2
<1> QED BY <1>2, <1>3

\* What the server makes of a change: nothing, or the next version.
LEMMA NextIsOne ==
    ASSUME NEW rec \in Interviews, NEW c \in Calls, c.kind # "role", Next1(rec, c).ver <= LastVersion
    PROVE  /\ Next1(rec, c) \in Interviews
           /\ Next1(rec, c) = rec \/ Next1(rec, c).ver > rec.ver
           /\ Next1(rec, c).role = rec.role
           /\ c.kind = "add" => Next1(rec, c).custom = TRUE
           /\ c.kind = "remove" => Next1(rec, c).custom = FALSE
<1> DEFINE new == Changed(rec, c)
<1>1. /\ new \in Interviews /\ new.ver = rec.ver /\ new.role = rec.role
      /\ c.kind = "add" => new.custom = TRUE
      /\ c.kind = "remove" => new.custom = FALSE
  BY ChangedIsOne
<1>2. rec.ver \in 1..LastVersion
  BY DEF Interviews
<1>3. CASE new = rec
  BY <1>1, <1>3 DEF Next1
<1>4. CASE new # rec
  <2>1. Next1(rec, c) = [new EXCEPT !.ver = rec.ver + 1]
    BY <1>4 DEF Next1
  <2>2. Next1(rec, c).ver = rec.ver + 1
    BY <1>1, <2>1 DEF Interviews
  <2>3. rec.ver + 1 \in 1..LastVersion
    BY <1>2, <2>2, DrawerAssumption
  <2> HIDE DEF new
  <2> QED BY <1>1, <1>2, <2>1, <2>2, <2>3, DrawerAssumption DEF Interviews
<1> QED BY <1>3, <1>4

\* A call that the server decided.
LEMMA Decision ==
    ASSUME DrawerTypeOK, NEW c \in Calls, NEW d, Sendable(c), Decide(c), d = Decided(c)
    PROVE  /\ Newer /\ d \in Calls /\ Sendable(d)'
           /\ d.state \in {"done", "conflict", "unfounded"} /\ d.kind = c.kind
           /\ d.of = c.of /\ d.ver = c.ver /\ d.answer = round'[c.of]
           /\ d.state = "done" /\ c.kind # "role" =>
                c.ver = round[c.of].ver /\ round'[c.of].role = round[c.of].role
           /\ d.state = "done" /\ c.kind \in {"add", "remove"} => round'[c.of].custom = (c.kind = "add")
<1>1. c.of \in Rounds /\ c.state = "sent" /\ round[c.of] \in Interviews
  BY DEF Calls, Decide, DrawerTypeOK
<1>2. Verdict(c) \in {"done", "conflict", "unfounded"} /\ (Verdict(c) = "done" /\ c.kind # "role" => c.ver = round[c.of].ver)
  <2>1. Saving(c) /\ c.ver = round[c.of].ver => c.arg.done \subseteq Allowed(round[c.of])
    BY <1>1 DEF Sendable, Ticked
  <2>2. c.kind = "role" => Verdict(c) = "done"
    BY DEF Verdict, Saving
  <2>3. c.kind # "role" /\ c.ver # round[c.of].ver => Verdict(c) = "conflict"
    BY DEF Verdict
  <2>4. c.kind # "role" /\ c.ver = round[c.of].ver => Verdict(c) \in {"done", "unfounded"}
    BY <2>1 DEF Verdict, Ticked
  <2> QED BY <2>2, <2>3, <2>4
<1>3. ASSUME Verdict(c) # "done" PROVE Newer
  BY <1>3 DEF Decide, Newer, DrawerTypeOK
<1>4. ASSUME Verdict(c) = "done", c.kind = "role" PROVE Newer
  <2>1. RoleEverywhere
    BY <1>4 DEF Decide
  <2> QED BY <2>1, RoleIsNewer
<1>5. ASSUME Verdict(c) = "done", c.kind # "role"
      PROVE  /\ Newer /\ round'[c.of] = Next1(round[c.of], c)
             /\ round'[c.of].role = round[c.of].role
             /\ c.kind \in {"add", "remove"} => round'[c.of].custom = (c.kind = "add")
  <2>1. Next1(round[c.of], c).ver <= LastVersion /\ round' = [round EXCEPT ![c.of] = Next1(round[c.of], c)]
    BY <1>5 DEF Decide
  <2> DEFINE n == Next1(round[c.of], c)
  <2>2. /\ n \in Interviews /\ (n = round[c.of] \/ n.ver > round[c.of].ver) /\ n.role = round[c.of].role
        /\ c.kind = "add" => n.custom = TRUE
        /\ c.kind = "remove" => n.custom = FALSE
    BY <1>1, <1>5, <2>1, NextIsOne
  <2> HIDE DEF n
  <2>3. round' = [round EXCEPT ![c.of] = n]
    BY <2>1 DEF n
  <2>4. round'[c.of] = n
    BY <1>1, <2>3 DEF DrawerTypeOK
  <2>5. Newer
    BY <1>1, <2>2, <2>3 DEF Newer, DrawerTypeOK
  <2>6. c.kind \in {"add", "remove"} => n.custom = (c.kind = "add")
    BY <2>2
  <2> QED BY <2>2, <2>4, <2>5, <2>6 DEF n
<1>6. Newer
  BY <1>2, <1>3, <1>4, <1>5
<1>7. round'[c.of] \in Interviews
  BY <1>1, <1>6 DEF Newer
<1>8. /\ d \in Calls /\ d.state = Verdict(c) /\ d.kind = c.kind
      /\ d.of = c.of /\ d.ver = c.ver /\ d.answer = round'[c.of]
  BY <1>2, <1>7 DEF Decided, Calls
<1>9. Sendable(d)'
  BY <1>2, <1>8 DEF Sendable
<1> QED BY <1>2, <1>5, <1>6, <1>8, <1>9

-----------------------------------------------------------------------------
\* What a step leaves alone stays as it should be, whatever is newer now.
LEMMA NothingNewer == ASSUME DrawerTypeOK, round' = round PROVE Newer
BY DEF DrawerTypeOK, Newer

LEMMA KnownStays == ASSUME DrawerInv, Newer, known' = known PROVE (\A r \in Rounds : UpToDate(known[r], r))'
<1>1. ASSUME NEW r \in Rounds PROVE UpToDate(known[r], r)'
  <2>1. PICK rec \in Interviews : rec = known[r]
    BY DEF DrawerInv, DrawerTypeOK
  <2>2. UpToDate(rec, r)'
    BY <2>1, OldCopiesStay DEF DrawerInv
  <2> QED BY <2>1, <2>2 DEF UpToDate
<1> QED BY <1>1

LEMMA LateStay == ASSUME DrawerInv, Newer, late' \subseteq late PROVE (\A c \in late : Sendable(c))'
<1>1. ASSUME NEW c \in late' PROVE Sendable(c)'
  BY OldCallsStay DEF DrawerInv, DrawerTypeOK
<1> QED BY <1>1

LEMMA CallStays == ASSUME DrawerInv, Newer, call' = call PROVE (call # Closed => Sendable(call))'
<1> SUFFICES ASSUME call # Closed PROVE Sendable(call)'
  OBVIOUS
<1>1. PICK c \in Calls : c = call
  BY DEF DrawerInv, DrawerTypeOK
<1>2. Sendable(c)'
  BY <1>1, OldCallsStay DEF DrawerInv
<1> QED BY <1>1, <1>2 DEF Sendable

LEMMA WorkStays == ASSUME DrawerInv, Newer, drawer' = drawer PROVE Working'
<1> SUFFICES ASSUME IsOpen PROVE Working'
  BY DEF Working, IsOpen
<1>1. drawer.current \in Interviews /\ drawer.of \in Rounds
  BY DEF DrawerInv, DrawerTypeOK, IsOpen, Drawers
<1>2. PICK rec \in Interviews, r \in Rounds : rec = drawer.current /\ r = drawer.of
  BY <1>1
<1>3. UpToDate(rec, r)'
  BY <1>2, OldCopiesStay DEF DrawerInv, Working
<1> QED BY <1>2, <1>3 DEF DrawerInv, Working, UpToDate, Ticked, Allowed, IsOpen

LEMMA ExpectStays == ASSUME DrawerInv, Newer, drawer' = drawer, call' = call PROVE Expected'
<1> SUFFICES ASSUME call # Closed PROVE Expected'
  BY DEF Expected
<1>1. call.answer \in Interviews /\ call.of \in Rounds
  BY DEF DrawerInv, DrawerTypeOK, Calls
<1>2. PICK rec \in Interviews, r \in Rounds : rec = call.answer /\ r = call.of
  BY <1>1
<1>3. call.state = "done" /\ call.kind # "role" => UpToDate(rec, r)'
  BY <1>2, OldCopiesStay DEF DrawerInv, Expected
<1> QED BY <1>2, <1>3 DEF DrawerInv, Expected, UpToDate

LEMMA DraftIsTyped == ASSUME NEW rec \in Interviews PROVE DraftFrom(rec) \in Drafts /\ Ticked(DraftFrom(rec), rec)
BY DEF Interviews, Drafts, DraftFrom, Ticked

LEMMA FreshIsTyped == Fresh \in Interviews
<1>1. 1 \in 1..LastVersion /\ 0 \in Texts /\ "GENERAL" \in Roles /\ FALSE \in BOOLEAN /\ {} \in SUBSET Items
  BY DrawerAssumption DEF Roles
<1> QED BY <1>1, IsInterview DEF Fresh

-----------------------------------------------------------------------------
LEMMA DrawerInitInv == DrawerInit => DrawerInv
<1> SUFFICES ASSUME DrawerInit PROVE DrawerInv
  OBVIOUS
<1> USE DEF DrawerInit
<1>1. round \in [Rounds -> Interviews] /\ known \in [Rounds -> Interviews]
  BY FreshIsTyped
<1>2. DrawerTypeOK
  BY <1>1 DEF DrawerTypeOK, IsOpen
<1>3. \A r \in Rounds : UpToDate(known[r], r)
  BY <1>1, VersionsAreInts DEF UpToDate
<1> QED BY <1>2, <1>3 DEF DrawerInv, Working, Expected, IsOpen

LEMMA RefetchKeeps == ASSUME DrawerInv, Refetch PROVE DrawerInv'
<1> USE DEF Refetch
<1>1. Newer
  BY NothingNewer DEF DrawerInv
<1>2. DrawerTypeOK'
  BY DEF DrawerInv, DrawerTypeOK, IsOpen
<1>3. (\A r \in Rounds : UpToDate(known[r], r))'
  BY <1>2, VersionsAreInts DEF UpToDate, DrawerTypeOK
<1> QED BY <1>1, <1>2, <1>3, LateStay, CallStays, WorkStays, ExpectStays DEF DrawerInv

LEMMA OpenKeeps == ASSUME DrawerInv, NEW r \in Rounds, Open(r) PROVE DrawerInv'
<1> USE DEF Open
<1>1. Newer
  BY NothingNewer DEF DrawerInv
<1>2. known[r] \in Interviews /\ call = Closed
  BY DEF DrawerInv, DrawerTypeOK, IsOpen
<1>3. DraftFrom(known[r]) \in Drafts /\ Ticked(DraftFrom(known[r]), known[r])
  BY <1>2, DraftIsTyped
<1>4. ModeFor(r, known[r]) \in {"PREPARE", "CAPTURE", "REVIEW", "EDIT", "HANDOFF"}
  BY DEF ModeFor
<1>5. drawer' \in Drawers
  BY <1>2, <1>3, <1>4 DEF Drawers
<1>6. DrawerTypeOK'
  BY <1>2, <1>5 DEF DrawerInv, DrawerTypeOK, IsOpen
<1>7. Working'
  <2>1. drawer'.of = r /\ drawer'.current = known[r] /\ drawer'.draft = DraftFrom(known[r]) /\ drawer'.saved = DraftFrom(known[r])
    OBVIOUS
  <2>2. UpToDate(known[r], r) /\ round' = round
    BY DEF DrawerInv
  <2> QED BY <1>3, <2>1, <2>2 DEF Working, UpToDate, Ticked, Allowed
<1>8. Expected'
  BY <1>2 DEF Expected
<1> QED BY <1>1, <1>6, <1>7, <1>8, KnownStays, LateStay, CallStays DEF DrawerInv

\* Work on the open drawer alone: its draft, or how it is shown.
LEMMA WorkKeeps ==
    ASSUME DrawerInv, IsOpen, UNCHANGED <<round, known, call, late>>,
           drawer' \in Drawers, drawer'.of = drawer.of, drawer'.current = drawer.current,
           Ticked(drawer'.draft, drawer.current), drawer'.saved = drawer.saved
    PROVE  DrawerInv'
<1>1. Newer
  BY NothingNewer DEF DrawerInv
<1>2. drawer' # Closed
  BY DrawerAssumption
<1>3. DrawerTypeOK'
  BY <1>2 DEF DrawerInv, DrawerTypeOK, IsOpen
<1>4. Working'
  BY DEF DrawerInv, Working, UpToDate, Ticked, Allowed
<1>5. Expected'
  BY DEF DrawerInv, Expected, UpToDate
<1> QED BY <1>1, <1>3, <1>4, <1>5, KnownStays, LateStay, CallStays DEF DrawerInv

LEMMA DrawerFields ==
    ASSUME DrawerInv, IsOpen
    PROVE  /\ drawer.of \in Rounds /\ drawer.current \in Interviews
           /\ drawer.mode \in {"PREPARE", "CAPTURE", "REVIEW", "EDIT", "HANDOFF"}
           /\ drawer.draft \in Drafts /\ drawer.saved \in Drafts
           /\ drawer = [of |-> drawer.of, current |-> drawer.current, mode |-> drawer.mode,
                        draft |-> drawer.draft, saved |-> drawer.saved]
           /\ drawer.draft = [done |-> drawer.draft.done, text |-> drawer.draft.text]
           /\ drawer.draft.done \in SUBSET Items /\ drawer.draft.text \in Texts
           /\ Ticked(drawer.draft, drawer.current)
<1>1. drawer \in Drawers
  BY DEF DrawerInv, DrawerTypeOK, IsOpen
<1>2. /\ drawer.draft \in Drafts
      /\ drawer = [of |-> drawer.of, current |-> drawer.current, mode |-> drawer.mode,
                   draft |-> drawer.draft, saved |-> drawer.saved]
  BY <1>1 DEF Drawers
<1> QED BY <1>1, <1>2 DEF Drawers, Drafts, DrawerInv, Working

\* The drawer with another draft.
LEMMA DraftKeeps ==
    ASSUME DrawerInv, IsOpen, UNCHANGED <<round, known, call, late>>, NEW d \in Drafts,
           Ticked(d, drawer.current), drawer' = [drawer EXCEPT !.draft = d]
    PROVE  DrawerInv'
<1>1. drawer \in Drawers
  BY DEF DrawerInv, DrawerTypeOK, IsOpen
<1>2. /\ drawer' \in Drawers /\ drawer'.of = drawer.of /\ drawer'.current = drawer.current
      /\ drawer'.draft = d /\ drawer'.saved = drawer.saved
  BY <1>1 DEF Drawers
<1> QED BY <1>2, WorkKeeps

LEMMA ToggleKeeps == ASSUME DrawerInv, NEW item \in Items, Toggle(item) PROVE DrawerInv'
<1> DEFINE old == drawer.draft.done
           new == IF item \in old THEN old \ {item} ELSE old \cup {item}
           d == [done |-> new, text |-> drawer.draft.text]
<1>1. IsOpen /\ item \in Allowed(drawer.current)
  BY DEF Toggle, Preparing
<1>2. old \in SUBSET Items /\ drawer.draft.text \in Texts /\ old \subseteq Allowed(drawer.current)
  BY <1>1, DrawerFields DEF Ticked
<1>3. d \in Drafts /\ Ticked(d, drawer.current)
  BY <1>1, <1>2 DEF Drafts, Ticked
<1>4. drawer' = [drawer EXCEPT !.draft = d]
  <2>1. drawer' = [drawer EXCEPT !.draft = [drawer.draft EXCEPT !.done = new]]
    BY DEF Toggle
  <2>2. [drawer.draft EXCEPT !.done = new] = d
    <3> HIDE DEF new
    <3> QED BY <1>1, DrawerFields
  <2> QED BY <2>1, <2>2
<1> HIDE DEF d
<1> QED BY <1>1, <1>3, <1>4, DraftKeeps DEF Toggle

LEMMA WriteKeeps == ASSUME DrawerInv, IsOpen, NEW text \in Texts, Write(text) PROVE DrawerInv'
<1> DEFINE d == [done |-> drawer.draft.done, text |-> text]
<1>1. d \in Drafts /\ Ticked(d, drawer.current)
  BY DrawerFields DEF Drafts, Ticked
<1>2. drawer' = [drawer EXCEPT !.draft = d]
  <2>1. drawer' = [drawer EXCEPT !.draft = [drawer.draft EXCEPT !.text = text]]
    BY DEF Write
  <2>2. [drawer.draft EXCEPT !.text = text] = d
    BY DrawerFields
  <2> QED BY <2>1, <2>2
<1> HIDE DEF d
<1> QED BY <1>1, <1>2, DraftKeeps DEF Write

LEMMA EditKeeps == ASSUME DrawerInv, EditReflection PROVE DrawerInv'
<1>1. drawer \in Drawers
  BY DEF DrawerInv, DrawerTypeOK, IsOpen, EditReflection
<1>2. /\ drawer' \in Drawers /\ drawer'.of = drawer.of /\ drawer'.current = drawer.current
      /\ drawer'.draft = drawer.draft /\ drawer'.saved = drawer.saved
  BY <1>1 DEF Drawers, EditReflection
<1> QED BY <1>2, WorkKeeps, DrawerFields DEF EditReflection

LEMMA CancelKeeps == ASSUME DrawerInv, CancelReflectionEdit PROVE DrawerInv'
<1> DEFINE d == DraftFrom(drawer.current)
<1>1. IsOpen /\ drawer \in Drawers /\ drawer.current \in Interviews
  BY DrawerFields DEF DrawerInv, DrawerTypeOK, IsOpen, CancelReflectionEdit
<1>2. d \in Drafts /\ Ticked(d, drawer.current)
  BY <1>1, DraftIsTyped
<1>3. drawer' = [drawer EXCEPT !.mode = "REVIEW", !.draft = d]
  BY DEF CancelReflectionEdit
<1> HIDE DEF d
<1>4. /\ drawer' \in Drawers /\ drawer'.of = drawer.of /\ drawer'.current = drawer.current
      /\ drawer'.draft = d /\ drawer'.saved = drawer.saved
  BY <1>1, <1>2, <1>3 DEF Drawers
<1> QED BY <1>1, <1>2, <1>4, WorkKeeps DEF CancelReflectionEdit

LEMMA ShutKeeps == ASSUME DrawerInv, Shut(Waiting) PROVE DrawerInv'
<1> USE DEF Shut
<1>1. Newer
  BY NothingNewer DEF DrawerInv
<1>2. DrawerTypeOK'
  BY DEF DrawerInv, DrawerTypeOK, IsOpen, Waiting
<1>3. (\A c \in late : Sendable(c))'
  <2>1. ASSUME NEW c \in late' PROVE Sendable(c)'
    <3>1. c \in Calls /\ Sendable(c)
      BY DEF DrawerInv, DrawerTypeOK, Waiting
    <3> QED BY <1>1, <3>1, OldCallsStay DEF DrawerInv
  <2> QED BY <2>1
<1> QED BY <1>1, <1>2, <1>3, KnownStays DEF DrawerInv, Working, Expected, IsOpen

-----------------------------------------------------------------------------
\* A call that the drawer sends: from its own copy, of items that the copy has.
LEMMA CallKeeps ==
    ASSUME DrawerInv, IsOpen, NEW kind \in {"save", "reflect", "add", "remove", "role"},
           NEW then \in {"close", "review", "handoff", "stay"}, NEW arg \in Drafts,
           kind \in {"save", "reflect"} => Ticked(arg, drawer.current), Call(kind, then, arg)
    PROVE  DrawerInv'
<1>1. Newer
  BY NothingNewer DEF DrawerInv, Call
<1>2. /\ drawer.of \in Rounds /\ drawer.current \in Interviews /\ drawer.current.ver \in 1..LastVersion
      /\ UpToDate(drawer.current, drawer.of)
  BY DrawerFields DEF DrawerInv, Working, Interviews
<1> DEFINE new == [kind |-> kind, of |-> drawer.of, ver |-> drawer.current.ver, arg |-> arg,
                   then |-> then, state |-> "sent", answer |-> Fresh]
<1>3. call' = new
  BY DEF Call
<1>4. new \in Calls
  BY <1>2, FreshIsTyped DEF Calls
<1>5. /\ new.kind = kind /\ new.of = drawer.of /\ new.ver = drawer.current.ver /\ new.arg = arg
      /\ new.state = "sent"
  OBVIOUS
<1> HIDE DEF new
<1>6. DrawerTypeOK'
  BY <1>3, <1>4 DEF DrawerInv, DrawerTypeOK, IsOpen, Call
<1>7. Sendable(call)'
  <2>1. PICK c : c = new
    OBVIOUS
  <2>2. Sendable(c)
    BY <1>2, <1>5, <2>1 DEF Sendable, Saving, UpToDate, Ticked
  <2>3. Sendable(c)'
    BY <1>1, <1>4, <2>1, <2>2, OldCallsStay DEF DrawerInv
  <2> QED BY <1>3, <2>1, <2>3 DEF Sendable
<1>8. Expected'
  BY <1>3, <1>5 DEF Expected, Call
<1> QED BY <1>1, <1>6, <1>7, <1>8, KnownStays, LateStay, WorkStays DEF DrawerInv, Call

LEMMA SaveKeeps == ASSUME DrawerInv, Save PROVE DrawerInv'
<1>1. IsOpen
  BY DEF Save
<1>2. drawer.draft \in Drafts /\ Ticked(drawer.draft, drawer.current)
  BY <1>1, DrawerFields
<1>3. CASE Call("save", "close", drawer.draft)
  BY <1>1, <1>2, <1>3, CallKeeps
<1>4. CASE Call("reflect", IF drawer.mode = "EDIT" THEN "review" ELSE "handoff", drawer.draft)
  <2> DEFINE then == IF drawer.mode = "EDIT" THEN "review" ELSE "handoff"
  <2>1. then \in {"close", "review", "handoff", "stay"}
    OBVIOUS
  <2> HIDE DEF then
  <2>2. Call("reflect", then, drawer.draft)
    BY <1>4 DEF then
  <2> QED BY <1>1, <1>2, <2>1, <2>2, CallKeeps
<1> QED BY <1>3, <1>4 DEF Save

LEMMA ItemCallKeeps ==
    ASSUME DrawerInv, AddCustomItem \/ RemoveCustomItem \/ ApplyRoleFocus
    PROVE  DrawerInv'
<1>1. DraftFrom(Fresh) \in Drafts
  BY FreshIsTyped, DraftIsTyped
<1>2. IsOpen
  BY DEF AddCustomItem, RemoveCustomItem, ApplyRoleFocus, Preparing
<1>3. \E kind \in {"add", "remove", "role"} : Call(kind, "stay", DraftFrom(Fresh))
  BY DEF AddCustomItem, RemoveCustomItem, ApplyRoleFocus
<1> QED BY <1>1, <1>2, <1>3, CallKeeps

\* The drawer stops waiting.
LEMMA WaitOverKeeps ==
    ASSUME DrawerInv, UNCHANGED <<round, known>>, late' \subseteq late, call' = Closed,
           drawer' \in Drawers \cup {Closed}, Working'
    PROVE  DrawerInv'
<1>1. Newer
  BY NothingNewer DEF DrawerInv
<1>2. DrawerTypeOK'
  BY DEF DrawerInv, DrawerTypeOK
<1>3. Expected'
  BY DEF Expected
<1> QED BY <1>1, <1>2, <1>3, KnownStays, LateStay DEF DrawerInv

LEMMA ClosingKeeps ==
    ASSUME DrawerInv, UNCHANGED <<round, known>>, late' \subseteq late, call' = Closed, drawer' = Closed
    PROVE  DrawerInv'
BY WaitOverKeeps DEF Working, IsOpen

LEMMA RefusedKeeps == ASSUME DrawerInv, RoleHeard \/ Refused PROVE DrawerInv'
<1>1. UNCHANGED <<round, known, drawer, late>> /\ call' = Closed
  BY DEF RoleHeard, Refused
<1>2. Working' /\ drawer' \in Drawers \cup {Closed}
  BY <1>1, WorkStays, NothingNewer DEF DrawerInv, DrawerTypeOK
<1> QED BY <1>1, <1>2, WaitOverKeeps

\* An answer is of the drawer's own interview, and nothing is newer there.
LEMMA AnswerFields ==
    ASSUME DrawerInv, call # Closed, call.state = "done", call.kind # "role"
    PROVE  /\ IsOpen /\ call.answer \in Interviews /\ UpToDate(call.answer, drawer.of)
           /\ call.kind \in {"add", "remove"} =>
                call.answer.role = drawer.current.role /\ call.answer.custom = (call.kind = "add")
<1>1. IsOpen /\ call \in Calls
  BY DEF DrawerInv, DrawerTypeOK
<1> QED BY <1>1 DEF DrawerInv, Expected, Calls

LEMMA SaveHeardKeeps == ASSUME DrawerInv, SaveHeard PROVE DrawerInv'
<1>1. /\ call # Closed /\ call.state = "done" /\ call.kind \in {"save", "reflect"}
      /\ UNCHANGED <<round, known, late>> /\ call' = Closed
  BY DEF SaveHeard
<1>2. IsOpen /\ call.answer \in Interviews /\ UpToDate(call.answer, drawer.of)
  BY <1>1, AnswerFields
<1>3. CASE call.then = "close"
  <2>1. drawer' = Closed
    BY <1>3 DEF SaveHeard
  <2> QED BY <1>1, <2>1, ClosingKeeps
<1>4. CASE call.then # "close"
  <2> DEFINE d == DraftFrom(call.answer)
  <2>1. PICK mode \in {"HANDOFF", "REVIEW"} :
          drawer' = [drawer EXCEPT !.saved = d, !.current = call.answer, !.draft = d, !.mode = mode]
    BY <1>4 DEF SaveHeard
  <2>2. d \in Drafts /\ Ticked(d, call.answer)
    BY <1>2, DraftIsTyped
  <2> HIDE DEF d
  <2>3. drawer \in Drawers
    BY <1>2 DEF DrawerInv, DrawerTypeOK, IsOpen
  <2>4. /\ drawer' \in Drawers /\ drawer'.of = drawer.of /\ drawer'.current = call.answer
        /\ drawer'.draft = d /\ drawer'.saved = d
    BY <1>2, <2>1, <2>2, <2>3 DEF Drawers
  <2>5. Working'
    BY <1>1, <1>2, <2>2, <2>4 DEF Working, UpToDate, Ticked, Allowed
  <2> QED BY <1>1, <2>4, <2>5, WaitOverKeeps
<1> QED BY <1>3, <1>4

LEMMA ItemHeardKeeps == ASSUME DrawerInv, ItemHeard PROVE DrawerInv'
<1>1. /\ call # Closed /\ call.state = "done" /\ call.kind \in {"add", "remove"}
      /\ UNCHANGED <<round, known, late>> /\ call' = Closed
  BY DEF ItemHeard
<1>2. /\ IsOpen /\ call.answer \in Interviews /\ UpToDate(call.answer, drawer.of)
      /\ call.answer.role = drawer.current.role /\ call.answer.custom = (call.kind = "add")
  BY <1>1, AnswerFields
<1>3. drawer \in Drawers /\ Ticked(drawer.draft, drawer.current) /\ Ticked(drawer.saved, drawer.current)
  BY <1>2 DEF DrawerInv, DrawerTypeOK, IsOpen, Working
<1>4. PICK d \in Drafts, s \in Drafts :
        /\ drawer' \in Drawers /\ drawer'.of = drawer.of /\ drawer'.current = call.answer
        /\ drawer'.draft = d /\ drawer'.saved = s /\ Ticked(d, call.answer) /\ Ticked(s, call.answer)
  <2>1. CASE call.kind = "add"
    <3>1. drawer' = [drawer EXCEPT !.current = call.answer]
      BY <2>1 DEF ItemHeard
    <3>2. /\ drawer' \in Drawers /\ drawer'.of = drawer.of /\ drawer'.current = call.answer
          /\ drawer'.draft = drawer.draft /\ drawer'.saved = drawer.saved
      BY <1>2, <1>3, <3>1 DEF Drawers
    <3>3. Allowed(drawer.current) \subseteq Allowed(call.answer)
      BY <1>2, <2>1 DEF Allowed
    <3>4. drawer.draft \in Drafts /\ drawer.saved \in Drafts
      BY <1>3 DEF Drawers
    <3> QED BY <1>3, <3>2, <3>3, <3>4 DEF Ticked
  <2>2. CASE call.kind = "remove"
    <3> DEFINE d == Without(drawer.draft, "custom")
               s == Without(drawer.saved, "custom")
    <3>1. drawer' = [drawer EXCEPT !.current = call.answer, !.draft = d, !.saved = s]
      BY <1>1, <2>2 DEF ItemHeard
    <3>2. drawer.draft \in Drafts /\ drawer.saved \in Drafts
      BY <1>3 DEF Drawers
    <3>3. d \in Drafts /\ s \in Drafts /\ d.done = drawer.draft.done \ {"custom"} /\ s.done = drawer.saved.done \ {"custom"}
      BY <3>2 DEF Drafts, Without
    <3>4. Allowed(drawer.current) \ {"custom"} \subseteq Allowed(call.answer)
      BY <1>2, <2>2 DEF Allowed
    <3>5. Ticked(d, call.answer) /\ Ticked(s, call.answer)
      <4> HIDE DEF d, s
      <4> QED BY <1>3, <3>3, <3>4 DEF Ticked
    <3> HIDE DEF d, s
    <3>6. /\ drawer' \in Drawers /\ drawer'.of = drawer.of /\ drawer'.current = call.answer
          /\ drawer'.draft = d /\ drawer'.saved = s
      BY <1>2, <1>3, <3>1, <3>3 DEF Drawers
    <3> QED BY <3>3, <3>5, <3>6
  <2> QED BY <1>1, <2>1, <2>2
<1>5. Working'
  BY <1>1, <1>2, <1>4 DEF Working, UpToDate, Ticked, Allowed
<1> QED BY <1>1, <1>4, <1>5, WaitOverKeeps

LEMMA LateHeardKeeps == ASSUME DrawerInv, LateHeard PROVE DrawerInv'
<1>1. UNCHANGED <<round, known>> /\ late' \subseteq late
  BY DEF LateHeard
<1>2. CASE drawer' = Closed /\ call' = Closed
  BY <1>1, <1>2, ClosingKeeps
<1>3. CASE UNCHANGED <<drawer, call>>
  <2>1. Newer
    BY <1>1, NothingNewer DEF DrawerInv
  <2>2. DrawerTypeOK'
    BY <1>1, <1>3 DEF DrawerInv, DrawerTypeOK, IsOpen
  <2> QED BY <1>1, <1>3, <2>1, <2>2, KnownStays, LateStay, CallStays, WorkStays, ExpectStays DEF DrawerInv
<1> QED BY <1>2, <1>3 DEF LateHeard

-----------------------------------------------------------------------------
LEMMA DecideOpenKeeps == ASSUME DrawerInv, DecideOpen PROVE DrawerInv'
<1>1. /\ call # Closed /\ Decide(call) /\ call' = Decided(call)
      /\ UNCHANGED <<known, drawer, late>>
  BY DEF DecideOpen
<1>2. call \in Calls /\ Sendable(call) /\ IsOpen /\ DrawerTypeOK
  BY <1>1 DEF DrawerInv, DrawerTypeOK
<1>3. PICK c, d : c = call /\ d = call'
  OBVIOUS
<1>4. /\ Newer /\ d \in Calls /\ Sendable(d)'
      /\ d.state \in {"done", "conflict", "unfounded"} /\ d.kind = c.kind
      /\ d.of = c.of /\ d.ver = c.ver /\ d.answer = round'[c.of]
      /\ d.state = "done" /\ c.kind # "role" =>
           c.ver = round[c.of].ver /\ round'[c.of].role = round[c.of].role
      /\ d.state = "done" /\ c.kind \in {"add", "remove"} => round'[c.of].custom = (c.kind = "add")
  <2>1. c \in Calls /\ Sendable(c) /\ Decide(c) /\ d = Decided(c)
    BY <1>1, <1>2, <1>3
  <2> QED BY <1>2, <2>1, Decision
<1>5. DrawerTypeOK'
  <2>1. round' \in [Rounds -> Interviews]
    BY <1>4 DEF Newer
  <2> QED BY <1>1, <1>2, <1>3, <1>4, <2>1 DEF DrawerTypeOK, IsOpen
<1>6. Sendable(call)'
  BY <1>3, <1>4 DEF Sendable
<1>7. Expected'
  <2>1. c.of = drawer.of /\ c.ver = drawer.current.ver /\ UpToDate(drawer.current, drawer.of)
    BY <1>1, <1>2, <1>3 DEF DrawerInv, Expected, Working
  <2>2. d.state = "done" /\ d.kind # "role" => UpToDate(d.answer, d.of)'
    <3>1. round'[c.of].ver \in Int
      BY <1>2, <1>3, <1>4, VersionsAreInts DEF Newer, Calls
    <3> QED BY <1>4, <3>1 DEF UpToDate
  <2>3. d.state = "done" /\ d.kind \in {"add", "remove"} =>
          d.answer.role = drawer.current.role /\ d.answer.custom = (d.kind = "add")
    BY <1>4, <2>1 DEF UpToDate
  <2> QED BY <1>1, <1>3, <1>4, <2>1, <2>2, <2>3 DEF Expected, UpToDate
<1> QED BY <1>1, <1>4, <1>5, <1>6, <1>7, KnownStays, LateStay, WorkStays DEF DrawerInv

LEMMA DecideLateKeeps == ASSUME DrawerInv, DecideLate PROVE DrawerInv'
<1>1. PICK c \in late : /\ Decide(c) /\ late' = (late \ {c}) \cup {Decided(c)}
                        /\ UNCHANGED <<known, drawer, call>>
  BY DEF DecideLate
<1>2. PICK d : d = Decided(c)
  OBVIOUS
<1>3. c \in Calls /\ Sendable(c) /\ DrawerTypeOK
  BY DEF DrawerInv, DrawerTypeOK
<1>4. Newer /\ d \in Calls /\ Sendable(d)'
  BY <1>1, <1>2, <1>3, Decision
<1>5. DrawerTypeOK'
  <2>1. round' \in [Rounds -> Interviews]
    BY <1>4 DEF Newer
  <2> QED BY <1>1, <1>2, <1>3, <1>4, <2>1 DEF DrawerTypeOK, IsOpen
<1>6. (\A e \in late : Sendable(e))'
  <2>1. ASSUME NEW e \in late' PROVE Sendable(e)'
    <3>1. CASE e = d
      BY <1>4, <3>1
    <3>2. CASE e \in late
      BY <1>4, <3>2, OldCallsStay DEF DrawerInv, DrawerTypeOK
    <3> QED BY <1>1, <1>2, <3>1, <3>2
  <2> QED BY <2>1
<1> QED BY <1>1, <1>4, <1>5, <1>6, KnownStays, CallStays, WorkStays, ExpectStays DEF DrawerInv

LEMMA CallLostKeeps == ASSUME DrawerInv, CallLost PROVE DrawerInv'
<1>1. /\ call # Closed /\ call' = [call EXCEPT !.state = "lost"]
      /\ UNCHANGED <<round, known, drawer, late>>
  BY DEF CallLost
<1>2. Newer
  BY <1>1, NothingNewer DEF DrawerInv
<1>3. call \in Calls /\ IsOpen
  BY <1>1 DEF DrawerInv, DrawerTypeOK
<1>4. call' \in Calls /\ call'.state = "lost" /\ call'.of = call.of /\ call'.ver = call.ver
  BY <1>1, <1>3 DEF Calls
<1>5. DrawerTypeOK'
  BY <1>1, <1>3, <1>4 DEF DrawerInv, DrawerTypeOK, IsOpen
<1>6. Sendable(call)' /\ Expected'
  BY <1>1, <1>4 DEF DrawerInv, Sendable, Expected
<1> QED BY <1>1, <1>2, <1>5, <1>6, KnownStays, LateStay, WorkStays DEF DrawerInv

\* What is newer on the server changes nothing in the tab.
LEMMA NewerKeeps ==
    ASSUME DrawerInv, Newer, UNCHANGED <<known, drawer, call, late>>
    PROVE  DrawerInv'
<1>1. DrawerTypeOK'
  <2>1. round' \in [Rounds -> Interviews]
    BY DEF Newer
  <2> QED BY <2>1 DEF DrawerInv, DrawerTypeOK, IsOpen
<1> QED BY <1>1, KnownStays, LateStay, CallStays, WorkStays, ExpectStays DEF DrawerInv

LEMMA ChangedElsewhereKeeps == ASSUME DrawerInv, ChangedElsewhere PROVE DrawerInv'
<1>1. DrawerTypeOK /\ UNCHANGED <<known, drawer, call, late>>
  BY DEF DrawerInv, ChangedElsewhere
<1>2. CASE RoleEverywhere
  BY <1>1, <1>2, RoleIsNewer, NewerKeeps
<1>3. ASSUME NEW r \in Rounds, NEW kind \in {"add", "remove"}, round[r].ver < LastVersion,
             round' = [round EXCEPT ![r] = [Changed(@, [kind |-> kind]) EXCEPT !.ver = round[r].ver + 1]]
      PROVE  Newer
  <2> DEFINE new == Changed(round[r], [kind |-> kind])
  <2>1. round[r] \in Interviews
    BY <1>1 DEF DrawerTypeOK
  <2>2. new \in Interviews /\ new.ver = round[r].ver
    BY <2>1, ItemIsOne
  <2> DEFINE newer == [new EXCEPT !.ver = round[r].ver + 1]
  <2>3. round' = [round EXCEPT ![r] = newer]
    BY <1>3
  <2>4. newer \in Interviews /\ newer.ver > round[r].ver
    <3> HIDE DEF new
    <3>1. new.ver \in 1..LastVersion /\ new.ver + 1 \in 1..LastVersion
      BY <1>3, <2>1, <2>2, DrawerAssumption DEF Interviews
    <3> QED BY <2>2, <3>1, DrawerAssumption DEF Interviews
  <2> HIDE DEF newer
  <2> QED BY <1>1, <2>3, <2>4 DEF Newer, DrawerTypeOK
<1> QED BY <1>1, <1>2, <1>3, NewerKeeps DEF ChangedElsewhere

LEMMA DrawerStep == DrawerInv /\ [DrawerNext]_drawerVars => DrawerInv'
<1> SUFFICES ASSUME DrawerInv, [DrawerNext]_drawerVars PROVE DrawerInv'
  OBVIOUS
<1>1. CASE Refetch
  BY <1>1, RefetchKeeps
<1>2. ASSUME NEW r \in Rounds, Open(r) PROVE DrawerInv'
  BY <1>2, OpenKeeps
<1>3. ASSUME NEW item \in Items, Toggle(item) PROVE DrawerInv'
  BY <1>3, ToggleKeeps
<1>4. ASSUME NEW text \in Texts, WriteNotes(text) \/ WriteReflection(text) PROVE DrawerInv'
  BY <1>4, WriteKeeps DEF WriteNotes, WriteReflection, Preparing
<1>5. CASE EditReflection
  BY <1>5, EditKeeps
<1>6. CASE CancelReflectionEdit
  BY <1>6, CancelKeeps
<1>7. CASE Close \/ Discard \/ HandedOff
  BY <1>7, ShutKeeps DEF Close, Discard, HandedOff
<1>8. CASE Save
  BY <1>8, SaveKeeps
<1>9. CASE AddCustomItem \/ RemoveCustomItem \/ ApplyRoleFocus
  BY <1>9, ItemCallKeeps
<1>10. CASE SaveHeard
  BY <1>10, SaveHeardKeeps
<1>11. CASE ItemHeard
  BY <1>11, ItemHeardKeeps
<1>12. CASE RoleHeard \/ Refused
  BY <1>12, RefusedKeeps
<1>13. CASE LateHeard
  BY <1>13, LateHeardKeeps
<1>14. CASE DecideOpen
  BY <1>14, DecideOpenKeeps
<1>15. CASE DecideLate
  BY <1>15, DecideLateKeeps
<1>16. CASE CallLost
  BY <1>16, CallLostKeeps
<1>17. CASE ChangedElsewhere
  BY <1>17, ChangedElsewhereKeeps
<1>18. CASE UNCHANGED drawerVars
  BY <1>18, NewerKeeps, NothingNewer DEF drawerVars, DrawerInv
<1> QED BY <1>1, <1>2, <1>3, <1>4, <1>5, <1>6, <1>7, <1>8, <1>9, <1>10, <1>11, <1>12, <1>13,
           <1>14, <1>15, <1>16, <1>17, <1>18 DEF DrawerNext

LEMMA DrawerInvHolds == DrawerSpec => []DrawerInv
<1>1. DrawerInit => DrawerInv
  BY DrawerInitInv
<1>2. DrawerInv /\ [DrawerNext]_drawerVars => DrawerInv'
  BY DrawerStep
<1> QED BY <1>1, <1>2, PTL DEF DrawerSpec

(***************************************************************************)
(* Every variable of the drawer has its type: the drawer works on a whole  *)
(* interview, and waits for nothing when it is closed.                     *)
(***************************************************************************)
THEOREM DrawerTyped == DrawerSpec => []DrawerTypeOK
<1>1. DrawerInv => DrawerTypeOK
  BY DEF DrawerInv
<1> QED BY <1>1, DrawerInvHolds, PTL

(***************************************************************************)
(* SavesKnownItems: no save names an unknown item.  A draft ticks only     *)
(* what the drawer's own copy has, and a copy that is not the server's     *)
(* interview is of an earlier version of it, so that its save is a         *)
(* conflict before its items are looked at.                                *)
(***************************************************************************)
THEOREM SavesAreKnown == DrawerSpec => []SavesKnownItems
<1>1. DrawerInv => SavesKnownItems
  BY DEF DrawerInv, SavesKnownItems, Sendable, Waiting
<1> QED BY <1>1, DrawerInvHolds, PTL

-----------------------------------------------------------------------------
(***************************************************************************)
(* The form that adds an opportunity.                                      *)
(***************************************************************************)

(***************************************************************************)
(* What is asked and answered is about what the form holds; only a form    *)
(* that is open holds anything; and leaving goes unasked only while the    *)
(* form's own request is under way.                                        *)
(***************************************************************************)
Asked ==
    /\ wanted # None => wanted = entered.what
    /\ advice # None => advice.on = entered.what

Empty == entered = Defaults /\ allow = FALSE /\ timer = FALSE /\ wanted = None /\ advice = None

Confined == (place # "form" => Empty) /\ (blocked => place = "form" /\ Blocks)

Excused == allow => Adding

CaptureInv == CaptureTypeOK /\ Asked /\ Confined /\ Excused

\* A server with room for one more has room for one more of each job.
LEMMA RoomForOne ==
    ASSUME tracked \in [Jobs -> 0..MaxAdds], Total < MaxAdds, NEW j \in Jobs
    PROVE  tracked[j] < MaxAdds
<1> DEFINE Counted == {p \in Jobs \X (1..MaxAdds) : p[2] <= tracked[p[1]]}
           Row == {<<j, n>> : n \in 1..MaxAdds}
<1>1. SUFFICES ASSUME tracked[j] = MaxAdds PROVE FALSE
  BY CaptureAssumption
<1>2. Row \subseteq Counted
  BY <1>1, CaptureAssumption
<1>3. IsFiniteSet(Counted)
  <2>1. IsFiniteSet(Jobs \X (1..MaxAdds))
    <3>1. MaxAdds \in Int /\ 1 \in Int /\ IsFiniteSet(Jobs)
      BY CaptureAssumption
    <3>2. IsFiniteSet(1..MaxAdds)
      BY <3>1, FS_Interval
    <3> QED BY <3>1, <3>2, FS_Product
  <2> QED BY <2>1, FS_Subset, Counted \subseteq Jobs \X (1..MaxAdds)
<1>4. Cardinality(Row) = MaxAdds
  <2>1. IsFiniteSet(1..MaxAdds) /\ Cardinality(1..MaxAdds) = MaxAdds
    BY CaptureAssumption, FS_Interval
  <2> DEFINE f == [n \in 1..MaxAdds |-> <<j, n>>]
  <2>2. f \in Bijection(1..MaxAdds, Row)
    BY Zenon DEF Bijection, Injection, Surjection, IsInjective
  <2>3. ExistsBijection(1..MaxAdds, Row)
    BY <2>2 DEF ExistsBijection
  <2> QED BY <2>1, <2>3, FS_Bijection
<1>5. Cardinality(Row) <= Cardinality(Counted)
  <2> HIDE DEF Row, Counted
  <2> QED BY <1>2, <1>3, FS_Subset
<1>6. Total = Cardinality(Counted)
  BY DEF Total
<1>7. Cardinality(Counted) \in Nat
  <2> HIDE DEF Counted
  <2> QED BY <1>3, FS_CardinalityType
<1> HIDE DEF Row, Counted
<1> QED BY <1>4, <1>5, <1>6, <1>7, CaptureAssumption

LEMMA CaptureInitInv == CaptureInit => CaptureInv
<1> SUFFICES ASSUME CaptureInit PROVE CaptureInv
  OBVIOUS
<1> USE DEF CaptureInit
<1>1. CaptureTypeOK
  <2>1. entered \in Entries
    BY DEF Entries, Defaults, Stages, Dates
  <2>2. tracked \in [Jobs -> 0..MaxAdds]
    BY CaptureAssumption
  <2> QED BY <2>1, <2>2 DEF CaptureTypeOK
<1>2. Asked /\ Confined /\ Excused
  BY DEF Asked, Confined, Excused, Adding, Blocks, IsDirty
<1> QED BY <1>1, <1>2 DEF CaptureInv

\* Of the conjuncts of the invariant, a step that neither empties the form
\* nor leaves it keeps those that it does not touch.
LEMMA EmptiedIsEmpty ==
    ASSUME CaptureInv, Emptied
    PROVE  /\ Empty' /\ details' = FALSE
           /\ entered' \in Entries /\ Asked' /\ Excused'
BY CaptureAssumption DEF Emptied, Empty, Defaults, Entries, Asked, Excused, Stages, Dates, Evidence

LEMMA CaptureStep == CaptureInv /\ [CaptureNext]_captureVars => CaptureInv'
<1> SUFFICES ASSUME CaptureInv, [CaptureNext]_captureVars PROVE CaptureInv'
  OBVIOUS
<1>t. CaptureTypeOK /\ Asked /\ Confined /\ Excused
  BY DEF CaptureInv
<1> USE <1>t, CaptureAssumption DEF pageVars, adviceVars, CaptureInv
<1>1. ASSUME NEW what \in Evidence \cup {None}, EnterEvidence(what) PROVE CaptureInv'
  <2>1. entered' = [entered EXCEPT !.what = what] /\ place = "form" /\ wanted' = None /\ advice' = None
    BY <1>1 DEF EnterEvidence, Usable, Reconsidered
  <2>2. CaptureTypeOK'
    BY <1>1, <2>1 DEF EnterEvidence, Reconsidered, CaptureTypeOK, Entries
  <2> QED BY <1>1, <2>1, <2>2 DEF EnterEvidence, Usable, Asked, Confined, Excused, Adding, Blocks, IsDirty
<1>2. ASSUME NEW stage \in Stages, ChooseStatus(stage) PROVE CaptureInv'
  <2>1. entered' \in Entries /\ entered'.what = entered.what
    BY <1>2 DEF ChooseStatus, CaptureTypeOK, Entries, Dates
  <2> QED BY <1>2, <2>1 DEF ChooseStatus, Usable, CaptureTypeOK, Asked, Confined, Excused, Adding, Blocks, IsDirty
<1>3. ASSUME NEW date \in Dates, EnterDate(date) PROVE CaptureInv'
  <2>1. entered' \in Entries /\ entered'.what = entered.what
    BY <1>3 DEF EnterDate, CaptureTypeOK, Entries
  <2> QED BY <1>3, <2>1 DEF EnterDate, Usable, CaptureTypeOK, Asked, Confined, Excused, Adding, Blocks, IsDirty
<1>4. CASE ToggleDetails
  BY <1>4 DEF ToggleDetails, CaptureTypeOK, Asked, Confined, Empty, Excused, Adding, Blocks, IsDirty
<1>5. CASE AdviceTimer
  BY <1>5 DEF AdviceTimer, CaptureTypeOK, Entries, Asked, Confined, Excused, Adding, Blocks, IsDirty
<1>6. CASE AdviceArrives
  <2>1. wanted \in Evidence /\ wanted = entered.what
    BY <1>6 DEF AdviceArrives, CaptureTypeOK, Asked
  <2>2. advice' \in Advices /\ advice'.on = wanted
    BY <1>6, <2>1 DEF AdviceArrives, Advices, Candidates
  <2> QED BY <1>6, <2>1, <2>2 DEF AdviceArrives, CaptureTypeOK, Asked, Confined, Excused, Adding, Blocks, IsDirty
<1>7. CASE Submit
  <2>1. adding' \in Additions /\ adding'.mine
    BY <1>7 DEF Submit, Valid, ToCreateRequest, Additions, CaptureTypeOK, Entries, Dates
  <2> QED BY <1>7, <2>1 DEF Submit, Usable, CaptureTypeOK, Asked, Confined, Excused, Adding, Blocks, IsDirty
<1>8. CASE SubmitInvalid
  BY <1>8 DEF SubmitInvalid, CaptureTypeOK, Asked, Confined, Empty, Excused, Adding, Blocks, IsDirty
<1>9. CASE Created
  <2>1. adding' \in Additions /\ adding'.mine = adding.mine /\ adding.request.what \in Jobs
    BY <1>9 DEF Created, CaptureTypeOK, Additions
  <2>2. tracked' \in [Jobs -> 0..MaxAdds]
    BY <1>9, <2>1, RoomForOne DEF Created, CaptureTypeOK
  <2> QED BY <1>9, <2>1, <2>2 DEF Created, CaptureTypeOK, Asked, Confined, Empty, Excused, Adding, Blocks, IsDirty
<1>10. CASE AddFails
  BY <1>10 DEF AddFails, CaptureTypeOK, Asked, Confined, Empty, Excused, Adding, Blocks, IsDirty
<1>11. CASE AddHeard
  <2>1. Empty' /\ details' = FALSE /\ entered' \in Entries /\ Asked' /\ Excused'
    BY <1>11, EmptiedIsEmpty DEF AddHeard
  <2> QED BY <1>11, <2>1 DEF AddHeard, CaptureTypeOK, Empty, Confined, Blocks, IsDirty
<1>12. CASE AddHeardLate
  <2>1. CASE ~ adding.returns
    BY <1>12, <2>1 DEF AddHeardLate, CaptureTypeOK, Asked, Confined, Empty, Excused, Adding, Blocks, IsDirty
  <2>2. CASE adding.returns /\ place = "form" /\ Blocks
    BY <1>12, <2>2 DEF AddHeardLate, CaptureTypeOK, Asked, Confined, Excused, Adding, Blocks, IsDirty
  <2>3. CASE adding.returns /\ ~ (place = "form" /\ Blocks)
    <3>1. Empty' /\ details' = FALSE /\ entered' \in Entries /\ Asked' /\ Excused'
      BY <1>12, <2>3, EmptiedIsEmpty DEF AddHeardLate
    <3> QED BY <1>12, <2>3, <3>1 DEF AddHeardLate, CaptureTypeOK, Empty, Confined, Blocks, IsDirty
  <2> QED BY <2>1, <2>2, <2>3
<1>13. ASSUME Left, UNCHANGED <<returns, added, tracked>> PROVE CaptureInv'
  <2>1. Empty' /\ details' = FALSE /\ entered' \in Entries /\ Asked' /\ Excused'
    BY <1>13, EmptiedIsEmpty DEF Left
  <2>2. adding' \in Additions \cup {None}
    BY <1>13 DEF Left, CaptureTypeOK, Additions
  <2> QED BY <1>13, <2>1, <2>2 DEF Left, CaptureTypeOK, Empty, Confined, Blocks, IsDirty
<1>14. CASE Leave
  <2>1. CASE Blocks
    BY <1>14, <2>1 DEF Leave, Usable, CaptureTypeOK, Asked, Confined, Excused, Adding, Blocks, IsDirty
  <2> QED BY <1>13, <1>14, <2>1 DEF Leave
<1>15. CASE KeepEditing
  BY <1>15 DEF KeepEditing, CaptureTypeOK, Asked, Confined, Empty, Excused, Adding, Blocks, IsDirty
<1>16. CASE Proceed
  BY <1>13, <1>16 DEF Proceed
<1>17. CASE OpenForm
  <2>1. Empty' /\ details' = FALSE /\ entered' \in Entries /\ Asked' /\ Excused'
    BY <1>17, EmptiedIsEmpty DEF OpenForm
  <2> QED BY <1>17, <2>1 DEF OpenForm, CaptureTypeOK, Empty, Confined, Blocks, IsDirty
<1>18. CASE UNCHANGED captureVars
  BY <1>18 DEF captureVars, CaptureTypeOK, Asked, Confined, Empty, Excused, Adding, Blocks, IsDirty
<1> QED BY <1>1, <1>2, <1>3, <1>4, <1>5, <1>6, <1>7, <1>8, <1>9, <1>10, <1>11, <1>12, <1>14, <1>15, <1>16, <1>17, <1>18
        DEF CaptureNext, Entering

LEMMA CaptureInductive == CaptureSpec => []CaptureInv
BY CaptureInitInv, CaptureStep, PTL DEF CaptureSpec

\* The types of OpportunityCapture are kept.
THEOREM CaptureTyped == CaptureSpec => []CaptureTypeOK
<1>1. CaptureInv => CaptureTypeOK
  BY DEF CaptureInv
<1> QED BY <1>1, CaptureInductive, PTL

(***************************************************************************)
(* The advice is never about anything but what is entered, however late    *)
(* the timer and the request are.                                          *)
(***************************************************************************)
THEOREM AdviceFollowsEntry == CaptureSpec => []AdviceIsForEntered
<1>1. CaptureInv => AdviceIsForEntered
  BY DEF CaptureInv, Asked, Confined, Empty, AdviceIsForEntered
<1> QED BY <1>1, CaptureInductive, PTL

(***************************************************************************)
(* Entered details are never lost without consent: a form that may be left *)
(* unasked is empty or has its own request under way.                      *)
(***************************************************************************)
THEOREM EntryIsKept == CaptureSpec => EnteredKept
<1> DEFINE Kept == IsDirty /\ entered' = Defaults => Entering \/ Proceed \/ Adding
<1>1. CaptureInv /\ [CaptureNext]_captureVars => [Kept]_captureVars
  <2> SUFFICES ASSUME CaptureInv, CaptureNext, IsDirty, entered' = Defaults, ~ Entering, ~ Proceed PROVE Adding
    OBVIOUS
  <2>1. entered' # entered
    BY DEF IsDirty
  <2>2. place = "form" /\ (~ Blocks => Adding)
    BY DEF CaptureInv, Confined, Empty, Excused, Blocks, IsDirty
  <2>3. AddHeard \/ AddHeardLate \/ Leave \/ OpenForm
    BY <2>1 DEF CaptureNext, ToggleDetails, AdviceTimer, AdviceArrives, Submit, SubmitInvalid, Created,
       AddFails, KeepEditing
  <2>4. ~ OpenForm
    BY <2>2 DEF OpenForm
  <2>5. Leave => ~ Blocks
    BY <2>1 DEF Leave
  <2>6. AddHeardLate => ~ Blocks
    BY <2>1, <2>2 DEF AddHeardLate
  <2> QED BY <2>2, <2>3, <2>4, <2>5, <2>6 DEF AddHeard
<1> QED BY CaptureInductive, <1>1, PTL DEF CaptureSpec, EnteredKept

-----------------------------------------------------------------------------
(***************************************************************************)
(* The frame of the workspace.                                             *)
(***************************************************************************)

(***************************************************************************)
(* As long as no event closed two overlays, the lowest of those that are   *)
(* open found the page scrolling, and the one above it found it stopped.   *)
(***************************************************************************)
Layered ==
    ~ together =>
        /\ open = <<>> => overflow = "scroll"
        /\ open # <<>> => overflow = "hidden" /\ found[open[1]] = "scroll"
        /\ Len(open) = 2 => found["exit"] = "hidden"

ShellInv == ShellTypeOK /\ Layered

LEMMA OverlaysAre == Overlays = {"tablet", "page", "more", "reset", "exit"}
<1>1. 1..5 = {1, 2, 3, 4, 5}
  OBVIOUS
<1>2. Overlays = {Tree[1], Tree[2], Tree[3], Tree[4], Tree[5]}
  BY <1>1 DEF Overlays
<1> QED BY <1>2 DEF Tree

LEMMA ShowingOne ==
    ASSUME NEW o \in Overlays, open = <<o>>
    PROVE  Showing = {o} /\ Top = o /\ Len(open) = 1 /\ open # <<>> /\ SubSeq(open, 1, Len(open) - 1) = <<>>
<1>1. Len(open) = 1 /\ open[1] = o /\ open # <<>>
  OBVIOUS
<1>2. 1..1 = {1}
  OBVIOUS
<1> QED BY <1>1, <1>2 DEF Showing, Top

LEMMA ShowingTwo ==
    ASSUME NEW o \in {"more", "reset"}, open = <<o, "exit">>
    PROVE  Showing = {o, "exit"} /\ Top = "exit" /\ Len(open) = 2 /\ open # <<>> /\ SubSeq(open, 1, Len(open) - 1) = <<o>>
<1>1. Len(open) = 2 /\ open[1] = o /\ open[2] = "exit" /\ open # <<>>
  OBVIOUS
<1>2. 1..2 = {1, 2}
  OBVIOUS
<1>3. SubSeq(open, 1, 1) = <<o>>
  <2>1. open \in Seq({o, "exit"}) /\ <<o>> \in Seq({o, "exit"}) /\ Len(<<o>>) = 1
    OBVIOUS
  <2>2. /\ SubSeq(open, 1, 1) \in Seq({o, "exit"}) /\ Len(SubSeq(open, 1, 1)) = 1
        /\ SubSeq(open, 1, 1)[1] = o
    <3>1. \A i \in 1..1 : open[i] \in {o, "exit"}
      BY <1>1
    <3> QED BY <1>1, <3>1, SubSeqProperties
  <2> DEFINE cut == SubSeq(open, 1, 1)
             one == <<o>>
  <2>3. cut \in Seq({o, "exit"}) /\ one \in Seq({o, "exit"}) /\ Len(cut) = Len(one)
        /\ \A i \in 1..Len(cut) : cut[i] = one[i]
    BY <2>1, <2>2
  <2> HIDE DEF cut, one
  <2>4. cut = one
    BY <2>3, SeqEqual
  <2> QED BY <2>4 DEF cut, one
<1> QED BY <1>1, <1>2, <1>3 DEF Showing, Top

LEMMA EmptyLen == Len(<<>>) = 0
OBVIOUS

LEMMA ShowingNone ==
    ASSUME open = <<>>
    PROVE  Showing = {} /\ Len(open) = 0
<1>1. 1..0 = {}
  OBVIOUS
<1> QED BY <1>1 DEF Showing

LEMMA LastOfOne == ASSUME NEW o \in Overlays PROVE LastInTree({o}) = o
<1>1. \E i \in 1..5 : Tree[i] = o
  BY DEF Overlays
<1>2. Depth(o) \in 1..5
  BY <1>1 DEF Depth
<1> QED BY <1>2 DEF LastInTree

LEMMA LastOfTwo == ASSUME NEW o \in {"more", "reset"} PROVE LastInTree({o, "exit"}) = "exit"
<1>1. Depth("exit") = 5
  BY DEF Depth, Tree
<1>2. Depth("more") = 3 /\ Depth("reset") = 4
  BY DEF Depth, Tree
<1>3. \A p \in {o, "exit"} : Depth(p) <= 5 /\ (Depth(p) >= 5 => p = "exit")
  BY <1>1, <1>2
<1>4. \E p \in {o, "exit"} : \A q \in {o, "exit"} : Depth(q) <= Depth(p)
  BY <1>1, <1>3
<1> QED BY <1>1, <1>3, <1>4 DEF LastInTree

\* What is open, read off its shape.
LEMMA Shapes ==
    ASSUME ShellInv
    PROVE  \/ open = <<>> /\ Showing = {} /\ Len(open) = 0
           \/ \E o \in Overlays :
                /\ open = <<o>> /\ Showing = {o} /\ Top = o /\ Len(open) = 1 /\ open # <<>>
                /\ SubSeq(open, 1, Len(open) - 1) = <<>>
           \/ \E o \in {"more", "reset"} :
                /\ open = <<o, "exit">> /\ Showing = {o, "exit"} /\ Top = "exit" /\ Len(open) = 2 /\ open # <<>>
                /\ SubSeq(open, 1, Len(open) - 1) = <<o>>
<1>1. open \in Stacks
  BY DEF ShellInv, ShellTypeOK
<1>2. CASE open = <<>>
  BY <1>2, ShowingNone
<1>3. ASSUME NEW o \in Overlays, open = <<o>>
      PROVE  /\ Showing = {o} /\ Top = o /\ Len(open) = 1 /\ open # <<>>
             /\ SubSeq(open, 1, Len(open) - 1) = <<>>
  BY <1>3, ShowingOne
<1>4. ASSUME NEW o \in {"more", "reset"}, open = <<o, "exit">>
      PROVE  /\ Showing = {o, "exit"} /\ Top = "exit" /\ Len(open) = 2 /\ open # <<>>
             /\ SubSeq(open, 1, Len(open) - 1) = <<o>>
  BY <1>4, ShowingTwo
<1> QED BY <1>1, <1>2, <1>3, <1>4 DEF Stacks

\* Tearing the frame down gives the page back as it was found.
LEMMA TornRestores ==
    ASSUME ShellInv
    PROVE  Torn \in {"scroll", "hidden"} /\ (~ together /\ Len(open) <= 1 => Torn = "scroll")
<1>1. CASE open = <<>> /\ Showing = {} /\ Len(open) = 0
  <2>1. Torn = overflow
    BY <1>1 DEF Torn, AfterClosing, LastInTree
  <2> QED BY <1>1, <2>1 DEF ShellInv, ShellTypeOK, Layered
<1>2. ASSUME NEW o \in Overlays, open = <<o>>, Showing = {o}, open # <<>> PROVE Torn = found[o] /\ o = open[1]
  BY <1>2, LastOfOne, OverlaysAre DEF Torn, AfterClosing, Restored
<1>3. ASSUME NEW o \in {"more", "reset"}, Showing = {o, "exit"} PROVE Torn = found["exit"]
  BY <1>3, LastOfTwo DEF Torn, AfterClosing, Restored
<1>4. "exit" \in Overlays
  BY OverlaysAre
<1> QED BY <1>1, <1>2, <1>3, <1>4, Shapes DEF ShellInv, ShellTypeOK, Layered

\* One overlay on a page that scrolls, alone or over what is closed first.
LEMMA OpensOne ==
    ASSUME ShellInv, NEW o \in Overlays, NEW before \in {"scroll", "hidden"}, Opened(o, before, <<>>)
    PROVE  /\ open' = <<o>> /\ open' \in Stacks /\ open' # <<>> /\ Len(open') = 1 /\ open'[1] = o
           /\ overflow' = "hidden" /\ found' \in [Overlays -> {"scroll", "hidden"}] /\ found'[o] = before
<1>1. Append(<<>>, o) = <<o>>
  OBVIOUS
<1>2. open' = <<o>>
  BY <1>1 DEF Opened
<1> QED BY <1>2 DEF Opened, Stacks, ShellInv, ShellTypeOK

LEMMA ShellInitInv == ShellInit => ShellInv
<1> SUFFICES ASSUME ShellInit PROVE ShellInv
  OBVIOUS
<1>1. open \in Stacks
  BY DEF ShellInit, Stacks
<1>2. found \in [Overlays -> {"scroll", "hidden"}]
  BY DEF ShellInit
<1>3. Layered
  BY EmptyLen DEF ShellInit, Layered
<1>4. ShellTypeOK
  BY <1>1, <1>2 DEF ShellInit, ShellTypeOK
<1> QED BY <1>3, <1>4 DEF ShellInv

\* Nothing is left open.
LEMMA NoneLeft ==
    ASSUME open' = <<>>, together' \/ overflow' = "scroll"
    PROVE  open' \in Stacks /\ Layered'
<1>1. Len(open') = 0
  BY EmptyLen
<1> QED BY <1>1 DEF Layered, Stacks

\* One overlay is open, over a page that was found as `before'.
LEMMA OneLeft ==
    ASSUME NEW o \in Overlays, open' = <<o>>, overflow' = "hidden", together' \/ found'[o] = "scroll"
    PROVE  open' \in Stacks /\ Layered'
<1>1. Len(open') = 1 /\ open'[1] = o /\ open' # <<>>
  OBVIOUS
<1> QED BY <1>1 DEF Layered, Stacks

LEMMA GoneKeeps == ASSUME ShellInv, Gone PROVE ShellInv'
<1>1. Torn \in {"scroll", "hidden"} /\ (~ together /\ Len(open) <= 1 => Torn = "scroll")
  BY TornRestores
<1>2. Len(open) \in 0..2
  BY Shapes
<1>3. open' \in Stacks /\ Layered'
  <2>1. overflow' = Torn /\ (together' <=> together \/ Len(open) > 1)
    BY DEF Gone, ShellInv, ShellTypeOK
  <2>2. ~ (Len(open) > 1) => Len(open) <= 1
    BY <1>2
  <2>3. together' \/ overflow' = "scroll"
    BY <1>1, <2>1, <2>2
  <2> QED BY <2>3, NoneLeft DEF Gone
<1>4. ShellTypeOK'
  <2>1. together' \in BOOLEAN
    BY DEF Gone, ShellInv, ShellTypeOK
  <2> QED BY <1>1, <1>3, <2>1 DEF Gone, ShellInv, ShellTypeOK
<1> QED BY <1>3, <1>4 DEF ShellInv

LEMMA ReplacedKeeps ==
    ASSUME ShellInv, open = <<"reset">>, Replaced
    PROVE  open' = <<"reset">> /\ Layered' /\ together' \in BOOLEAN /\ overflow' = "hidden"
           /\ found' \in [Overlays -> {"scroll", "hidden"}]
<1>1. Showing = {"reset"} /\ Len(open) = 1
  BY ShowingOne, OverlaysAre
<1>2. Torn \in {"scroll", "hidden"} /\ (~ together => Torn = "scroll")
  BY <1>1, TornRestores
<1>3. Opened("reset", Torn, <<>>) /\ together' = together
  BY <1>1 DEF Replaced, ShellInv, ShellTypeOK
<1> QED BY <1>2, <1>3, OpensOne, OverlaysAre DEF Layered, ShellInv, ShellTypeOK

LEMMA ShellStep == ShellInv /\ [ShellNext]_shellVars => ShellInv'
<1> SUFFICES ASSUME ShellInv, [ShellNext]_shellVars PROVE ShellInv'
  OBVIOUS
<1>t. ShellTypeOK /\ Layered
  BY DEF ShellInv
<1>o. "reset" \in Overlays /\ "exit" \in Overlays /\ "more" \in Overlays /\ "tablet" \in Overlays /\ "page" \in Overlays
  BY OverlaysAre
<1>1. CASE OpenFromPage
  <2>1. PICK o \in Overlays : OpenOverlay(o) /\ open = <<>> /\ status = "ready"
    BY <1>1, <1>o DEF OpenFromPage, Uncovered
  <2>2. Opened(o, overflow, <<>>) /\ UNCHANGED <<status, error, unsaved, together>>
    BY <2>1 DEF OpenOverlay
  <2>3. error = FALSE /\ (~ together => overflow = "scroll")
    BY <1>t, <2>1 DEF ShellTypeOK, Layered
  <2>4. /\ open' = <<o>> /\ overflow' = "hidden" /\ found' \in [Overlays -> {"scroll", "hidden"}]
        /\ found'[o] = overflow
    BY <1>t, <2>2, OpensOne DEF ShellTypeOK
  <2>5. open' \in Stacks /\ Layered'
    BY <2>2, <2>3, <2>4, OneLeft DEF ShellTypeOK
  <2> QED BY <1>t, <2>1, <2>2, <2>3, <2>4, <2>5 DEF ShellInv, ShellTypeOK
<1>2. CASE CloseOverlay
  <2>1. ASSUME NEW o \in Overlays, open = <<o>>, Top = o, SubSeq(open, 1, Len(open) - 1) = <<>> PROVE ShellInv'
    <3>1. open' = <<>> /\ overflow' = found[o] /\ UNCHANGED <<status, unsaved, found, together>>
      BY <1>2, <2>1 DEF CloseOverlay, CloseTop, Restored
    <3>2. error' = FALSE /\ status # "switching"
      BY <1>2, <1>t, <2>1 DEF CloseOverlay, OnTop, ShellTypeOK
    <3>3. ~ together => found[o] = "scroll"
      BY <1>t, <2>1 DEF Layered
    <3>4. open' \in Stacks /\ Layered'
      BY <3>1, <3>3, NoneLeft
    <3> QED BY <1>t, <3>1, <3>2, <3>4 DEF ShellInv, ShellTypeOK
  <2>2. ASSUME NEW o \in {"more", "reset"}, open = <<o, "exit">>, Top = "exit", Len(open) = 2,
               SubSeq(open, 1, Len(open) - 1) = <<o>> PROVE ShellInv'
    <3>1. open' = <<o>> /\ overflow' = found["exit"] /\ UNCHANGED <<status, unsaved, found, together, error>>
      BY <1>2, <2>2 DEF CloseOverlay, CloseTop, Restored, OnTop
    <3>2. status # "switching"
      BY <1>t, <2>2 DEF ShellTypeOK
    <3>3. error => o = "reset"
      BY <1>t, <2>2 DEF ShellTypeOK
    <3>4. open' \in Stacks /\ open' # <<>> /\ open'[1] = o /\ Len(open') = 1
      BY <1>o, <3>1 DEF Stacks
    <3>5. ~ together => found["exit"] = "hidden" /\ found[o] = "scroll"
      BY <1>t, <2>2 DEF Layered
    <3> QED BY <1>t, <1>o, <2>2, <3>1, <3>2, <3>3, <3>4, <3>5 DEF ShellInv, ShellTypeOK, Layered
  <2> QED BY <1>2, <2>1, <2>2, Shapes DEF CloseOverlay
<1>3. CASE RequestReset
  <2>1. open = <<"more">>
    BY <1>3, Shapes DEF RequestReset, OnTop
  <2>2. error = FALSE /\ status # "switching" /\ found["more"] \in {"scroll", "hidden"}
        /\ (~ together => found["more"] = "scroll")
    BY <1>t, <1>o, <2>1 DEF ShellTypeOK, Layered
  <2>3. /\ open' = <<"reset">> /\ overflow' = "hidden" /\ found' \in [Overlays -> {"scroll", "hidden"}]
        /\ found'["reset"] = found["more"]
    BY <1>3, <1>o, <2>2, OpensOne DEF RequestReset, Restored
  <2>4. open' \in Stacks /\ Layered'
    BY <1>3, <1>o, <2>2, <2>3, OneLeft DEF RequestReset
  <2> QED BY <1>3, <1>t, <2>2, <2>3, <2>4 DEF RequestReset, ShellInv, ShellTypeOK
<1>4. CASE Escape
  <2>1. status # "switching"
    BY <1>4, <1>t, ShowingOne, <1>o DEF Escape, OnTop, ShellTypeOK
  <2>2. error' = FALSE
    BY <1>4, <1>t, ShowingOne, ShowingTwo, <1>o DEF Escape, ShellTypeOK
  <2>0. open # <<>>
    BY <1>4 DEF Escape
  <2>3. Top \in Overlays /\ Len(open) \in 1..2 /\ (Len(open) = 1 => Top = open[1])
    <3>1. ASSUME NEW o \in Overlays, open = <<o>>, Top = o, Len(open) = 1
          PROVE  Top \in Overlays /\ Len(open) \in 1..2 /\ Top = open[1]
      BY <3>1
    <3>2. ASSUME Top = "exit", Len(open) = 2 PROVE Top \in Overlays /\ Len(open) \in 1..2 /\ Len(open) # 1
      BY <3>2, <1>o
    <3> QED BY <2>0, <3>1, <3>2, Shapes
  <2>4. open' = <<>> /\ overflow' = found[Top] /\ together' = (together \/ Len(open) > 1)
        /\ UNCHANGED <<status, unsaved, found>> /\ open # <<>>
    BY <1>4 DEF Escape, Restored
  <2>5. together' \/ overflow' = "scroll"
    <3>1. CASE Len(open) = 1
      BY <1>t, <2>3, <2>4, <3>1 DEF Layered
    <3>2. CASE Len(open) = 2
      <4>1. Len(open) > 1
        BY <3>2
      <4> QED BY <1>t, <2>4, <4>1 DEF ShellTypeOK
    <3> QED BY <2>3, <3>1, <3>2
  <2>6. open' \in Stacks /\ Layered'
    BY <2>4, <2>5, NoneLeft
  <2>7. together' \in BOOLEAN /\ overflow' \in {"scroll", "hidden"}
    BY <1>t, <2>3, <2>4 DEF ShellTypeOK
  <2> QED BY <1>t, <2>1, <2>2, <2>4, <2>6, <2>7 DEF ShellInv, ShellTypeOK
<1>5. CASE ResetWorkspace
  <2>1. open = <<"reset">>
    BY <1>5, Shapes DEF ResetWorkspace, OnTop
  <2> QED BY <1>5, <1>t, <2>1, ReplacedKeeps DEF ResetWorkspace, ShellInv, ShellTypeOK, Stacks
<1>6. CASE ResetDone
  <2>1. open = <<"reset">>
    BY <1>6, <1>t DEF ResetDone, ShellTypeOK
  <2>2. Len(open) = 1
    BY <2>1
  <2>4. Torn \in {"scroll", "hidden"} /\ (~ together => Torn = "scroll")
    BY <2>2, TornRestores
  <2>5. open' \in Stacks /\ Layered'
    <3>1. together \in BOOLEAN
      BY <1>t DEF ShellTypeOK
    <3> QED BY <1>6, <2>4, <3>1, NoneLeft DEF ResetDone
  <2>6. error = FALSE
    BY <1>6, <1>t DEF ResetDone, ShellTypeOK
  <2> QED BY <1>6, <1>t, <2>4, <2>5, <2>6 DEF ResetDone, ShellInv, ShellTypeOK
<1>7. CASE ResetFails
  <2>1. open = <<"reset">>
    BY <1>7, <1>t DEF ResetFails, ShellTypeOK
  <2> QED BY <1>7, <1>t, <2>1, ReplacedKeeps DEF ResetFails, ShellInv, ShellTypeOK, Stacks
<1>8. CASE ExitWorkspace
  <2>1. CASE ~ unsaved
    BY <1>8, <2>1, GoneKeeps DEF ExitWorkspace
  <2>2. CASE unsaved /\ open = <<>>
    <3>1. Opened("exit", overflow, <<>>) /\ UNCHANGED <<status, error, unsaved, together>> /\ status = "ready"
      BY <1>8, <2>2 DEF ExitWorkspace, ExitOffered, OpenOverlay
    <3>2. error = FALSE /\ overflow \in {"scroll", "hidden"} /\ (~ together => overflow = "scroll")
      BY <1>t, <2>2 DEF ShellTypeOK, Layered
    <3>3. /\ open' = <<"exit">> /\ overflow' = "hidden" /\ found' \in [Overlays -> {"scroll", "hidden"}]
          /\ found'["exit"] = overflow
      BY <1>o, <3>1, <3>2, OpensOne
    <3>4. open' \in Stacks /\ Layered'
      BY <1>o, <3>1, <3>2, <3>3, OneLeft
    <3> QED BY <1>t, <3>1, <3>2, <3>3, <3>4 DEF ShellInv, ShellTypeOK
  <2>3. CASE unsaved /\ open # <<>>
    <3>1. PICK o \in {"more", "reset"} : open = <<o>>
      BY <1>8, <2>3, Shapes DEF ExitWorkspace, ExitOffered, OnTop
    <3>2. Append(<<o>>, "exit") = <<o, "exit">>
      <4> DEFINE end == Append(<<o>>, "exit")
                 two == <<o, "exit">>
      <4>1. <<o>> \in Seq({o, "exit"}) /\ Len(<<o>>) = 1 /\ <<o>>[1] = o
        OBVIOUS
      <4>2. end \in Seq({o, "exit"}) /\ Len(end) = 2 /\ end[1] = o /\ end[2] = "exit"
        BY <4>1, AppendProperties
      <4>3. two \in Seq({o, "exit"}) /\ Len(two) = 2 /\ two[1] = o /\ two[2] = "exit"
        OBVIOUS
      <4> HIDE DEF end, two
      <4>4. \A i \in 1..Len(end) : end[i] = two[i]
        BY <4>2, <4>3
      <4>5. end = two
        BY <4>2, <4>3, <4>4, SeqEqual
      <4> QED BY <4>5 DEF end, two
    <3>3. open' = <<o, "exit">> /\ found' = [found EXCEPT !["exit"] = overflow] /\ overflow' = "hidden"
          /\ UNCHANGED <<status, error, unsaved, together>> /\ status = "ready"
      BY <1>8, <2>3, <3>1, <3>2 DEF ExitWorkspace, ExitOffered, OpenOverlay, Opened
    <3>4. open' \in Stacks /\ open' # <<>> /\ open'[1] = o /\ Len(open') = 2
      BY <3>3 DEF Stacks
    <3>5. found'[o] = found[o] /\ found'["exit"] = overflow
      BY <1>t, <1>o, <3>3 DEF ShellTypeOK
    <3>6. error => open' = <<"reset", "exit">>
      BY <1>t, <3>1, <3>3 DEF ShellTypeOK
    <3> QED BY <1>t, <1>o, <3>1, <3>3, <3>4, <3>5, <3>6 DEF ShellInv, ShellTypeOK, Layered
  <2> QED BY <1>t, <2>1, <2>2, <2>3
<1>9. CASE DiscardAndLeave
  BY <1>9, GoneKeeps DEF DiscardAndLeave
<1>10. CASE SessionEnds
  BY <1>10, GoneKeeps DEF SessionEnds
<1>11. CASE Enter
  BY <1>11, <1>t DEF Enter, ShellInv, ShellTypeOK, Layered
<1>12. CASE Edit
  BY <1>12, <1>t DEF Edit, ShellInv, ShellTypeOK, Layered
<1>13. CASE UNCHANGED shellVars
  BY <1>13, <1>t DEF shellVars, ShellInv, ShellTypeOK, Layered
<1> QED BY <1>1, <1>2, <1>3, <1>4, <1>5, <1>6, <1>7, <1>8, <1>9, <1>10, <1>11, <1>12, <1>13 DEF ShellNext

LEMMA ShellInductive == ShellSpec => []ShellInv
BY ShellInitInv, ShellStep, PTL DEF ShellSpec

\* The types of WorkspaceShell are kept.
THEOREM ShellTyped == ShellSpec => []ShellTypeOK
<1>1. ShellInv => ShellTypeOK
  BY DEF ShellInv
<1> QED BY <1>1, ShellInductive, PTL

(***************************************************************************)
(* The page scrolls exactly when nothing covers it, in a demo's frame and  *)
(* in an account's, through resets and changes of the session.             *)
(***************************************************************************)
THEOREM PageScrolls == ShellSpec => []ScrollFollows
<1>1. ShellInv => ScrollFollows
  BY DEF ShellInv, Layered, ScrollFollows
<1> QED BY <1>1, ShellInductive, PTL
===============================================================================
