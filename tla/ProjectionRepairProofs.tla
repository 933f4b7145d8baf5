------------------------ MODULE ProjectionRepairProofs ------------------------
(***************************************************************************)
(* Proofs about what is derived from applications and their interviews:    *)
(* the counters, the labels, and the operator's repair of the counters and *)
(* of the context, each for any number of records and requests.            *)
(***************************************************************************)
EXTENDS ProjectionRepair, FiniteSetTheorems, WellFoundedInduction, TLAPS

(***************************************************************************)
(* The dashboard's numbers are exact, for any number of applications and   *)
(* requests.  Two facts carry it.  A copy whose version is still current   *)
(* is the current record (CopiesTrue), because a version is never written  *)
(* twice; so deltas computed from it are those of the record.  And an      *)
(* application has reached what its status says, or the status it was      *)
(* archived from (Attained), so that restoring it reaches nothing new.     *)
(***************************************************************************)
CopiesTrue ==
    \A x \in edits :
        /\ x.copy.version \in 1..applications[x.app].version
        /\ x.copy.version = applications[x.app].version => x.copy = applications[x.app]

\* What a record has reached; a record that is not archived is `from' itself.
Whole(v) ==
    /\ Reached(v.from) \subseteq v.miles
    /\ v.status # "ARCHIVED" => v.from = v.status

Attained == \A a \in Tracked : Whole(applications[a])

CountersInv == CountersTypeOK /\ CopiesTrue /\ Attained /\ CountersExact

-----------------------------------------------------------------------------
\* Changing one member of a family of sets that are counted.
LEMMA CountAdds ==
    ASSUME NEW S, IsFiniteSet(S), NEW T, NEW a, a \notin S, T = S \cup {a}
    PROVE  IsFiniteSet(T) /\ Cardinality(T) = Cardinality(S) + 1
BY FS_AddElement

LEMMA CountTakes ==
    ASSUME NEW S, IsFiniteSet(S), NEW T, NEW a, a \in S, T = S \ {a}
    PROVE  IsFiniteSet(T) /\ Cardinality(T) = Cardinality(S) - 1
BY FS_RemoveElement

LEMMA CountsFinite ==
    /\ \A s : IsFiniteSet(WithStatus(s)) /\ Cardinality(WithStatus(s)) \in Nat
    /\ \A k : IsFiniteSet(Beyond(k)) /\ Cardinality(Beyond(k)) \in Nat
<1>1. \A S \in SUBSET Tracked : IsFiniteSet(S) /\ Cardinality(S) \in Nat
  BY CountersAssumption, FS_Subset, FS_CardinalityType
<1> QED BY <1>1 DEF WithStatus, Beyond, Existing

LEMMA MilestonesTyped == \A s : Reached(s) \in SUBSET Milestones
BY DEF Reached

LEMMA InitExact == CountersInit => CountersInv
<1> SUFFICES ASSUME CountersInit PROVE CountersInv
  OBVIOUS
<1>1. CountersTypeOK
  BY DEF CountersInit, CountersTypeOK, Untracked, Versions, Statuses
<1>2. CopiesTrue
  BY DEF CountersInit, CopiesTrue
<1>3. Reached("DRAFT") = {}
  BY SMT DEF Reached, Milestones, ReachedBy, Submitted
<1>4. Attained
  BY <1>3 DEF CountersInit, Attained, Whole, Untracked
<1>5. Existing = {}
  BY DEF CountersInit, Existing, Untracked
<1>6. CountersExact
  BY <1>5, FS_EmptySet DEF CountersExact, CountersInit, WithStatus, Beyond
<1> QED BY <1>1, <1>2, <1>4, <1>6 DEF CountersInv

-----------------------------------------------------------------------------
(***************************************************************************)
(* What a new version of one application does to the sets that are counted *)
(* and to the copies that were read before: it is written under the next   *)
(* version, so that no copy is current any more.                           *)
(***************************************************************************)
LEMMA Recorded ==
    ASSUME CountersTypeOK, CopiesTrue, NEW a \in Tracked, NEW new \in Versions,
           new.version = applications[a].version + 1,
           applications' = [applications EXCEPT ![a] = new],
           edits' \subseteq edits
    PROVE  /\ applications' \in [Tracked -> Versions]
           /\ CopiesTrue'
           /\ \A s : WithStatus(s)' = (WithStatus(s) \ {a}) \cup {b \in {a} : new.status = s}
           /\ \A k : Beyond(k)' = (Beyond(k) \ {a}) \cup {b \in {a} : k \in {"tracked"} \cup new.miles}
<1>1. /\ applications \in [Tracked -> Versions]
      /\ \A x \in edits : x.app \in Tracked /\ x.copy.version \in Nat
  BY DEF CountersTypeOK, Versions
<1>2. applications[a].version \in Nat
  BY <1>1 DEF Versions
<1>3. /\ applications'[a] = new
      /\ \A b \in Tracked \ {a} : applications'[b] = applications[b]
  BY <1>1
<1>4. applications' \in [Tracked -> Versions]
  BY <1>1
<1>5. CopiesTrue'
  <2> SUFFICES ASSUME NEW x \in edits
               PROVE  /\ x.copy.version \in 1..applications'[x.app].version
                      /\ x.copy.version = applications'[x.app].version => x.copy = applications'[x.app]
    BY DEF CopiesTrue
  <2>1. /\ x.copy.version \in 1..applications[x.app].version
        /\ x.copy.version = applications[x.app].version => x.copy = applications[x.app]
    BY DEF CopiesTrue
  <2>2. CASE x.app = a
    BY <1>1, <1>2, <1>3, <2>1, <2>2
  <2>3. CASE x.app # a
    BY <1>1, <1>3, <2>1, <2>3
  <2> QED BY <2>2, <2>3
<1>6. Existing' = Existing \cup {a}
  BY <1>1, <1>2, <1>3 DEF Existing
<1>7. \A s : WithStatus(s)' = (WithStatus(s) \ {a}) \cup {b \in {a} : new.status = s}
  BY <1>3, <1>6 DEF WithStatus, Existing
<1>8. \A k : Beyond(k)' = (Beyond(k) \ {a}) \cup {b \in {a} : k \in {"tracked"} \cup new.miles}
  BY <1>3, <1>6 DEF Beyond, Existing
<1> QED BY <1>4, <1>5, <1>7, <1>8

\* How many a set holds when one member's belonging to it is decided anew.
LEMMA CountMoves ==
    ASSUME NEW S, IsFiniteSet(S), NEW a, NEW in \in BOOLEAN, NEW T,
           T = (S \ {a}) \cup {b \in {a} : in}
    PROVE  /\ a \in S /\ ~ in => Cardinality(T) = Cardinality(S) - 1
           /\ a \notin S /\ in => Cardinality(T) = Cardinality(S) + 1
           /\ (a \in S <=> in) => T = S
<1>1. ASSUME a \in S, ~ in PROVE Cardinality(T) = Cardinality(S) - 1
  <2>1. T = S \ {a}
    BY <1>1
  <2> QED BY <1>1, <2>1, CountTakes
<1>2. ASSUME a \notin S, in PROVE Cardinality(T) = Cardinality(S) + 1
  <2>1. T = S \cup {a}
    BY <1>2
  <2> QED BY <1>2, <2>1, CountAdds
<1>3. ASSUME a \in S <=> in PROVE T = S
  BY <1>3
<1> QED BY <1>1, <1>2, <1>3

\* The record that replaces a copy whose status stays, field by field.
LEMMA DetailsAre ==
    ASSUME NEW c \in Versions, NEW dated \in BOOLEAN
    PROVE  [c EXCEPT !.version = @ + 1, !.dated = dated] =
               [version |-> c.version + 1, status |-> c.status, from |-> c.from,
                dated |-> dated, miles |-> c.miles]
<1> DEFINE m == [c EXCEPT !.version = @ + 1]
<1>1. m = [version |-> c.version + 1, status |-> c.status, from |-> c.from,
           dated |-> c.dated, miles |-> c.miles]
  BY DEF Versions
<1>2. [c EXCEPT !.version = @ + 1, !.dated = dated] = [m EXCEPT !.dated = dated]
  OBVIOUS
<1> HIDE DEF m
<1> QED BY <1>1, <1>2 DEF Versions

-----------------------------------------------------------------------------
LEMMA CreateExact ==
    ASSUME CountersInv, NEW a \in Tracked, NEW status \in Statuses, Create(a, status)
    PROVE  CountersInv'
<1> DEFINE new == [version |-> 1, status |-> status, from |-> status,
                   dated |-> status # "DRAFT", miles |-> Reached(status)]
<1>1. CountersTypeOK /\ CopiesTrue /\ Attained /\ CountersExact
  BY DEF CountersInv
<1>2. /\ new \in Versions
      /\ new.version = applications[a].version + 1
      /\ applications' = [applications EXCEPT ![a] = new]
      /\ edits' = edits
  BY MilestonesTyped DEF Create, Versions
<1> HIDE DEF new
<1>3. /\ applications' \in [Tracked -> Versions]
      /\ CopiesTrue'
      /\ \A s : WithStatus(s)' = (WithStatus(s) \ {a}) \cup {b \in {a} : new.status = s}
      /\ \A k : Beyond(k)' = (Beyond(k) \ {a}) \cup {b \in {a} : k \in {"tracked"} \cup new.miles}
  BY <1>1, <1>2, Recorded
<1>4. /\ statusCount \in [Statuses -> Int] /\ funnel \in [Steps -> Int]
      /\ \A s : a \notin WithStatus(s)
      /\ \A k : a \notin Beyond(k)
  BY <1>1 DEF CountersTypeOK, Create, WithStatus, Beyond, Existing
<1>5. CountersTypeOK'
  BY <1>1, <1>2, <1>3, <1>4 DEF CountersTypeOK, Create, Steps
<1>6. Attained'
  BY <1>1, <1>2 DEF Attained, Whole, CountersTypeOK, new
<1>7. ASSUME NEW s \in Statuses PROVE statusCount'[s] = Cardinality(WithStatus(s)')
  <2>1. statusCount[s] = Cardinality(WithStatus(s)) /\ IsFiniteSet(WithStatus(s))
    BY <1>1, CountsFinite DEF CountersExact
  <2>2. statusCount'[s] = IF s = status THEN statusCount[s] + 1 ELSE statusCount[s]
    BY <1>4 DEF Create
  <2>3. new.status = status
    BY DEF new
  <2> DEFINE in == status = s
  <2>4. /\ a \notin WithStatus(s) /\ in \in BOOLEAN
        /\ WithStatus(s)' = (WithStatus(s) \ {a}) \cup {b \in {a} : in}
    BY <1>3, <1>4, <2>3
  <2>5. /\ in => Cardinality(WithStatus(s)') = Cardinality(WithStatus(s)) + 1
        /\ ~ in => WithStatus(s)' = WithStatus(s)
    <3> HIDE DEF in
    <3> QED BY <2>1, <2>4, CountMoves
  <2> QED BY <2>1, <2>2, <2>5
<1>8. ASSUME NEW k \in Steps PROVE funnel'[k] = Cardinality(Beyond(k)')
  <2>1. funnel[k] = Cardinality(Beyond(k)) /\ IsFiniteSet(Beyond(k))
    BY <1>1, CountsFinite DEF CountersExact
  <2>2. funnel'[k] = IF k \in {"tracked"} \cup Reached(status) THEN funnel[k] + 1 ELSE funnel[k]
    BY <1>4 DEF Create
  <2>3. new.miles = Reached(status)
    BY DEF new
  <2> DEFINE in == k \in {"tracked"} \cup Reached(status)
  <2>4. /\ a \notin Beyond(k) /\ in \in BOOLEAN
        /\ Beyond(k)' = (Beyond(k) \ {a}) \cup {b \in {a} : in}
    BY <1>3, <1>4, <2>3
  <2>5. /\ in => Cardinality(Beyond(k)') = Cardinality(Beyond(k)) + 1
        /\ ~ in => Beyond(k)' = Beyond(k)
    <3> HIDE DEF in
    <3> QED BY <2>1, <2>4, CountMoves
  <2> QED BY <2>1, <2>2, <2>5
<1> QED BY <1>3, <1>5, <1>6, <1>7, <1>8 DEF CountersInv, CountersExact

LEMMA ReadExact ==
    ASSUME CountersInv, NEW e \in Editors, NEW a \in Tracked, ReadApplication(e, a)
    PROVE  CountersInv'
<1>1. CountersTypeOK /\ CopiesTrue /\ Attained /\ CountersExact
  BY DEF CountersInv
<1>2. applications[a] \in Versions /\ applications[a].version >= 1
  BY <1>1 DEF CountersTypeOK, ReadApplication
<1>3. CountersTypeOK'
  BY <1>1, <1>2 DEF CountersTypeOK, ReadApplication, counters
<1>4. CopiesTrue'
  BY <1>1, <1>2 DEF CopiesTrue, ReadApplication, Versions
<1>5. Attained' /\ CountersExact'
  BY <1>1 DEF Attained, Whole, CountersExact, WithStatus, Beyond, Existing, ReadApplication, counters
<1> QED BY <1>3, <1>4, <1>5 DEF CountersInv

LEMMA LeaveExact ==
    ASSUME CountersInv, NEW x \in edits, LeaveApplication(x)
    PROVE  CountersInv'
BY DEF LeaveApplication, CountersInv, CountersTypeOK, CopiesTrue, Attained, Whole, CountersExact,
       WithStatus, Beyond, Existing, counters

(***************************************************************************)
(* A request that replaces the record: what it read is what is there, so   *)
(* that the record leaves one set and enters another as the deltas say.    *)
(***************************************************************************)
LEMMA ChangeStatusExact ==
    ASSUME CountersInv, NEW x \in edits, NEW target \in Statuses, NEW supplied \in BOOLEAN,
           ChangeStatus(x, target, supplied)
    PROVE  CountersInv'
<1> DEFINE a == x.app
           c == x.copy
           new == Moved(c, target, supplied)
<1>1. CountersTypeOK /\ CopiesTrue /\ Attained /\ CountersExact
  BY DEF CountersInv
<1>2. /\ a \in Tracked /\ c \in Versions
      /\ c = applications[a] /\ c.version \in Nat /\ c.version >= 1
      /\ c.status \in Statuses /\ c.from \in Statuses /\ c.miles \subseteq Milestones
  BY <1>1 DEF CountersTypeOK, CopiesTrue, ChangeStatus, Replaces, Current, Versions
<1>3. /\ new \in Versions
      /\ new.version = applications[a].version + 1
      /\ new.status = target
      /\ new.from = IF target = "ARCHIVED" THEN c.status ELSE target
      /\ new.miles = c.miles \cup Reached(target)
  BY <1>2, MilestonesTyped DEF Moved, Versions
<1>4. /\ applications' = [applications EXCEPT ![a] = new]
      /\ edits' \subseteq edits
  BY DEF ChangeStatus, Replaces
<1> HIDE DEF new
<1>5. /\ applications' \in [Tracked -> Versions]
      /\ CopiesTrue'
      /\ \A s : WithStatus(s)' = (WithStatus(s) \ {a}) \cup {b \in {a} : new.status = s}
      /\ \A k : Beyond(k)' = (Beyond(k) \ {a}) \cup {b \in {a} : k \in {"tracked"} \cup new.miles}
  BY <1>1, <1>2, <1>3, <1>4, Recorded
<1>6. /\ \A s : a \in WithStatus(s) <=> c.status = s
      /\ \A k : a \in Beyond(k) <=> k \in {"tracked"} \cup c.miles
  BY <1>2 DEF WithStatus, Beyond, Existing
<1>7. statusCount \in [Statuses -> Int] /\ funnel \in [Steps -> Int]
  BY <1>1 DEF CountersTypeOK
<1>8. CountersTypeOK'
  BY <1>1, <1>2, <1>4, <1>5, <1>7 DEF CountersTypeOK, ChangeStatus, Steps
<1>9. Reached("ARCHIVED") = {}
  BY SMT DEF Reached, Milestones, ReachedBy, Submitted, Statuses
<1>10. Whole(c)
  BY <1>1, <1>2 DEF Attained
<1>11. Whole(new)
  BY <1>2, <1>3, <1>9, <1>10 DEF Whole
<1>12. Attained'
  BY <1>1, <1>2, <1>4, <1>11 DEF Attained, CountersTypeOK
\* What is gained is what was not reached before: a status that is restored was.
<1>13. Gained(c, target) = new.miles \ c.miles
  <2>1. CASE c.status = "ARCHIVED"
    BY <1>3, <1>10, <2>1 DEF Gained, Whole, ChangeStatus, Allowed
  <2>2. CASE target = "ARCHIVED"
    BY <1>3, <1>9, <2>2 DEF Gained
  <2>3. CASE "ARCHIVED" \notin {c.status, target}
    BY <1>3, <2>3 DEF Gained
  <2> QED BY <2>1, <2>2, <2>3
<1>14. ASSUME NEW s \in Statuses PROVE statusCount'[s] = Cardinality(WithStatus(s)')
  <2> DEFINE in == target = s
  <2>1. statusCount[s] = Cardinality(WithStatus(s)) /\ IsFiniteSet(WithStatus(s))
    BY <1>1, CountsFinite DEF CountersExact
  <2>2. /\ c.status = s /\ ~ in => statusCount'[s] = statusCount[s] - 1
        /\ c.status # s /\ in => statusCount'[s] = statusCount[s] + 1
        /\ (c.status = s <=> in) => statusCount'[s] = statusCount[s]
    BY <1>2, <1>7 DEF ChangeStatus
  <2>3. /\ a \in WithStatus(s) <=> c.status = s
        /\ in \in BOOLEAN
        /\ WithStatus(s)' = (WithStatus(s) \ {a}) \cup {b \in {a} : in}
    BY <1>3, <1>5, <1>6
  <2> HIDE DEF in, c, a
  <2>4. /\ a \in WithStatus(s) /\ ~ in => Cardinality(WithStatus(s)') = Cardinality(WithStatus(s)) - 1
        /\ a \notin WithStatus(s) /\ in => Cardinality(WithStatus(s)') = Cardinality(WithStatus(s)) + 1
        /\ (a \in WithStatus(s) <=> in) => WithStatus(s)' = WithStatus(s)
    BY <2>1, <2>3, CountMoves
  <2> QED BY <2>1, <2>2, <2>3, <2>4
<1>15. ASSUME NEW k \in Steps PROVE funnel'[k] = Cardinality(Beyond(k)')
  <2> DEFINE in == k \in {"tracked"} \cup new.miles
  <2>1. funnel[k] = Cardinality(Beyond(k)) /\ IsFiniteSet(Beyond(k))
    BY <1>1, CountsFinite DEF CountersExact
  <2>2. "tracked" \notin Milestones
    BY DEF Milestones
  <2>3. /\ a \in Beyond(k) => in
        /\ a \notin Beyond(k) /\ in <=> k \in Gained(c, target)
    BY <1>2, <1>3, <1>6, <1>13, <2>2, MilestonesTyped
  <2>4. funnel'[k] = IF k \in Gained(c, target) THEN funnel[k] + 1 ELSE funnel[k]
    BY <1>7 DEF ChangeStatus
  <2>5. /\ in \in BOOLEAN
        /\ Beyond(k)' = (Beyond(k) \ {a}) \cup {b \in {a} : in}
    BY <1>5
  <2> HIDE DEF in, c, a
  <2>6. /\ a \notin Beyond(k) /\ in => Cardinality(Beyond(k)') = Cardinality(Beyond(k)) + 1
        /\ (a \in Beyond(k) <=> in) => Beyond(k)' = Beyond(k)
    BY <2>1, <2>5, CountMoves
  <2> QED BY <2>1, <2>3, <2>4, <2>6
<1> QED BY <1>5, <1>8, <1>12, <1>14, <1>15 DEF CountersInv, CountersExact

LEMMA ChangeDetailsExact ==
    ASSUME CountersInv, NEW x \in edits, NEW dated \in BOOLEAN, ChangeDetails(x, dated)
    PROVE  CountersInv'
<1> DEFINE a == x.app
           c == x.copy
           new == [c EXCEPT !.version = @ + 1, !.dated = dated]
<1>1. CountersTypeOK /\ CopiesTrue /\ Attained /\ CountersExact
  BY DEF CountersInv
<1>2. /\ a \in Tracked /\ c \in Versions
      /\ c = applications[a] /\ c.version \in Nat /\ c.version >= 1
  BY <1>1 DEF CountersTypeOK, CopiesTrue, ChangeDetails, Replaces, Current, Versions
<1>3. /\ new \in Versions
      /\ new.version = applications[a].version + 1
      /\ new.status = c.status /\ new.from = c.from /\ new.miles = c.miles
  <2>1. new = [version |-> c.version + 1, status |-> c.status, from |-> c.from,
               dated |-> dated, miles |-> c.miles]
    BY <1>2, DetailsAre
  <2> QED BY <1>2, <2>1 DEF Versions
<1>4. /\ applications' = [applications EXCEPT ![a] = new]
      /\ edits' \subseteq edits
      /\ UNCHANGED <<statusCount, funnel>>
  BY DEF ChangeDetails, Replaces, counters
<1> HIDE DEF new
<1>5. /\ applications' \in [Tracked -> Versions]
      /\ CopiesTrue'
      /\ \A s : WithStatus(s)' = (WithStatus(s) \ {a}) \cup {b \in {a} : new.status = s}
      /\ \A k : Beyond(k)' = (Beyond(k) \ {a}) \cup {b \in {a} : k \in {"tracked"} \cup new.miles}
  BY <1>1, <1>2, <1>3, <1>4, Recorded
<1>6. /\ \A s : a \in WithStatus(s) <=> c.status = s
      /\ \A k : a \in Beyond(k) <=> k \in {"tracked"} \cup c.miles
  BY <1>2 DEF WithStatus, Beyond, Existing
<1>7. CountersTypeOK'
  BY <1>1, <1>4, <1>5 DEF CountersTypeOK
<1>8. Attained'
  BY <1>1, <1>2, <1>3, <1>4 DEF Attained, Whole, CountersTypeOK
<1>9. \A s : WithStatus(s)' = WithStatus(s)
  BY <1>3, <1>5, <1>6
<1>10. \A k : Beyond(k)' = Beyond(k)
  BY <1>3, <1>5, <1>6
<1>11. CountersExact'
  BY <1>1, <1>4, <1>9, <1>10 DEF CountersExact
<1> QED BY <1>5, <1>7, <1>8, <1>11 DEF CountersInv

-----------------------------------------------------------------------------
LEMMA StepExact == CountersInv /\ [CountersNext]_countersVars => CountersInv'
<1> SUFFICES ASSUME CountersInv, [CountersNext]_countersVars PROVE CountersInv'
  OBVIOUS
<1>1. ASSUME NEW a \in Tracked, NEW status \in Statuses, Create(a, status) PROVE CountersInv'
  BY <1>1, CreateExact
<1>2. ASSUME NEW e \in Editors, NEW a \in Tracked, ReadApplication(e, a) PROVE CountersInv'
  BY <1>2, ReadExact
<1>3. ASSUME NEW x \in edits, NEW target \in Statuses, NEW supplied \in BOOLEAN,
             ChangeStatus(x, target, supplied) PROVE CountersInv'
  BY <1>3, ChangeStatusExact
<1>4. ASSUME NEW x \in edits, NEW dated \in BOOLEAN, ChangeDetails(x, dated) PROVE CountersInv'
  BY <1>4, ChangeDetailsExact
<1>5. ASSUME NEW x \in edits, LeaveApplication(x) PROVE CountersInv'
  BY <1>5, LeaveExact
<1>6. CASE UNCHANGED countersVars
  BY <1>6 DEF countersVars, CountersInv, CountersTypeOK, CopiesTrue, Attained, Whole, CountersExact,
              WithStatus, Beyond, Existing
<1> QED BY <1>1, <1>2, <1>3, <1>4, <1>5, <1>6 DEF CountersNext

(***************************************************************************)
(* The status counters and the funnel that create and transition keep by   *)
(* deltas are those of the records, at every moment, for any number of     *)
(* applications and of requests under way.                                 *)
(***************************************************************************)
THEOREM CountersAlwaysExact == CountersSpec => []CountersExact
<1>1. CountersInv => CountersExact
  BY DEF CountersInv
<1> QED BY InitExact, StepExact, <1>1, PTL DEF CountersSpec

(***************************************************************************)
(* Every record, counter and copy that a request holds has its type.       *)
(***************************************************************************)
THEOREM CountersTyped == CountersSpec => []CountersTypeOK
<1>1. CountersInv => CountersTypeOK
  BY DEF CountersInv
<1> QED BY InitExact, StepExact, <1>1, PTL DEF CountersSpec

-------------------------------------------------------------------------------
(***************************************************************************)
(* The labels of interviews follow their application, for any number of    *)
(* interviews and requests.  Versions carry it: a rename writes a new      *)
(* version of every interview there is, because as many are listed as are  *)
(* held (ListedAreHeld); so a change whose interview is still at the       *)
(* version its client named has seen no rename since, and the label it     *)
(* read is still the application's (ChangesTrue).                          *)
(***************************************************************************)
\* A change whose interview is still as its client knows it.
Fresh(x) == x.version > 0 /\ rounds[x.round].version = x.version

True(x) ==
    /\ x.version <= rounds[x.round].version
    /\ Fresh(x) => x.label = application.label
    /\ x.stage # "asked" =>
           /\ x.plan.version = x.version + 1
           /\ Fresh(x) => x.plan.label \in {x.label, rounds[x.round].label}

ChangesTrue == \A x \in changes : True(x)

LabelsInv == RoundsTypeOK /\ ChangesTrue

-----------------------------------------------------------------------------
(***************************************************************************)
(* The projection can always be computed: of the interviews that are       *)
(* scheduled one is the earliest.                                          *)
(***************************************************************************)
LEMMA Least ==
    ASSUME NEW T, T \subseteq Nat, T # {}
    PROVE  \E m \in T : \A n \in T : m <= n
<1> DEFINE R == OpToRel(<, Nat)
<1>1. \A x, y \in Nat : <<x, y>> \in R <=> x < y
  BY DEF OpToRel
<1>2. IsWellFoundedOn(R, Nat)
  BY NatLessThanWellFounded
<1> HIDE DEF R
<1>3. PICK m \in T : \A n \in T : ~ (<<n, m>> \in R)
  BY <1>2, WFMin
<1>4. ASSUME NEW n \in T PROVE m <= n
  <2>1. m \in Nat /\ n \in Nat /\ ~ (n < m)
    BY <1>1, <1>3
  <2> QED BY <2>1
<1> QED BY <1>4

LEMMA EarliestScheduled ==
    ASSUME NEW table \in [Rounds -> RoundRecords], Scheduled(table) # {}
    PROVE  Earliest(table) \in Scheduled(table)
<1> DEFINE times == {table[r].at : r \in Scheduled(table)}
<1>1. ASSUME NEW r \in Scheduled(table) PROVE r \in Nat /\ table[r].at \in Nat
  <2>1. r \in Rounds /\ table[r] \in RoundRecords
    BY DEF Scheduled
  <2>2. table[r].at \in Hours \cup {0}
    BY <2>1 DEF RoundRecords
  <2>3. Hours \cup {0} \subseteq Nat /\ Rounds \subseteq Nat
    BY RoundsAssumption
  <2> QED BY <2>1, <2>2, <2>3
<1>2. times \subseteq Nat /\ times # {}
  BY <1>1
<1> HIDE DEF times
<1>3. PICK t \in times : \A u \in times : t <= u
  BY <1>2, Least
<1> DEFINE first == {r \in Scheduled(table) : table[r].at = t}
<1>4. first \subseteq Nat /\ first # {}
  BY <1>1, <1>3 DEF times
<1> HIDE DEF first
<1>5. PICK r \in first : \A s \in first : r <= s
  BY <1>4, Least
<1>6. ASSUME NEW s \in Scheduled(table) PROVE Sooner(table, r, s)
  <2>1. table[r].at = t /\ t <= table[s].at /\ t \in Nat /\ table[s].at \in Nat
    BY <1>1, <1>2, <1>3, <1>5 DEF first, times
  <2>2. table[s].at = t => r <= s
    BY <1>5 DEF first
  <2> QED BY <2>1, <2>2 DEF Sooner
<1>7. r \in Scheduled(table)
  BY <1>5 DEF first
<1> QED BY <1>6, <1>7 DEF Earliest

LEMMA NextTyped ==
    ASSUME NEW table \in [Rounds -> RoundRecords], NEW n \in Nat
    PROVE  NextInterview(table, n) \in Contexts
<1>1. CASE Scheduled(table) = {}
  BY <1>1 DEF NextInterview, NoContext, Contexts
<1>2. CASE Scheduled(table) # {}
  <2>1. Earliest(table) \in Rounds
    BY <1>2, EarliestScheduled DEF Scheduled
  <2>2. table[Earliest(table)] \in RoundRecords
    BY <2>1
  <2>3. table[Earliest(table)].at \in Hours \cup {0}
    BY <2>2 DEF RoundRecords
  <2> QED BY <1>2, <2>1, <2>3 DEF NextInterview, Contexts
<1> QED BY <1>1, <1>2

-----------------------------------------------------------------------------
\* A change that goes on to its next stage keeps what it has read.
LEMMA Staged ==
    ASSUME NEW x \in Changes, NEW stage \in {"asked", "planned", "queried", "ready"}
    PROVE  /\ Onto(x, stage) \in Changes
           /\ Onto(x, stage) = [by |-> x.by, stage |-> stage, round |-> x.round, version |-> x.version,
                                label |-> x.label, seen |-> x.seen, next |-> x.next, plan |-> x.plan]
BY DEF Onto, Changes

\* A plan is the next version; its label is the one read or the old one.
LEMMA PlansAre ==
    ASSUME NEW old \in RoundRecords, NEW label \in Labels, NEW plan \in Plans(old, label)
    PROVE  /\ plan \in RoundRecords
           /\ plan.version = old.version + 1
           /\ plan.label \in {label, old.label}
<1> DEFINE kept == [old EXCEPT !.version = @ + 1]
           fresh == [old EXCEPT !.version = @ + 1, !.label = label]
<1>1. kept \in RoundRecords /\ kept.version = old.version + 1 /\ kept.label = old.label
  <2>1. old.version \in Nat
    BY DEF RoundRecords
  <2> DEFINE n == old.version + 1
  <2>2. n \in Nat
    BY <2>1
  <2>3. kept = [old EXCEPT !.version = n]
    OBVIOUS
  <2> HIDE DEF n
  <2>4. [old EXCEPT !.version = n] \in RoundRecords
    BY <2>2 DEF RoundRecords
  <2> QED BY <2>3, <2>4 DEF RoundRecords, n
<1>2. fresh = [kept EXCEPT !.label = label]
  OBVIOUS
<1>3. fresh \in RoundRecords /\ fresh.version = old.version + 1 /\ fresh.label = label
  <2> HIDE DEF kept
  <2> QED BY <1>1, <1>2 DEF RoundRecords
<1>4. \/ plan = kept
      \/ \E at \in Hours : plan = [fresh EXCEPT !.at = at]
      \/ \E s \in {"COMPLETED", "CANCELED"} : plan = [fresh EXCEPT !.status = s]
  BY DEF Plans
<1> HIDE DEF kept, fresh
<1>5. CASE plan = kept
  BY <1>1, <1>5
<1>6. CASE \E at \in Hours : plan = [fresh EXCEPT !.at = at]
  BY <1>3, <1>6 DEF RoundRecords
<1>7. CASE \E s \in {"COMPLETED", "CANCELED"} : plan = [fresh EXCEPT !.status = s]
  BY <1>3, <1>7 DEF RoundRecords, Workflow
<1> QED BY <1>4, <1>5, <1>6, <1>7

\* As many are held as were listed, and those listed are held still.
LEMMA ListedAreHeld ==
    ASSUME RoundsTypeOK, NEW x \in renames, AsListed(x)
    PROVE  Listed(x) = Held
<1>1. Listed(x) \subseteq Held
  BY DEF RoundsTypeOK, AsListed, Listed, Held
<1>2. IsFiniteSet(Held)
  BY RoundsAssumption, FS_Subset DEF Held
<1> QED BY <1>1, <1>2, FS_Subset DEF AsListed

LEMMA LabelsInit == RoundsInit => LabelsInv
<1> SUFFICES ASSUME RoundsInit PROVE LabelsInv
  OBVIOUS
<1>1. NoRound \in RoundRecords /\ NoContext \in Contexts
  BY DEF NoRound, RoundRecords, NoContext, Contexts, Workflow
<1>2. application \in [version : Nat, label : Labels, active : BOOLEAN]
  <2>1. \A v \in {1} : v \in Nat
    OBVIOUS
  <2>2. \A v \in {TRUE} : v \in BOOLEAN
    OBVIOUS
  <2>3. application.version \in {1} /\ application.label \in Labels /\ application.active \in {TRUE}
    BY DEF RoundsInit
  <2>4. application = [version |-> application.version, label |-> application.label,
                       active |-> application.active]
    BY DEF RoundsInit
  <2> QED BY <2>1, <2>2, <2>3, <2>4
<1>3. RoundsTypeOK
  BY <1>1, <1>2 DEF RoundsInit, RoundsTypeOK
<1> QED BY <1>3 DEF RoundsInit, LabelsInv, ChangesTrue

-----------------------------------------------------------------------------
\* The types stay what they are by themselves; what is true of the changes, with them.
StayTrue == RoundsTypeOK' /\ (ChangesTrue => ChangesTrue')

\* Where no interview and no label changes, only what is new has to be true.
LEMMA Going ==
    ASSUME RoundsTypeOK, UNCHANGED <<application, rounds>>,
           replica' \in [Rounds -> RoundRecords], context' \in Contexts, renames' \subseteq Renames,
           \A y \in changes' : y \in changes \/ (y \in Changes /\ (ChangesTrue => True(y)))
    PROVE  StayTrue
<1>1. RoundsTypeOK'
  BY DEF RoundsTypeOK
<1>2. ASSUME ChangesTrue, NEW y \in changes' PROVE True(y)'
  <2>1. True(y)
    BY <1>2 DEF ChangesTrue
  <2> QED BY <2>1 DEF True, Fresh
<1> QED BY <1>1, <1>2 DEF StayTrue, ChangesTrue

LEMMA ScheduleTrue ==
    ASSUME RoundsTypeOK, NEW c \in Schedulers, NEW r \in Rounds, NEW at \in Hours, Schedule(c, r, at)
    PROVE  StayTrue
<1> DEFINE first == [version |-> 1, status |-> "SCHEDULED", at |-> at, label |-> application.label]
           y == [by |-> c, stage |-> "planned", round |-> r, version |-> 0, label |-> application.label,
                 seen |-> 0, next |-> NoContext, plan |-> first]
<1>1. application.label \in Labels /\ rounds[r].version = 0
  BY DEF RoundsTypeOK, Schedule
<1>2. first \in RoundRecords /\ first.version = 1
  BY <1>1 DEF RoundRecords, Workflow
<1>3. NoContext \in Contexts
  BY DEF NoContext, Contexts
<1> HIDE DEF first
<1>4. y \in Changes
  BY <1>1, <1>2, <1>3 DEF Changes
<1>5. True(y)
  BY <1>1, <1>2 DEF True, Fresh
<1>6. changes' = changes \cup {y} /\ UNCHANGED <<application, rounds, replica, context, renames>>
  BY DEF Schedule, first
<1> HIDE DEF y
<1> QED BY <1>4, <1>5, <1>6, Going DEF RoundsTypeOK

LEMMA AskTrue ==
    ASSUME RoundsTypeOK, NEW c \in Schedulers, NEW r \in Rounds, AskChange(c, r)
    PROVE  StayTrue
<1> DEFINE y == [by |-> c, stage |-> "asked", round |-> r, version |-> rounds[r].version,
                 label |-> application.label, seen |-> 0, next |-> NoContext, plan |-> NoRound]
<1>1. application.label \in Labels /\ rounds[r] \in RoundRecords
  BY DEF RoundsTypeOK
<1>2. rounds[r].version \in Nat
  BY <1>1 DEF RoundRecords
<1>3. NoRound \in RoundRecords /\ NoContext \in Contexts
  BY DEF NoRound, RoundRecords, NoContext, Contexts, Workflow
<1>4. y \in Changes
  BY <1>1, <1>2, <1>3 DEF Changes
<1>5. True(y)
  BY <1>2 DEF True, Fresh
<1>6. changes' = changes \cup {y} /\ UNCHANGED <<application, rounds, replica, context, renames>>
  BY DEF AskChange
<1> HIDE DEF y
<1> QED BY <1>4, <1>5, <1>6, Going DEF RoundsTypeOK

LEMMA PlanTrue ==
    ASSUME RoundsTypeOK, NEW x \in changes, NEW plan \in Plans(rounds[x.round], x.label), PlanChange(x, plan)
    PROVE  StayTrue
<1> DEFINE z == Onto(x, "planned")
           y == [z EXCEPT !.plan = plan]
<1>1. /\ x \in Changes /\ (ChangesTrue => True(x)) /\ rounds[x.round] \in RoundRecords
      /\ x.label \in Labels /\ rounds[x.round].version = x.version
  BY DEF RoundsTypeOK, ChangesTrue, Changes, PlanChange
<1>2. /\ plan \in RoundRecords
      /\ plan.version = x.version + 1
      /\ plan.label \in {x.label, rounds[x.round].label}
  BY <1>1, PlansAre
<1>3. /\ z \in Changes
      /\ z = [by |-> x.by, stage |-> "planned", round |-> x.round, version |-> x.version,
              label |-> x.label, seen |-> x.seen, next |-> x.next, plan |-> x.plan]
  BY <1>1, Staged
<1> HIDE DEF z
<1>4. y \in Changes
  BY <1>2, <1>3 DEF Changes
<1>5. y = [by |-> x.by, stage |-> "planned", round |-> x.round, version |-> x.version,
           label |-> x.label, seen |-> x.seen, next |-> x.next, plan |-> plan]
  BY <1>3
<1> HIDE DEF y
<1>6. ChangesTrue => True(y)
  BY <1>1, <1>2, <1>5 DEF True, Fresh
<1>7. changes' = (changes \ {x}) \cup {y} /\ UNCHANGED <<application, rounds, replica, context, renames>>
  BY DEF PlanChange, Progress, y, z
<1> QED BY <1>4, <1>6, <1>7, Going DEF RoundsTypeOK

LEMMA QueryTrue ==
    ASSUME RoundsTypeOK, NEW x \in changes, QueryRounds(x)
    PROVE  StayTrue
<1> DEFINE z == Onto(x, "queried")
           next == NextInterview([replica EXCEPT ![x.round] = x.plan], 1)
           y == [z EXCEPT !.next = next]
<1>1. /\ x \in Changes /\ (ChangesTrue => True(x)) /\ x.stage = "planned"
      /\ replica \in [Rounds -> RoundRecords] /\ x.plan \in RoundRecords
  BY DEF RoundsTypeOK, ChangesTrue, Changes, QueryRounds
<1>2. next \in Contexts
  BY <1>1, NextTyped
<1> HIDE DEF next
<1>3. /\ z \in Changes
      /\ z = [by |-> x.by, stage |-> "queried", round |-> x.round, version |-> x.version,
              label |-> x.label, seen |-> x.seen, next |-> x.next, plan |-> x.plan]
  BY <1>1, Staged
<1> HIDE DEF z
<1>4. y \in Changes
  BY <1>2, <1>3 DEF Changes
<1>5. y = [by |-> x.by, stage |-> "queried", round |-> x.round, version |-> x.version,
           label |-> x.label, seen |-> x.seen, next |-> next, plan |-> x.plan]
  BY <1>3
<1> HIDE DEF y
<1>6. ChangesTrue => True(y)
  BY <1>1, <1>5 DEF True, Fresh
<1>7. changes' = (changes \ {x}) \cup {y} /\ UNCHANGED <<application, rounds, replica, context, renames>>
  BY DEF QueryRounds, Progress, y, z, next
<1> QED BY <1>4, <1>6, <1>7, Going DEF RoundsTypeOK

LEMMA ReadTrue ==
    ASSUME RoundsTypeOK, NEW x \in changes, ReadContext(x)
    PROVE  StayTrue
<1> DEFINE z == Onto(x, "ready")
           y == [z EXCEPT !.seen = context.version]
<1>1. x \in Changes /\ (ChangesTrue => True(x)) /\ x.stage = "queried" /\ context.version \in Nat
  BY DEF RoundsTypeOK, ChangesTrue, Contexts, ReadContext
<1>2. /\ z \in Changes
      /\ z = [by |-> x.by, stage |-> "ready", round |-> x.round, version |-> x.version,
              label |-> x.label, seen |-> x.seen, next |-> x.next, plan |-> x.plan]
  BY <1>1, Staged
<1> HIDE DEF z
<1>3. y \in Changes
  BY <1>1, <1>2 DEF Changes
<1>4. y = [by |-> x.by, stage |-> "ready", round |-> x.round, version |-> x.version,
           label |-> x.label, seen |-> context.version, next |-> x.next, plan |-> x.plan]
  BY <1>2
<1> HIDE DEF y
<1>5. ChangesTrue => True(y)
  BY <1>1, <1>4 DEF True, Fresh
<1>6. changes' = (changes \ {x}) \cup {y} /\ UNCHANGED <<application, rounds, replica, context, renames>>
  BY DEF ReadContext, Progress, y, z
<1> QED BY <1>3, <1>5, <1>6, Going DEF RoundsTypeOK
\* A commit writes the next version, so no other change is fresh any more.
LEMMA CommitTrue ==
    ASSUME RoundsTypeOK, NEW x \in changes, CommitChange(x)
    PROVE  StayTrue
<1> DEFINE r == x.round
<1>1. /\ x \in Changes /\ (ChangesTrue => True(x)) /\ x.stage = "ready"
      /\ r \in Rounds /\ x.version \in Nat /\ x.seen \in Nat
      /\ x.plan \in RoundRecords /\ x.next \in Contexts
      /\ rounds[r].version = x.version /\ rounds \in [Rounds -> RoundRecords]
  BY DEF RoundsTypeOK, ChangesTrue, Changes, CommitChange
<1>2. /\ rounds' = [rounds EXCEPT ![r] = x.plan] /\ changes' = changes \ {x}
      /\ replica' \in {replica, rounds'}
      /\ UNCHANGED <<application, renames>>
  BY DEF CommitChange
<1>3. rounds' \in [Rounds -> RoundRecords]
  BY <1>1, <1>2
<1>4. context' \in Contexts
  <2>1. x.seen + 1 \in Nat
    BY <1>1
  <2> DEFINE n == x.seen + 1
  <2> HIDE DEF n
  <2>2. [x.next EXCEPT !.version = n] \in Contexts
    BY <1>1, <2>1 DEF Contexts, n
  <2>3. NoContext \in Contexts
    BY DEF NoContext, Contexts
  <2> QED BY <2>2, <2>3 DEF CommitChange, n
<1>5. RoundsTypeOK'
  BY <1>2, <1>3, <1>4 DEF RoundsTypeOK
<1>6. ASSUME ChangesTrue, NEW y \in changes' PROVE True(y)'
  <2>1. True(x) /\ True(y) /\ y.round \in Rounds /\ y.version \in Nat
    BY <1>2, <1>6 DEF RoundsTypeOK, ChangesTrue, Changes
  <2>2. CASE y.round = r
    <3>1. y.version <= x.version /\ rounds'[r].version = x.version + 1
      BY <1>1, <1>2, <2>1, <2>2 DEF True
    <3>2. y.version <= rounds'[y.round].version /\ y.version # rounds'[y.round].version
      BY <1>1, <2>1, <2>2, <3>1
    <3> QED BY <1>2, <2>1, <3>2 DEF True, Fresh
  <2>3. CASE y.round # r
    <3>1. rounds'[y.round] = rounds[y.round]
      BY <1>1, <1>2, <2>1, <2>3
    <3> QED BY <1>2, <2>1, <3>1 DEF True, Fresh
  <2> QED BY <2>2, <2>3
<1> QED BY <1>5, <1>6 DEF StayTrue, ChangesTrue

LEMMA AskRenameTrue ==
    ASSUME RoundsTypeOK, NEW c \in Schedulers, NEW label \in Labels, AskRename(c, label)
    PROVE  StayTrue
<1> DEFINE z == [by |-> c, listed |-> FALSE, version |-> application.version,
                 label |-> label, versions |-> [r \in Rounds |-> 0]]
<1>1. application.version \in Nat
  BY DEF RoundsTypeOK
<1>2. z \in Renames
  BY <1>1 DEF Renames
<1>3. renames' = renames \cup {z} /\ UNCHANGED <<application, rounds, replica, context, changes>>
  BY DEF AskRename
<1> HIDE DEF z
<1> QED BY <1>2, <1>3, Going DEF RoundsTypeOK

LEMMA ListTrue ==
    ASSUME RoundsTypeOK, NEW x \in renames, ListRounds(x)
    PROVE  StayTrue
<1> DEFINE listed == [r \in Rounds |-> rounds[r].version]
           m == [x EXCEPT !.listed = TRUE]
           z == [x EXCEPT !.listed = TRUE, !.versions = listed]
<1>1. listed \in [Rounds -> Nat]
  BY DEF RoundsTypeOK, RoundRecords
<1>2. x \in Renames
  BY DEF RoundsTypeOK
<1>3. z = [m EXCEPT !.versions = listed]
  OBVIOUS
<1>4. m \in Renames
  BY <1>2 DEF Renames
<1> HIDE DEF listed, m
<1>5. z \in Renames
  BY <1>1, <1>3, <1>4 DEF Renames
<1>6. renames' = (renames \ {x}) \cup {z} /\ UNCHANGED <<application, rounds, replica, context, changes>>
  BY DEF ListRounds, listed
<1> HIDE DEF z
<1> QED BY <1>5, <1>6, Going DEF RoundsTypeOK

\* What a rename does to an interview that is held, and to one that is not.
LEMMA Renamed ==
    ASSUME RoundsTypeOK, NEW x \in renames, CommitRename(x)
    PROVE  /\ rounds' \in [Rounds -> RoundRecords]
           /\ \A r \in Held : /\ rounds'[r].label = x.label
                             /\ rounds'[r].version = rounds[r].version + 1
           /\ \A r \in Rounds \ Held : rounds'[r] = rounds[r]
<1>1. Listed(x) = Held
  BY ListedAreHeld DEF CommitRename
<1>2. rounds \in [Rounds -> RoundRecords] /\ x.label \in Labels
  BY DEF RoundsTypeOK, Renames
<1>3. rounds' = [r \in Rounds |->
           IF r \in Held THEN [rounds[r] EXCEPT !.label = x.label, !.version = @ + 1] ELSE rounds[r]]
  BY <1>1 DEF CommitRename
<1>4. Held \subseteq Rounds /\ \A r \in Rounds : rounds[r] \in RoundRecords
  BY <1>2 DEF Held
<1>5. ASSUME NEW r \in Held
      PROVE  /\ rounds'[r] \in RoundRecords
             /\ rounds'[r].label = x.label
             /\ rounds'[r].version = rounds[r].version + 1
  <2> DEFINE m == [rounds[r] EXCEPT !.label = x.label]
             n == rounds[r].version + 1
  <2>1. rounds[r] \in RoundRecords
    BY <1>4
  <2>2. m \in RoundRecords /\ m.label = x.label
    BY <1>2, <2>1 DEF RoundRecords
  <2>3. rounds[r].version \in Nat
    BY <2>1 DEF RoundRecords
  <2>4. n \in Nat
    BY <2>3
  <2>5. m.version = rounds[r].version
    BY <2>1 DEF RoundRecords
  <2>6. rounds'[r] = [m EXCEPT !.version = n]
    BY <1>3, <1>4
  <2> HIDE DEF m, n
  <2>7. rounds'[r] \in RoundRecords /\ rounds'[r].label = x.label /\ rounds'[r].version = n
    BY <2>2, <2>4, <2>6 DEF RoundRecords
  <2> QED BY <2>7 DEF n
<1>6. \A r \in Rounds \ Held : rounds'[r] = rounds[r]
  BY <1>3
<1>7. \A r \in Rounds : rounds'[r] \in RoundRecords
  BY <1>4, <1>5, <1>6
<1>8. rounds' = [r \in Rounds |-> rounds'[r]]
  BY <1>3
<1>9. rounds' \in [Rounds -> RoundRecords]
  BY <1>7, <1>8
<1> QED BY <1>5, <1>6, <1>9

LEMMA RenameTrue ==
    ASSUME RoundsTypeOK, NEW x \in renames, CommitRename(x)
    PROVE  StayTrue
<1>1. /\ rounds' \in [Rounds -> RoundRecords]
      /\ \A r \in Held : /\ rounds'[r].label = x.label
                        /\ rounds'[r].version = rounds[r].version + 1
      /\ \A r \in Rounds \ Held : rounds'[r] = rounds[r]
  BY Renamed
<1>2. application' \in [version : Nat, label : Labels, active : BOOLEAN]
  <2>1. /\ application \in [version : Nat, label : Labels, active : BOOLEAN]
        /\ application.version + 1 \in Nat /\ x.label \in Labels
    BY DEF RoundsTypeOK, Renames
  <2> DEFINE n == application.version + 1
             m == [application EXCEPT !.version = n]
  <2>2. application' = [m EXCEPT !.label = x.label]
    BY DEF CommitRename
  <2>3. n \in Nat
    BY <2>1
  <2> HIDE DEF n
  <2>4. m \in [version : Nat, label : Labels, active : BOOLEAN]
    BY <2>1, <2>3
  <2> HIDE DEF m
  <2> QED BY <2>1, <2>2, <2>4
<1>3. RoundsTypeOK'
  BY <1>1, <1>2 DEF RoundsTypeOK, CommitRename
<1>4. ASSUME ChangesTrue, NEW y \in changes' PROVE True(y)'
  <2>1. /\ True(y) /\ y.round \in Rounds /\ y.version \in Nat
        /\ rounds[y.round].version \in Nat
    BY <1>4 DEF RoundsTypeOK, ChangesTrue, Changes, RoundRecords, CommitRename
  <2>2. CASE y.round \in Held
    <3>1. y.version <= rounds'[y.round].version /\ y.version # rounds'[y.round].version
      BY <1>1, <2>1, <2>2 DEF True
    <3> QED BY <2>1, <3>1 DEF True, Fresh
  <2>3. CASE y.round \notin Held
    <3>1. rounds'[y.round] = rounds[y.round] /\ ~ (rounds[y.round].version > 0)
      BY <1>1, <2>1, <2>3 DEF Held
    <3> QED BY <2>1, <3>1 DEF True, Fresh
  <2> QED BY <2>2, <2>3
<1> QED BY <1>3, <1>4 DEF StayTrue, ChangesTrue

LEMMA ChangeApplicationTrue ==
    ASSUME RoundsTypeOK, NEW active \in BOOLEAN, ChangeApplication(active)
    PROVE  StayTrue /\ application'.label = application.label
<1> DEFINE n == application.version + 1
           m == [application EXCEPT !.version = n]
<1>1. application \in [version : Nat, label : Labels, active : BOOLEAN] /\ n \in Nat
  BY DEF RoundsTypeOK
<1>2. application' = [m EXCEPT !.active = active]
  BY DEF ChangeApplication
<1> HIDE DEF n
<1>3. m \in [version : Nat, label : Labels, active : BOOLEAN] /\ m.label = application.label
  BY <1>1
<1> HIDE DEF m
<1>4. /\ application' \in [version : Nat, label : Labels, active : BOOLEAN]
      /\ application'.label = application.label
  BY <1>2, <1>3
<1>5. RoundsTypeOK'
  BY <1>4 DEF RoundsTypeOK, ChangeApplication
<1>6. ASSUME ChangesTrue, NEW y \in changes' PROVE True(y)'
  BY <1>4, <1>6 DEF ChangesTrue, True, Fresh, ChangeApplication
<1> QED BY <1>4, <1>5, <1>6 DEF StayTrue, ChangesTrue

-----------------------------------------------------------------------------
LEMMA StepStays == RoundsTypeOK /\ [RoundsNext]_roundsVars => StayTrue
<1> SUFFICES ASSUME RoundsTypeOK, [RoundsNext]_roundsVars PROVE StayTrue
  OBVIOUS
<1>1. ASSUME NEW c \in Schedulers, NEW r \in Rounds, NEW at \in Hours, Schedule(c, r, at) PROVE StayTrue
  BY <1>1, ScheduleTrue
<1>2. ASSUME NEW c \in Schedulers, NEW r \in Rounds, AskChange(c, r) PROVE StayTrue
  BY <1>2, AskTrue
<1>3. ASSUME NEW x \in changes, NEW plan \in Plans(rounds[x.round], x.label), PlanChange(x, plan) PROVE StayTrue
  BY <1>3, PlanTrue
<1>4. ASSUME NEW x \in changes, QueryRounds(x) PROVE StayTrue
  BY <1>4, QueryTrue
<1>5. ASSUME NEW x \in changes, ReadContext(x) PROVE StayTrue
  BY <1>5, ReadTrue
<1>6. ASSUME NEW x \in changes, CommitChange(x) PROVE StayTrue
  BY <1>6, CommitTrue
<1>7. ASSUME NEW x \in changes, LeaveChange(x) PROVE StayTrue
  BY <1>7, Going DEF LeaveChange, RoundsTypeOK
<1>8. CASE CatchUp
  BY <1>8, Going DEF CatchUp, RoundsTypeOK
<1>9. ASSUME NEW c \in Schedulers, NEW label \in Labels, AskRename(c, label) PROVE StayTrue
  BY <1>9, AskRenameTrue
<1>10. ASSUME NEW x \in renames, ListRounds(x) PROVE StayTrue
  BY <1>10, ListTrue
<1>11. ASSUME NEW x \in renames, CommitRename(x) PROVE StayTrue
  BY <1>11, RenameTrue
<1>12. ASSUME NEW x \in renames, LeaveRename(x) PROVE StayTrue
  BY <1>12, Going DEF LeaveRename, RoundsTypeOK
<1>13. ASSUME NEW active \in BOOLEAN, ChangeApplication(active) PROVE StayTrue
  BY <1>13, ChangeApplicationTrue
<1>14. CASE UNCHANGED roundsVars
  BY <1>14, Going DEF roundsVars, RoundsTypeOK
<1> QED BY <1>1, <1>2, <1>3, <1>4, <1>5, <1>6, <1>7, <1>8, <1>9, <1>10, <1>11, <1>12, <1>13, <1>14
        DEF RoundsNext

LEMMA StepTrue == LabelsInv /\ [RoundsNext]_roundsVars => LabelsInv'
BY StepStays DEF StayTrue, LabelsInv

\* What a step does to an interview that carries the application's label.
KeepsLabels == \A r \in Held : rounds[r].label = application.label => rounds'[r].label = application'.label

LEMMA StepKeeps == LabelsInv /\ [RoundsNext]_roundsVars => KeepsLabels
<1> SUFFICES ASSUME LabelsInv, [RoundsNext]_roundsVars,
                    NEW r \in Held, rounds[r].label = application.label
             PROVE  rounds'[r].label = application'.label
  BY DEF KeepsLabels
<1>1. ASSUME NEW x \in changes, CommitChange(x) PROVE rounds'[r].label = application'.label
  <2>1. /\ True(x) /\ x.stage = "ready" /\ rounds[x.round].version = x.version
        /\ rounds' = [rounds EXCEPT ![x.round] = x.plan] /\ application' = application
        /\ rounds \in [Rounds -> RoundRecords] /\ r \in Rounds
    BY <1>1 DEF LabelsInv, RoundsTypeOK, ChangesTrue, CommitChange, Held
  <2>2. CASE x.round = r
    BY <2>1, <2>2 DEF True, Fresh, Held
  <2>3. CASE x.round # r
    BY <2>1, <2>3
  <2> QED BY <2>2, <2>3
<1>2. ASSUME NEW x \in renames, CommitRename(x) PROVE rounds'[r].label = application'.label
  <2>1. rounds'[r].label = x.label
    BY <1>2, Renamed DEF LabelsInv
  <2>2. application \in [version : Nat, label : Labels, active : BOOLEAN]
    BY DEF LabelsInv, RoundsTypeOK
  <2>3. application' = [application EXCEPT !.version = @ + 1, !.label = x.label]
    BY <1>2 DEF CommitRename
  <2> QED BY <2>1, <2>2, <2>3
<1>3. ASSUME NEW active \in BOOLEAN, ChangeApplication(active) PROVE rounds'[r].label = application'.label
  BY <1>3, ChangeApplicationTrue DEF ChangeApplication, LabelsInv
<1>4. CASE UNCHANGED <<application, rounds>>
  BY <1>4
<1> QED BY <1>1, <1>2, <1>3, <1>4
        DEF RoundsNext, roundsVars, Schedule, AskChange, PlanChange, QueryRounds, ReadContext, LeaveChange,
            CatchUp, AskRename, ListRounds, LeaveRename

(***************************************************************************)
(* No change and no rename takes the application's label from an interview *)
(* that carries it, for any number of interviews and requests.             *)
(***************************************************************************)
THEOREM LabelsAlwaysKept == RoundsSpec => LabelsKept
<1>1. LabelsInv /\ [RoundsNext]_roundsVars => [KeepsLabels]_roundsVars
  BY StepKeeps
<1> QED BY LabelsInit, StepTrue, <1>1, PTL DEF RoundsSpec, LabelsKept, KeepsLabels

(***************************************************************************)
(* The interviews, the requests for them and the projection keep their     *)
(* types, for any interviews, labels and concurrent requests.              *)
(***************************************************************************)
THEOREM RoundsTyped == RoundsSpec => []RoundsTypeOK
<1>1. LabelsInv => RoundsTypeOK
  BY DEF LabelsInv
<1> QED BY LabelsInit, StepTrue, <1>1, PTL DEF RoundsSpec

-------------------------------------------------------------------------------
(***************************************************************************)
(* The repair, for any number of applications and interviews.  What a      *)
(* repair saw is what is there for as long as it is alone (DoneSoFar): so  *)
(* it puts back what is there, and derives the context and the counters    *)
(* from the records themselves.  What it finds in the counters and in the  *)
(* context, it never reads.                                                *)
(***************************************************************************)
Stages == {"off", "scan applications", "scan interviews", "applications", "interviews",
           "context", "counters", "funnel", "done"}

\* The records are tables of the applications, the interviews, the statuses.
Table(f, S) == f = [x \in S |-> f[x]]

Shaped == repair = [stage |-> repair.stage, left |-> repair.left, seen |-> repair.seen,
                    table |-> repair.table, alone |-> repair.alone]

Tables ==
    /\ Table(applications, Tracked) /\ Table(rounds, Rounds) /\ Table(statusCount, Statuses)
    /\ Table(repair.seen, Tracked) /\ Table(repair.table, Rounds)

StageOK ==
    /\ repair.stage \in Stages
    /\ repair.stage = "counters" => repair.left # {} /\ repair.left \subseteq Statuses

SeenAll == \A a \in Tracked : repair.seen[a] = applications[a]
TableRead == \A r \in Rounds : repair.table[r] = rounds[r]
ContextWritten == context = NextInterview(repair.table, 1)
Counted(s) == statusCount[s] = Cardinality(WithStatus(s))

\* What a repair that is alone has seen and done at each of its stages.
DoneSoFar ==
    /\ repair.stage = "scan applications" =>
          \A a \in Tracked \ repair.left : repair.seen[a] = applications[a]
    /\ repair.stage \notin {"off", "scan applications"} => SeenAll
    /\ repair.stage = "scan interviews" =>
          \A r \in Rounds \ repair.left : repair.table[r] = rounds[r]
    /\ repair.stage \notin {"off", "scan applications", "scan interviews"} => TableRead
    /\ repair.stage \in {"counters", "funnel", "done"} => ContextWritten
    /\ repair.stage = "counters" => \A s \in Statuses \ repair.left : Counted(s)
    /\ repair.stage \in {"funnel", "done"} => \A s \in Statuses : Counted(s)
    /\ repair.stage = "done" => \A k \in Steps : funnel[k] = Cardinality(Beyond(k))

RepairInv == Shaped /\ Tables /\ StageOK /\ (repair.alone => DoneSoFar)

\* One item of a stage done: the stage goes on with the rest, or is over.
Went(item, next, items) ==
    \/ repair'.stage = next /\ repair'.left = items /\ repair.left = {item}
    \/ repair'.stage = repair.stage /\ repair'.left = repair.left \ {item} /\ repair.left \ {item} # {}

LEMMA DoneOf ==
    ASSUME Shaped, NEW item \in repair.left, NEW next, NEW items, Done(repair, item, next, items)
    PROVE  /\ repair'.seen = repair.seen /\ repair'.table = repair.table /\ repair'.alone = repair.alone
           /\ Went(item, next, items)
           /\ Shaped'
<1>0. PICK s, l, f, t, o : repair = [stage |-> s, left |-> l, seen |-> f, table |-> t, alone |-> o]
  BY DEF Shaped
<1>1. repair' = [stage |-> IF l = {item} THEN next ELSE s, left |-> IF l = {item} THEN items ELSE l \ {item},
                 seen |-> f, table |-> t, alone |-> o]
  BY <1>0 DEF Done
<1>2. Shaped'
  BY <1>1 DEF Shaped
<1>3. Went(item, next, items)
  BY <1>0, <1>1 DEF Went
<1> QED BY <1>0, <1>1, <1>2, <1>3

LEMMA DoneSeen ==
    ASSUME Shaped, NEW a \in repair.left, ScanApplication(a)
    PROVE  /\ repair'.seen = [repair.seen EXCEPT ![a] = applications[a]]
           /\ repair'.table = repair.table /\ repair'.alone = repair.alone
           /\ Went(a, "scan interviews", Rounds)
           /\ Shaped'
<1>0. PICK s, l, f, t, o : repair = [stage |-> s, left |-> l, seen |-> f, table |-> t, alone |-> o]
  BY DEF Shaped
<1>1. repair' = [stage |-> IF l = {a} THEN "scan interviews" ELSE s, left |-> IF l = {a} THEN Rounds ELSE l \ {a},
                 seen |-> [f EXCEPT ![a] = applications[a]], table |-> t, alone |-> o]
  BY <1>0 DEF Done, ScanApplication
<1>2. Shaped'
  BY <1>1 DEF Shaped
<1>3. Went(a, "scan interviews", Rounds)
  BY <1>0, <1>1 DEF Went
<1> QED BY <1>0, <1>1, <1>2, <1>3

LEMMA DoneTable ==
    ASSUME Shaped, NEW r \in repair.left, ScanInterview(r)
    PROVE  /\ repair'.table = [repair.table EXCEPT ![r] = rounds[r]]
           /\ repair'.seen = repair.seen /\ repair'.alone = repair.alone
           /\ Went(r, "applications", Tracked)
           /\ Shaped'
<1>0. PICK s, l, f, t, o : repair = [stage |-> s, left |-> l, seen |-> f, table |-> t, alone |-> o]
  BY DEF Shaped
<1>1. repair' = [stage |-> IF l = {r} THEN "applications" ELSE s, left |-> IF l = {r} THEN Tracked ELSE l \ {r},
                 seen |-> f, table |-> [t EXCEPT ![r] = rounds[r]], alone |-> o]
  BY <1>0 DEF Done, ScanInterview
<1>2. Shaped'
  BY <1>1 DEF Shaped
<1>3. Went(r, "applications", Tracked)
  BY <1>0, <1>1 DEF Went
<1> QED BY <1>0, <1>1, <1>2, <1>3

LEMMA RepairStarts == RepairInit => RepairInv
<1> SUFFICES ASSUME RepairInit PROVE RepairInv
  OBVIOUS
<1>1. repair = Off /\ repair.stage = "off"
  BY DEF RepairInit, Off
<1>2. Table(applications, Tracked) /\ Table(rounds, Rounds) /\ Table(statusCount, Statuses)
  BY DEF RepairInit, Table
<1>3. StageOK /\ DoneSoFar
  BY <1>1 DEF StageOK, DoneSoFar, Stages
<1>4. Tables
  BY <1>1, <1>2 DEF Tables, Off, Table
<1>5. Shaped
  BY <1>1 DEF Shaped, Off
<1> QED BY <1>3, <1>4, <1>5 DEF RepairInv

\* Whole tables that agree everywhere are the same.
LEMMA SameTables ==
    ASSUME Tables
    PROVE  TableRead => repair.table = rounds
BY DEF Tables, Table, TableRead

LEMMA ScanApplicationKeeps ==
    ASSUME RepairInv, NEW a \in Tracked, ScanApplication(a)
    PROVE  RepairInv'
<1>1. Shaped /\ Tables /\ repair.stage = "scan applications" /\ a \in repair.left
  BY DEF RepairInv, ScanApplication, Doing
<1>2. /\ Went(a, "scan interviews", Rounds) /\ Shaped'
      /\ repair'.seen = [repair.seen EXCEPT ![a] = applications[a]]
      /\ repair'.table = repair.table /\ repair'.alone = repair.alone
  BY <1>1, DoneSeen
<1>3. UNCHANGED <<applications, rounds, statusCount>>
  BY DEF ScanApplication, countersVars, roundsVars, counters
<1>4. Tables' /\ StageOK'
  BY <1>1, <1>2, <1>3 DEF Tables, StageOK, Stages, Table, Went
<1>5. ASSUME repair.alone PROVE DoneSoFar'
  <2>1. \A b \in Tracked \ repair.left : repair.seen[b] = applications[b]
    BY <1>1, <1>5 DEF RepairInv, DoneSoFar
  <2>2. \A b \in Tracked \ (repair.left \ {a}) : repair'.seen[b] = applications[b]
    BY <1>1, <1>2, <2>1 DEF Tables, Table
  <2> QED BY <1>1, <1>2, <1>3, <2>2 DEF DoneSoFar, SeenAll, Went
<1> QED BY <1>2, <1>4, <1>5 DEF RepairInv

LEMMA ScanInterviewKeeps ==
    ASSUME RepairInv, NEW r \in Rounds, ScanInterview(r)
    PROVE  RepairInv'
<1>1. Shaped /\ Tables /\ repair.stage = "scan interviews" /\ r \in repair.left
  BY DEF RepairInv, ScanInterview, Doing
<1>2. /\ Went(r, "applications", Tracked) /\ Shaped'
      /\ repair'.table = [repair.table EXCEPT ![r] = rounds[r]]
      /\ repair'.seen = repair.seen /\ repair'.alone = repair.alone
  BY <1>1, DoneTable
<1>3. UNCHANGED <<applications, rounds, statusCount>>
  BY DEF ScanInterview, countersVars, roundsVars, counters
<1>4. Tables' /\ StageOK'
  BY <1>1, <1>2, <1>3 DEF Tables, StageOK, Stages, Table, Went
<1>5. ASSUME repair.alone PROVE DoneSoFar'
  <2>1. SeenAll /\ \A s \in Rounds \ repair.left : repair.table[s] = rounds[s]
    BY <1>1, <1>5 DEF RepairInv, DoneSoFar
  <2>2. \A s \in Rounds \ (repair.left \ {r}) : repair'.table[s] = rounds[s]
    BY <1>1, <1>2, <2>1 DEF Tables, Table
  <2> QED BY <1>1, <1>2, <1>3, <2>1, <2>2 DEF DoneSoFar, SeenAll, TableRead, Went
<1> QED BY <1>2, <1>4, <1>5 DEF RepairInv

\* Alone, a repair puts back what is there.
LEMMA RewriteApplicationKeeps ==
    ASSUME RepairInv, NEW a \in Tracked, RewriteApplication(a)
    PROVE  RepairInv'
<1>1. Shaped /\ Tables /\ repair.stage = "applications" /\ a \in repair.left
  BY DEF RepairInv, RewriteApplication, Doing
<1>2. /\ Went(a, "interviews", Rounds) /\ Shaped'
      /\ repair'.seen = repair.seen /\ repair'.table = repair.table /\ repair'.alone = repair.alone
  BY <1>1, DoneOf DEF RewriteApplication
<1>3. UNCHANGED <<rounds, statusCount>>
  BY DEF RewriteApplication, roundsVars, counters
<1>4. Tables' /\ StageOK'
  BY <1>1, <1>2, <1>3 DEF RewriteApplication, Tables, StageOK, Stages, Table, Went
<1>5. ASSUME repair.alone PROVE DoneSoFar'
  <2>1. SeenAll /\ TableRead
    BY <1>1, <1>5 DEF RepairInv, DoneSoFar
  <2>2. applications' = applications
    BY <1>1, <2>1 DEF RewriteApplication, SeenAll, Tables, Table
  <2> QED BY <1>1, <1>2, <1>3, <2>1, <2>2 DEF DoneSoFar, SeenAll, TableRead, Went
<1> QED BY <1>2, <1>4, <1>5 DEF RepairInv

LEMMA RewriteInterviewKeeps ==
    ASSUME RepairInv, NEW r \in Rounds, RewriteInterview(r)
    PROVE  RepairInv'
<1>1. Shaped /\ Tables /\ repair.stage = "interviews" /\ r \in repair.left
  BY DEF RepairInv, RewriteInterview, Doing
<1>2. /\ Went(r, "context", {"context"}) /\ Shaped'
      /\ repair'.seen = repair.seen /\ repair'.table = repair.table /\ repair'.alone = repair.alone
  BY <1>1, DoneOf DEF RewriteInterview
<1>3. UNCHANGED <<applications, statusCount>>
  BY DEF RewriteInterview, countersVars, counters
<1>4. Tables' /\ StageOK'
  BY <1>1, <1>2, <1>3 DEF RewriteInterview, Tables, StageOK, Stages, Table, Went
<1>5. ASSUME repair.alone PROVE DoneSoFar'
  <2>1. SeenAll /\ TableRead
    BY <1>1, <1>5 DEF RepairInv, DoneSoFar
  <2>2. rounds' = rounds
    BY <1>1, <2>1 DEF RewriteInterview, TableRead, Tables, Table
  <2> QED BY <1>1, <1>2, <1>3, <2>1, <2>2 DEF DoneSoFar, SeenAll, TableRead, Went
<1> QED BY <1>2, <1>4, <1>5 DEF RepairInv

LEMMA WriteContextKeeps ==
    ASSUME RepairInv, WriteContext
    PROVE  RepairInv'
<1>1. Shaped /\ Tables /\ repair.stage = "context" /\ "context" \in repair.left
  BY DEF RepairInv, WriteContext, Doing
<1>2. /\ Went("context", "counters", Statuses) /\ Shaped'
      /\ repair'.seen = repair.seen /\ repair'.table = repair.table /\ repair'.alone = repair.alone
  BY <1>1, DoneOf DEF WriteContext
<1>3. UNCHANGED <<applications, rounds, statusCount>>
  BY DEF WriteContext, countersVars, counters
<1>4. Tables' /\ StageOK'
  BY <1>1, <1>2, <1>3 DEF Tables, StageOK, Stages, Table, Went, Statuses
<1>5. ASSUME repair.alone PROVE DoneSoFar'
  <2>1. SeenAll /\ TableRead
    BY <1>1, <1>5 DEF RepairInv, DoneSoFar
  <2>2. ContextWritten'
    BY <1>2 DEF WriteContext, ContextWritten, NextInterview, Scheduled, Earliest, Sooner
  <2> QED BY <1>1, <1>2, <1>3, <2>1, <2>2 DEF DoneSoFar, SeenAll, TableRead, Went
<1> QED BY <1>2, <1>4, <1>5 DEF RepairInv

\* What was seen is counted as what is there.
LEMMA CountedAsSeen ==
    ASSUME SeenAll
    PROVE  /\ Seen = Existing
           /\ \A s : {a \in Seen : repair.seen[a].status = s} = WithStatus(s)
           /\ \A k : {a \in Seen : k \in {"tracked"} \cup repair.seen[a].miles} = Beyond(k)
BY DEF SeenAll, Seen, Existing, WithStatus, Beyond

LEMMA WriteStatusCounterKeeps ==
    ASSUME RepairInv, WriteStatusCounter
    PROVE  RepairInv'
<1> DEFINE s == CHOOSE s \in repair.left : TRUE
<1>1. Shaped /\ Tables /\ repair.stage = "counters" /\ repair.left # {} /\ repair.left \subseteq Statuses
  BY DEF RepairInv, WriteStatusCounter, StageOK
<1>0. s \in repair.left /\ s \in Statuses
  BY <1>1
<1>2. /\ Done(repair, s, "funnel", {"funnel"})
      /\ statusCount' = [statusCount EXCEPT ![s] = Cardinality({a \in Seen : repair.seen[a].status = s})]
      /\ UNCHANGED <<applications, rounds, context>>
  BY DEF WriteStatusCounter, roundsVars
<1> HIDE DEF s
<1>3. /\ Went(s, "funnel", {"funnel"}) /\ Shaped'
      /\ repair'.seen = repair.seen /\ repair'.table = repair.table /\ repair'.alone = repair.alone
  BY <1>0, <1>1, <1>2, DoneOf
<1>4. Tables' /\ StageOK'
  BY <1>0, <1>1, <1>2, <1>3 DEF Tables, StageOK, Stages, Table, Went
<1>5. ASSUME repair.alone PROVE DoneSoFar'
  <2>1. SeenAll /\ TableRead /\ ContextWritten /\ \A t \in Statuses \ repair.left : Counted(t)
    BY <1>1, <1>5 DEF RepairInv, DoneSoFar
  <2>2. \A t : WithStatus(t)' = WithStatus(t)
    BY <1>2 DEF WithStatus, Existing
  <2>3. statusCount'[s] = Cardinality(WithStatus(s)) /\ \A t \in Statuses \ {s} : statusCount'[t] = statusCount[t]
    BY <1>0, <1>1, <1>2, <2>1, CountedAsSeen DEF Tables, Table
  <2>4. \A t \in Statuses \ (repair.left \ {s}) : Counted(t)'
    BY <2>1, <2>2, <2>3 DEF Counted
  <2>5. SeenAll' /\ TableRead' /\ ContextWritten'
    BY <1>2, <1>3, <2>1 DEF SeenAll, TableRead, ContextWritten
  <2> QED BY <1>1, <1>3, <2>4, <2>5 DEF DoneSoFar, Went
<1> QED BY <1>3, <1>4, <1>5 DEF RepairInv

LEMMA WriteFunnelKeeps ==
    ASSUME RepairInv, WriteFunnel
    PROVE  RepairInv'
<1>1. Shaped /\ Tables /\ repair.stage = "funnel" /\ "funnel" \in repair.left
  BY DEF RepairInv, WriteFunnel, Doing
<1>2. /\ Went("funnel", "done", {}) /\ Shaped'
      /\ repair'.seen = repair.seen /\ repair'.table = repair.table /\ repair'.alone = repair.alone
  BY <1>1, DoneOf DEF WriteFunnel
<1>3. UNCHANGED <<applications, rounds, context, statusCount>>
  BY DEF WriteFunnel, roundsVars
<1>4. Tables' /\ StageOK'
  BY <1>1, <1>2, <1>3 DEF Tables, StageOK, Stages, Table, Went
<1>5. ASSUME repair.alone PROVE DoneSoFar'
  <2>1. SeenAll /\ TableRead /\ ContextWritten /\ \A t \in Statuses : Counted(t)
    BY <1>1, <1>5 DEF RepairInv, DoneSoFar
  <2>2. /\ \A t : WithStatus(t)' = WithStatus(t)
        /\ \A k : Beyond(k)' = Beyond(k)
    BY <1>3 DEF WithStatus, Beyond, Existing
  <2>3. \A k \in Steps : funnel'[k] = Cardinality(Beyond(k)')
    BY <2>1, <2>2, CountedAsSeen DEF WriteFunnel
  <2>4. \A t \in Statuses : Counted(t)'
    BY <1>3, <2>1, <2>2 DEF Counted
  <2>5. SeenAll' /\ TableRead' /\ ContextWritten'
    BY <1>2, <1>3, <2>1 DEF SeenAll, TableRead, ContextWritten
  <2> QED BY <1>1, <1>2, <2>3, <2>4, <2>5 DEF DoneSoFar, Went
<1> QED BY <1>2, <1>4, <1>5 DEF RepairInv

LEMMA BeginsOrStops ==
    ASSUME RepairInv, StartRepair \/ StopRepair
    PROVE  RepairInv'
<1>1. PICK s, l : /\ repair' = [stage |-> s, left |-> l, seen |-> [a \in Tracked |-> Untracked],
                                table |-> [r \in Rounds |-> NoRound], alone |-> TRUE]
                  /\ s = "off" \/ (s = "scan applications" /\ l = Tracked)
  <2>1. CASE StartRepair
    <3>1. repair' = [stage |-> "scan applications", left |-> Tracked, seen |-> [a \in Tracked |-> Untracked],
                     table |-> [r \in Rounds |-> NoRound], alone |-> TRUE]
      BY <2>1 DEF StartRepair, Off
    <3> QED BY <3>1
  <2>2. CASE StopRepair
    BY <2>2 DEF StopRepair, Off
  <2> QED BY <2>1, <2>2
<1>2. repair'.stage = "off" \/ (repair'.stage = "scan applications" /\ repair'.left = Tracked)
  BY <1>1
<1>3. UNCHANGED <<applications, rounds, statusCount>>
  BY DEF StartRepair, StopRepair, countersVars, roundsVars, counters
<1>4. Shaped'
  BY <1>1 DEF Shaped
<1>5. Tables'
  BY <1>1, <1>3 DEF RepairInv, Tables, Table
<1>6. StageOK' /\ DoneSoFar'
  BY <1>2 DEF StageOK, Stages, DoneSoFar
<1> QED BY <1>4, <1>5, <1>6 DEF RepairInv

(***************************************************************************)
(* The application at work keeps the tables whole; what it writes ends the *)
(* repair's being alone.                                                   *)
(***************************************************************************)
LEMMA OthersKeepTables ==
    ASSUME Tables, (CountersNext /\ UNCHANGED roundsVars) \/ (RoundsNext /\ UNCHANGED countersVars)
    PROVE  Table(applications, Tracked)' /\ Table(rounds, Rounds)' /\ Table(statusCount, Statuses)'
<1>1. CASE CountersNext /\ UNCHANGED roundsVars
  BY <1>1 DEF Tables, Table, CountersNext, roundsVars, Create, ReadApplication, ChangeStatus, ChangeDetails,
              LeaveApplication, Replaces, counters
<1>2. CASE RoundsNext /\ UNCHANGED countersVars
  BY <1>2 DEF Tables, Table, RoundsNext, countersVars, Schedule, AskChange, PlanChange, QueryRounds, ReadContext,
              CommitChange, LeaveChange, CatchUp, AskRename, ListRounds, CommitRename, LeaveRename,
              ChangeApplication
<1> QED BY <1>1, <1>2

LEMMA InterferenceKeeps ==
    ASSUME RepairInv, Interferes,
           (CountersNext /\ UNCHANGED roundsVars) \/ (RoundsNext /\ UNCHANGED countersVars)
    PROVE  RepairInv'
<1> DEFINE o == repair.stage = "off" \/ (repair.alone /\ UNCHANGED <<applications, counters, application, rounds, context>>)
<1>1. repair' = [repair EXCEPT !.alone = o] /\ Shaped
  BY DEF Interferes, RepairInv
<1> HIDE DEF o
<1>2. repair' = [stage |-> repair.stage, left |-> repair.left, seen |-> repair.seen, table |-> repair.table, alone |-> o]
  BY <1>1, SMT DEF Shaped
<1>3. /\ repair'.stage = repair.stage /\ repair'.left = repair.left /\ repair'.seen = repair.seen
      /\ repair'.table = repair.table /\ repair'.alone = o
  BY <1>2
<1>4. Shaped' /\ StageOK'
  BY <1>2, <1>3 DEF Shaped, StageOK, RepairInv
<1>5. Tables'
  BY <1>3, OthersKeepTables DEF RepairInv, Tables
<1>6. ASSUME o PROVE DoneSoFar'
  <2>1. CASE repair.stage = "off"
    BY <1>3, <2>1 DEF DoneSoFar
  <2>2. CASE repair.alone /\ UNCHANGED <<applications, counters, application, rounds, context>>
    BY <1>3, <2>2 DEF RepairInv, DoneSoFar, SeenAll, TableRead, ContextWritten, Counted, counters, WithStatus, Beyond, Existing
  <2> QED BY <1>6, <2>1, <2>2 DEF o
<1> QED BY <1>3, <1>4, <1>5, <1>6 DEF RepairInv

LEMMA RepairKeeps == RepairInv /\ [RepairNext]_repairVars => RepairInv'
<1>1. ASSUME RepairInv, UNCHANGED repairVars PROVE RepairInv'
  BY <1>1 DEF repairVars, countersVars, roundsVars, RepairInv, Shaped, Tables, StageOK, DoneSoFar, SeenAll, TableRead,
              ContextWritten, Counted, WithStatus, Beyond, Existing
<1>2. ASSUME RepairInv, Repairing PROVE RepairInv'
  BY <1>2, BeginsOrStops, ScanApplicationKeeps, ScanInterviewKeeps, RewriteApplicationKeeps, RewriteInterviewKeeps,
     WriteContextKeeps, WriteStatusCounterKeeps, WriteFunnelKeeps DEF Repairing
<1> QED BY <1>1, <1>2, InterferenceKeeps DEF RepairNext

(***************************************************************************)
(* A repair that ran to its end alone leaves the counters and the context  *)
(* exact, for any number of applications and interviews, wherever it was   *)
(* stopped before.                                                         *)
(***************************************************************************)
THEOREM RepairIsComplete == RepairSpec => []RepairsAll
<1>1. RepairInv => RepairsAll
  <2> SUFFICES ASSUME RepairInv, repair.stage = "done", repair.alone PROVE CountersExact /\ ContextExact
    BY DEF RepairsAll
  <2>1. CountersExact
    BY DEF RepairInv, DoneSoFar, Counted, CountersExact
  <2>2. context = NextInterview(rounds, 1)
    BY SameTables DEF RepairInv, DoneSoFar, ContextWritten
  <2>3. ContextExact
    BY <2>2 DEF ContextExact, NextInterview, NoContext
  <2> QED BY <2>1, <2>3
<1> QED BY RepairStarts, RepairKeeps, <1>1, PTL DEF RepairSpec

-------------------------------------------------------------------------------
(***************************************************************************)
(* The types, in which a repair puts back no more than what it saw.        *)
(***************************************************************************)
LEMMA CountersStay == CountersTypeOK /\ CountersNext => CountersTypeOK'
<1> SUFFICES ASSUME CountersTypeOK, CountersNext PROVE CountersTypeOK'
  OBVIOUS
<1>1. /\ applications \in [Tracked -> Versions] /\ statusCount \in [Statuses -> Int] /\ funnel \in [Steps -> Int]
      /\ edits \subseteq [by : Editors, app : Tracked, copy : Versions]
  BY DEF CountersTypeOK
<1>2. ASSUME NEW a \in Tracked, NEW status \in Statuses, Create(a, status) PROVE CountersTypeOK'
  <2> DEFINE new == [version |-> 1, status |-> status, from |-> status,
                     dated |-> status # "DRAFT", miles |-> Reached(status)]
  <2>1. new \in Versions
    BY MilestonesTyped DEF Versions
  <2>2. applications' = [applications EXCEPT ![a] = new]
    BY <1>2 DEF Create
  <2> HIDE DEF new
  <2> QED BY <1>1, <1>2, <2>1, <2>2 DEF CountersTypeOK, Create, Steps
<1>3. ASSUME NEW e \in Editors, NEW a \in Tracked, ReadApplication(e, a) PROVE CountersTypeOK'
  BY <1>1, <1>3 DEF CountersTypeOK, ReadApplication, counters
<1>4. ASSUME NEW x \in edits, NEW target \in Statuses, NEW supplied \in BOOLEAN, ChangeStatus(x, target, supplied)
      PROVE  CountersTypeOK'
  <2> DEFINE new == Moved(x.copy, target, supplied)
  <2>1. x.app \in Tracked /\ x.copy \in Versions
    BY <1>1
  <2>2. new \in Versions
    BY <2>1, MilestonesTyped DEF Moved, Versions
  <2>3. applications' = [applications EXCEPT ![x.app] = new] /\ edits' \subseteq edits
    BY <1>4 DEF ChangeStatus, Replaces
  <2> HIDE DEF new
  <2> QED BY <1>1, <1>4, <2>1, <2>2, <2>3 DEF CountersTypeOK, ChangeStatus, Steps
<1>5. ASSUME NEW x \in edits, NEW dated \in BOOLEAN, ChangeDetails(x, dated) PROVE CountersTypeOK'
  <2> DEFINE new == [x.copy EXCEPT !.version = @ + 1, !.dated = dated]
  <2>1. x.app \in Tracked /\ x.copy \in Versions
    BY <1>1
  <2>2. new = [version |-> x.copy.version + 1, status |-> x.copy.status, from |-> x.copy.from,
               dated |-> dated, miles |-> x.copy.miles]
    BY <2>1, DetailsAre
  <2>3. new \in Versions
    BY <2>1, <2>2 DEF Versions
  <2>4. applications' = [applications EXCEPT ![x.app] = new] /\ edits' \subseteq edits /\ UNCHANGED counters
    BY <1>5 DEF ChangeDetails, Replaces
  <2> HIDE DEF new
  <2> QED BY <1>1, <2>1, <2>3, <2>4 DEF CountersTypeOK, counters
<1>6. ASSUME NEW x \in edits, LeaveApplication(x) PROVE CountersTypeOK'
  BY <1>1, <1>6 DEF CountersTypeOK, LeaveApplication, counters
<1> QED BY <1>2, <1>3, <1>4, <1>5, <1>6 DEF CountersNext

\* Where the repair is, as far as its type goes.
AtWork ==
    /\ repair.seen \in [Tracked -> Versions] /\ repair.table \in [Rounds -> RoundRecords]
    /\ repair.stage = "off" => repair = Off

LEMMA Unseen == [a \in Tracked |-> Untracked] \in [Tracked -> Versions] /\ [r \in Rounds |-> NoRound] \in [Rounds -> RoundRecords]
BY DEF Untracked, Versions, Statuses, NoRound, RoundRecords, Workflow

LEMMA RepairTypesStart == RepairInit => RepairTypeOK
<1> SUFFICES ASSUME RepairInit PROVE RepairTypeOK
  OBVIOUS
<1>1. repair = Off /\ edits = {} /\ changes = {} /\ renames = {} /\ replica = rounds
  BY DEF RepairInit
<1>2. repair.seen \in [Tracked -> Versions] /\ repair.table \in [Rounds -> RoundRecords]
  BY <1>1, Unseen DEF Off
<1>3. applications \in [Tracked -> Versions]
  <2>1. Untracked \in Versions
    BY DEF Untracked, Versions, Statuses
  <2>2. ASSUME NEW s \in {"APPLIED", "INTERVIEW"}
        PROVE  [version |-> 1, status |-> s, from |-> s, dated |-> TRUE, miles |-> Reached(s)] \in Versions
    BY <2>2, MilestonesTyped DEF Versions, Statuses
  <2>3. applications \in [Tracked -> {Untracked} \cup
             {[version |-> 1, status |-> s, from |-> s, dated |-> TRUE, miles |-> Reached(s)] :
                  s \in {"APPLIED", "INTERVIEW"}}]
    BY DEF RepairInit
  <2>4. {Untracked} \cup {[version |-> 1, status |-> s, from |-> s, dated |-> TRUE, miles |-> Reached(s)] :
                  s \in {"APPLIED", "INTERVIEW"}} \subseteq Versions
    BY <2>1, <2>2
  <2> QED BY <2>3, <2>4
<1>4. statusCount \in [Statuses -> Int] /\ funnel \in [Steps -> Int]
  BY DEF RepairInit
<1>5. application \in [version : Nat, label : Labels, active : BOOLEAN]
  <2>1. application \in [version : {1}, label : Labels, active : {TRUE}]
    BY DEF RepairInit
  <2>2. /\ application = [version |-> application.version, label |-> application.label, active |-> application.active]
        /\ application.version \in {1} /\ application.label \in Labels /\ application.active \in {TRUE}
    BY <2>1
  <2>3. (\A v \in {1} : v \in Nat) /\ (\A v \in {TRUE} : v \in BOOLEAN)
    OBVIOUS
  <2> QED BY <2>2, <2>3
<1>6. PICK at \in Hours :
        /\ rounds \in [Rounds -> {NoRound} \cup
               [version : {1}, status : {"SCHEDULED", "CANCELED"}, at : {at}, label : {application.label}]]
        /\ context \in {NoContext} \cup {[version |-> 2, round |-> r, at |-> at] : r \in Rounds}
  BY DEF RepairInit
<1>7. rounds \in [Rounds -> RoundRecords]
  <2>1. NoRound \in RoundRecords
    BY DEF NoRound, RoundRecords, Workflow
  <2>2. [version : {1}, status : {"SCHEDULED", "CANCELED"}, at : {at}, label : {application.label}] \subseteq RoundRecords
    <3> SUFFICES ASSUME NEW rec \in [version : {1}, status : {"SCHEDULED", "CANCELED"}, at : {at}, label : {application.label}]
                 PROVE  rec \in RoundRecords
      OBVIOUS
    <3>1. /\ rec = [version |-> rec.version, status |-> rec.status, at |-> rec.at, label |-> rec.label]
          /\ rec.version \in {1} /\ rec.status \in {"SCHEDULED", "CANCELED"}
          /\ rec.at \in {at} /\ rec.label \in {application.label}
      OBVIOUS
    <3>2. /\ rec.version \in Nat /\ rec.status \in Workflow
          /\ rec.at \in Hours \cup {0} /\ rec.label \in Labels \cup {""}
      <4>1. \A v \in {1} : v \in Nat
        OBVIOUS
      <4>2. application.label \in Labels
        BY <1>5
      <4> QED BY <3>1, <4>1, <4>2 DEF Workflow
    <3> QED BY <3>1, <3>2 DEF RoundRecords
  <2> QED BY <1>6, <2>1, <2>2
<1>8. context \in Contexts
  BY <1>6 DEF Contexts, NoContext
<1> QED BY <1>1, <1>2, <1>3, <1>4, <1>5, <1>7, <1>8 DEF RepairTypeOK, CountersTypeOK, RoundsTypeOK

\* An item of a stage is done, and the repair is still at work.
LEMMA GoesOn ==
    ASSUME AtWork, NEW item, NEW next, next # "off", NEW items, Went(item, next, items), repair.stage # "off",
           repair'.seen \in [Tracked -> Versions], repair'.table \in [Rounds -> RoundRecords]
    PROVE  AtWork'
BY DEF AtWork, Went

LEMMA Counts == \A S \in SUBSET Seen : Cardinality(S) \in Int
<1>1. \A S \in SUBSET Tracked : Cardinality(S) \in Nat
  BY CountersAssumption, FS_Subset, FS_CardinalityType
<1> QED BY <1>1 DEF Seen

LEMMA RepairTypesKeep == RepairInv /\ RepairTypeOK /\ [RepairNext]_repairVars => RepairTypeOK'
<1> SUFFICES ASSUME RepairInv, RepairTypeOK, [RepairNext]_repairVars PROVE RepairTypeOK'
  OBVIOUS
<1>1. CountersTypeOK /\ RoundsTypeOK /\ AtWork /\ Shaped
  BY DEF RepairTypeOK, AtWork, RepairInv
<1> DEFINE Good == CountersTypeOK /\ RoundsTypeOK /\ AtWork
<1> SUFFICES Good'
  BY DEF RepairTypeOK, AtWork
<1>2. UNCHANGED countersVars => CountersTypeOK'
  BY <1>1 DEF countersVars, CountersTypeOK
<1>3. UNCHANGED roundsVars => RoundsTypeOK'
  BY <1>1 DEF roundsVars, RoundsTypeOK
<1>4. CASE StartRepair \/ StopRepair
  <2>1. UNCHANGED <<countersVars, roundsVars>>
    BY <1>4 DEF StartRepair, StopRepair
  <2>2. AtWork'
    <3>1. CASE StopRepair
      BY <3>1, Unseen DEF StopRepair, Off, AtWork
    <3>2. CASE StartRepair
      <4>1. repair' = [stage |-> "scan applications", left |-> Tracked, seen |-> [a \in Tracked |-> Untracked],
                       table |-> [r \in Rounds |-> NoRound], alone |-> TRUE]
        BY <3>2 DEF StartRepair, Off
      <4> QED BY <4>1, Unseen DEF AtWork
    <3> QED BY <1>4, <3>1, <3>2
  <2> QED BY <1>2, <1>3, <2>1, <2>2
<1>5. ASSUME NEW a \in Tracked, ScanApplication(a) PROVE Good'
  <2>1. a \in repair.left /\ repair.stage # "off" /\ UNCHANGED <<countersVars, roundsVars>>
    BY <1>5 DEF ScanApplication, Doing
  <2>2. /\ repair'.seen = [repair.seen EXCEPT ![a] = applications[a]] /\ repair'.table = repair.table
        /\ Went(a, "scan interviews", Rounds)
    BY <1>1, <1>5, <2>1, DoneSeen
  <2>3. repair'.seen \in [Tracked -> Versions] /\ repair'.table \in [Rounds -> RoundRecords]
    BY <1>1, <2>2 DEF AtWork, CountersTypeOK
  <2> QED BY <1>1, <1>2, <1>3, <2>1, <2>2, <2>3, GoesOn
<1>6. ASSUME NEW r \in Rounds, ScanInterview(r) PROVE Good'
  <2>1. r \in repair.left /\ repair.stage # "off" /\ UNCHANGED <<countersVars, roundsVars>>
    BY <1>6 DEF ScanInterview, Doing
  <2>2. /\ repair'.table = [repair.table EXCEPT ![r] = rounds[r]] /\ repair'.seen = repair.seen
        /\ Went(r, "applications", Tracked)
    BY <1>1, <1>6, <2>1, DoneTable
  <2>3. repair'.seen \in [Tracked -> Versions] /\ repair'.table \in [Rounds -> RoundRecords]
    BY <1>1, <2>2 DEF AtWork, RoundsTypeOK
  <2> QED BY <1>1, <1>2, <1>3, <2>1, <2>2, <2>3, GoesOn
<1>7. ASSUME NEW item \in repair.left, NEW next, next # "off", NEW items, Done(repair, item, next, items), repair.stage # "off"
      PROVE  AtWork'
  <2>1. Went(item, next, items) /\ repair'.seen = repair.seen /\ repair'.table = repair.table
    BY <1>1, <1>7, DoneOf
  <2> QED BY <1>1, <1>7, <2>1, GoesOn DEF AtWork
<1>8. ASSUME NEW a \in Tracked, RewriteApplication(a) PROVE Good'
  <2>1. AtWork'
    BY <1>7, <1>8 DEF RewriteApplication, Doing
  <2>2. applications' \in [Tracked -> Versions] /\ UNCHANGED <<statusCount, funnel, edits, roundsVars>>
    BY <1>1, <1>8 DEF RewriteApplication, AtWork, CountersTypeOK, counters
  <2> QED BY <1>1, <1>3, <2>1, <2>2 DEF CountersTypeOK
<1>9. ASSUME NEW r \in Rounds, RewriteInterview(r) PROVE Good'
  <2>1. AtWork'
    BY <1>7, <1>9 DEF RewriteInterview, Doing
  <2>2. /\ rounds' \in [Rounds -> RoundRecords] /\ replica' \in {replica, rounds'}
        /\ UNCHANGED <<countersVars, application, context, changes, renames>>
    BY <1>1, <1>9 DEF RewriteInterview, AtWork, RoundsTypeOK
  <2> QED BY <1>1, <1>2, <2>1, <2>2 DEF RoundsTypeOK
<1>10. CASE WriteContext
  <2>1. AtWork'
    BY <1>7, <1>10 DEF WriteContext, Doing
  <2>2. context' \in Contexts /\ UNCHANGED <<countersVars, application, rounds, replica, changes, renames>>
    BY <1>1, <1>10, NextTyped DEF WriteContext, AtWork
  <2> QED BY <1>1, <1>2, <2>1, <2>2 DEF RoundsTypeOK
<1>11. CASE WriteStatusCounter
  <2> DEFINE s == CHOOSE s \in repair.left : TRUE
             n == Cardinality({a \in Seen : repair.seen[a].status = s})
  <2>1. /\ repair.stage = "counters" /\ Done(repair, s, "funnel", {"funnel"})
        /\ statusCount' = [statusCount EXCEPT ![s] = n]
        /\ UNCHANGED <<applications, funnel, edits, roundsVars>>
    BY <1>11 DEF WriteStatusCounter
  <2>2. s \in repair.left
    BY <2>1 DEF RepairInv, StageOK
  <2>3. n \in Int
    <3>1. {a \in Seen : repair.seen[a].status = s} \in SUBSET Seen
      OBVIOUS
    <3> QED BY <3>1, Counts
  <2> HIDE DEF s, n
  <2>4. AtWork'
    BY <1>7, <2>1, <2>2
  <2>5. statusCount' \in [Statuses -> Int]
    BY <1>1, <2>1, <2>3 DEF CountersTypeOK
  <2> QED BY <1>1, <1>3, <2>1, <2>4, <2>5 DEF CountersTypeOK
<1>12. CASE WriteFunnel
  <2>1. AtWork'
    BY <1>7, <1>12 DEF WriteFunnel, Doing
  <2>2. \A k : Cardinality({a \in Seen : k \in {"tracked"} \cup repair.seen[a].miles}) \in Int
    <3> TAKE k
    <3>1. {a \in Seen : k \in {"tracked"} \cup repair.seen[a].miles} \in SUBSET Seen
      OBVIOUS
    <3> QED BY <3>1, Counts
  <2>3. funnel' \in [Steps -> Int] /\ UNCHANGED <<applications, statusCount, edits, roundsVars>>
    BY <1>12, <2>2 DEF WriteFunnel
  <2> QED BY <1>1, <1>3, <2>1, <2>3 DEF CountersTypeOK
<1>13. Interferes => AtWork'
  <2> SUFFICES ASSUME Interferes PROVE AtWork'
    OBVIOUS
  <2> DEFINE o == repair.stage = "off" \/ (repair.alone /\ UNCHANGED <<applications, counters, application, rounds, context>>)
  <2>1. repair' = [repair EXCEPT !.alone = o]
    BY DEF Interferes
  <2>2. repair.stage = "off" => o = TRUE
    OBVIOUS
  <2> HIDE DEF o
  <2>3. PICK s, l, f, t, b : repair = [stage |-> s, left |-> l, seen |-> f, table |-> t, alone |-> b]
    BY <1>1 DEF Shaped
  <2>4. repair' = [stage |-> s, left |-> l, seen |-> f, table |-> t, alone |-> o]
    BY <2>1, <2>3
  <2>5. s = "off" => repair' = repair
    BY <1>1, <2>2, <2>3, <2>4 DEF AtWork, Off
  <2> QED BY <1>1, <2>3, <2>4, <2>5 DEF AtWork, Off
<1>14. CASE CountersNext /\ UNCHANGED roundsVars /\ Interferes
  BY <1>1, <1>3, <1>13, <1>14, CountersStay
<1>15. CASE RoundsNext /\ UNCHANGED countersVars /\ Interferes
  BY <1>1, <1>2, <1>13, <1>15, StepStays DEF StayTrue
<1>16. CASE UNCHANGED repairVars
  BY <1>1, <1>2, <1>3, <1>16 DEF repairVars, AtWork, Off
<1> QED BY <1>4, <1>5, <1>6, <1>8, <1>9, <1>10, <1>11, <1>12, <1>14, <1>15, <1>16 DEF RepairNext, Repairing

(***************************************************************************)
(* RepairTypeOK: while a repair puts back records as it saw them, maybe    *)
(* over newer ones, every record, context and counter keeps its type.      *)
(***************************************************************************)
THEOREM RepairTyped == RepairSpec => []RepairTypeOK
<1> QED BY RepairStarts, RepairKeeps, RepairTypesStart, RepairTypesKeep, PTL DEF RepairSpec
===============================================================================
