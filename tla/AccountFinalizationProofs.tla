----------------------- MODULE AccountFinalizationProofs -----------------------
(***************************************************************************)
(* Proofs about AccountFinalization, for any number of concurrent calls    *)
(* and reconciliations.                                                    *)
(***************************************************************************)
EXTENDS AccountFinalization, TLAPS

(***************************************************************************)
(* Conclusive: whoever is about to record, or has reported, a finalized    *)
(* account has evidence of an absent identity; and nothing is dispatched,  *)
(* recorded or concluded before the workspace is a tombstone.              *)
(***************************************************************************)
Evidence ==
    /\ CompleteMeansAbsent
    /\ \A r \in Calls : rpc[r] = "complete" => identity = "ABSENT"
    /\ \A o \in Reviewers : opc[o] \in {"apply", "write"} => identity = "ABSENT"
    /\ \A r \in Calls : told[r] = "COMPLETE" => final = "COMPLETE"

Tombstone ==
    /\ ErasedFirst
    /\ \A r \in Calls : rpc[r] \notin {"idle", "erase"} => erased
    /\ \A o \in Reviewers : opc[o] # "idle" => erased

Conclusive == FinalizationTypeOK /\ Evidence /\ Tombstone

(***************************************************************************)
(* Settled: until an update is sent twice, at most one call stands between *)
(* arming and a recorded outcome, and none while the tombstone says that   *)
(* nothing is outstanding.                                                 *)
(***************************************************************************)
Exposed(r) ==
    \/ rpc[r] \in {"dispatch", "outcome", "complete", "rejected"}
    \/ r \in uncertain

Settled ==
    /\ \A r \in uncertain : rpc[r] \in {"idle", "outcome", "status"}
    /\ final \in {"NONE", "PENDING"} => \A r \in Calls : ~ Exposed(r)
    /\ \A r, q \in Calls : Exposed(r) /\ Exposed(q) => r = q

-------------------------------------------------------------------------------
\* The variables have their types in every reachable state: no handler puts
\* a call, a reconciliation or the tombstone in a state the code lacks.
THEOREM TypeCorrect == FinalizationSpec => []FinalizationTypeOK
<1>1. FinalizationInit => FinalizationTypeOK
  <2>1. FinalizationInit => erased \in BOOLEAN
    BY Zenon DEF FinalizationInit
  <2>2. FinalizationInit => flying \subseteq uncertain /\ uncertain \subseteq Calls
    BY DEF FinalizationInit
  <2>3. FinalizationInit => rpc \in [Calls -> {"idle"}] /\ opc \in [Reviewers -> {"idle"}]
    BY DEF FinalizationInit
  <2> QED BY <2>1, <2>2, <2>3 DEF FinalizationInit, FinalizationTypeOK, Finalizations
<1>2. ASSUME FinalizationTypeOK, [FinalizationNext]_accountVars PROVE FinalizationTypeOK'
  <2> USE <1>2 DEF FinalizationTypeOK, Finalizations
  <2>1. ASSUME NEW r \in Calls, CallNext(r) PROVE FinalizationTypeOK'
    <3>1. CASE Begin(r) \/ Erased(r) \/ Prepare(r) \/ Recheck(r) \/ Leave(r)
      BY <3>1 DEF Begin, Erased, Prepare, Recheck, Leave, CallGoes, reviewVars
    <3>2. CASE Reread(r) \/ ReadStatus(r)
      BY <3>2 DEF Reread, ReadStatus, CallGoes, reviewVars
    <3>3. CASE Dispatch(r) \/ Deleted(r) \/ DeletedUnheard(r) \/ Rejected(r) \/ Unheard(r)
      BY <3>3 DEF Dispatch, Deleted, DeletedUnheard, Rejected, Unheard, CallGoes, reviewVars
    <3>4. CASE OpenPending(r)
      BY <3>4 DEF OpenPending, Update, reviewVars
    <3>5. CASE Arm(r)
      BY <3>5 DEF Arm, Update, reviewVars
    <3>6. CASE RecordComplete(r)
      BY <3>6 DEF RecordComplete, Update, reviewVars
    <3>7. CASE RecordRejected(r)
      BY <3>7 DEF RecordRejected, Update, reviewVars
    <3> QED BY <2>1, <3>1, <3>2, <3>3, <3>4, <3>5, <3>6, <3>7 DEF CallNext
  <2>2. ASSUME NEW o \in Reviewers, ReviewNext(o) PROVE FinalizationTypeOK'
    BY <2>2 DEF ReviewNext, ReviewRead, ReviewCheck, ReviewApply, ReviewWrite, ReviewLeave,
                Review
  <2>3. CASE ManualDeletion
    BY <2>3 DEF ManualDeletion, reviewVars
  <2>4. CASE UNCHANGED accountVars
    BY <2>4 DEF accountVars, reviewVars
  <2> QED BY <2>1, <2>2, <2>3, <2>4 DEF FinalizationNext, Finished
<1> QED BY <1>1, <1>2, PTL DEF FinalizationSpec

LEMMA ConclusiveInductive == FinalizationSpec => []Conclusive
<1>1. FinalizationInit => Evidence /\ Tombstone
  BY DEF FinalizationInit, Evidence, CompleteMeansAbsent, Tombstone, ErasedFirst
<1>2. ASSUME FinalizationTypeOK, FinalizationTypeOK', Evidence, Tombstone, [FinalizationNext]_accountVars
      PROVE  Evidence' /\ Tombstone'
  <2> USE <1>2 DEF FinalizationTypeOK, Finalizations, Evidence, CompleteMeansAbsent, Tombstone, ErasedFirst
  <2>1. ASSUME NEW r \in Calls, CallNext(r) PROVE Evidence' /\ Tombstone'
    <3>1. CASE Begin(r) \/ Erased(r) \/ Prepare(r) \/ Recheck(r) \/ Leave(r)
      BY <3>1 DEF Begin, Erased, Prepare, Recheck, Leave, CallGoes, reviewVars
    <3>2. CASE Reread(r) \/ ReadStatus(r)
      BY <3>2 DEF Reread, ReadStatus, CallGoes, reviewVars
    <3>3. CASE Dispatch(r) \/ Deleted(r) \/ DeletedUnheard(r) \/ Rejected(r) \/ Unheard(r)
      BY <3>3 DEF Dispatch, Deleted, DeletedUnheard, Rejected, Unheard, CallGoes, reviewVars
    <3>4. CASE OpenPending(r)
      BY <3>4 DEF OpenPending, Update, reviewVars
    <3>5. CASE Arm(r)
      BY <3>5 DEF Arm, Update, reviewVars
    <3>6. CASE RecordComplete(r)
      BY <3>6 DEF RecordComplete, Update, reviewVars
    <3>7. CASE RecordRejected(r)
      BY <3>7 DEF RecordRejected, Update, reviewVars
    <3> QED BY <2>1, <3>1, <3>2, <3>3, <3>4, <3>5, <3>6, <3>7 DEF CallNext
  <2>2. ASSUME NEW o \in Reviewers, ReviewNext(o) PROVE Evidence' /\ Tombstone'
    <3>1. CASE ReviewRead(o) \/ ReviewCheck(o) \/ ReviewApply(o) \/ ReviewLeave(o)
      BY <3>1 DEF ReviewRead, ReviewCheck, ReviewApply, ReviewLeave, Review
    <3>2. CASE ReviewWrite(o)
      BY <3>2 DEF ReviewWrite, Review
    <3> QED BY <2>2, <3>1, <3>2 DEF ReviewNext
  <2>3. CASE ManualDeletion
    BY <2>3 DEF ManualDeletion, reviewVars
  <2>4. CASE UNCHANGED accountVars
    BY <2>4 DEF accountVars, reviewVars
  <2> QED BY <2>1, <2>2, <2>3, <2>4 DEF FinalizationNext, Finished
<1> QED BY <1>1, <1>2, TypeCorrect, PTL DEF FinalizationSpec, Conclusive

\* A finalized account has no login identity, whatever is lost, sent again or
\* concluded by an operator: account_lifecycle.py and the reconciliation both
\* record COMPLETE only behind evidence of absence.
THEOREM FinalizationIsTrue == FinalizationSpec => []CompleteMeansAbsent
<1>1. Conclusive => CompleteMeansAbsent
  BY DEF Conclusive, Evidence
<1> QED BY <1>1, ConclusiveInductive, PTL

\* An account answered as finalized is so for ever: no update takes COMPLETE
\* back, neither a rejection sent twice nor a late reconciliation.
THEOREM FinalizationIsForEver == FinalizationSpec => []FinalizedForEver
<1>1. Conclusive => FinalizedForEver
  BY DEF Conclusive, Evidence, CompleteMeansAbsent, FinalizedForEver
<1> QED BY <1>1, ConclusiveInductive, PTL

\* The login identity outlives the workspace: no deletion is dispatched, and
\* none takes effect, before the tombstone.
THEOREM IdentityOutlivesWorkspace == FinalizationSpec => []ErasedFirst
<1>1. Conclusive => ErasedFirst
  BY DEF Conclusive, Tombstone
<1> QED BY <1>1, ConclusiveInductive, PTL

-------------------------------------------------------------------------------
LEMMA SettledInductive == FinalizationSpec => [](resends = 0 => Settled)
<1>1. FinalizationInit => Settled
  BY DEF FinalizationInit, Settled, Exposed
<1>2. ASSUME FinalizationTypeOK, resends = 0 => Settled, [FinalizationNext]_accountVars
      PROVE  (resends = 0 => Settled)'
  <2> SUFFICES ASSUME resends' = 0 PROVE Settled'
    OBVIOUS
  <2>0. resends = 0 /\ Settled
    <3>1. resends' \in {resends, resends + 1}
      BY <1>2 DEF FinalizationNext, CallNext, Begin, Erased, Prepare, OpenPending, Reread, Recheck, Arm,
           Dispatch, Deleted, DeletedUnheard, Rejected, Unheard, RecordComplete,
           RecordRejected, ReadStatus, Leave, Update, ReviewNext, ReviewRead, ReviewCheck,
           ReviewApply, ReviewWrite, ReviewLeave, ManualDeletion, Finished, accountVars
    <3> QED BY <1>2, <3>1 DEF FinalizationTypeOK
  <2> USE <1>2, <2>0 DEF FinalizationTypeOK, Finalizations, Settled, Exposed
  <2>1. ASSUME NEW r \in Calls, CallNext(r) PROVE Settled'
    <3>1. CASE Begin(r) \/ Erased(r) \/ Prepare(r) \/ Recheck(r) \/ Leave(r)
      BY <3>1 DEF Begin, Erased, Prepare, Recheck, Leave, CallGoes, reviewVars
    <3>2. CASE Reread(r) \/ ReadStatus(r)
      BY <3>2 DEF Reread, ReadStatus, CallGoes, reviewVars
    <3>3. CASE Dispatch(r)
      BY <3>3 DEF Dispatch, CallGoes, reviewVars
    <3>4. CASE Deleted(r) \/ DeletedUnheard(r) \/ Rejected(r) \/ Unheard(r)
      BY <3>4 DEF Deleted, DeletedUnheard, Rejected, Unheard, CallGoes, reviewVars
    <3>5. CASE OpenPending(r)
      BY <3>5 DEF OpenPending, Update, reviewVars
    <3>6. CASE Arm(r)
      BY <3>6 DEF Arm, Update, reviewVars
    <3>7. CASE RecordComplete(r)
      BY <3>7 DEF RecordComplete, Update, reviewVars
    <3>8. CASE RecordRejected(r)
      BY <3>8 DEF RecordRejected, Update, reviewVars
    <3> QED BY <2>1, <3>1, <3>2, <3>3, <3>4, <3>5, <3>6, <3>7, <3>8 DEF CallNext
  <2>2. ASSUME NEW o \in Reviewers, ReviewNext(o) PROVE Settled'
    BY <2>2 DEF ReviewNext, ReviewRead, ReviewCheck, ReviewApply, ReviewWrite, ReviewLeave,
                Review
  <2>3. CASE ManualDeletion
    BY <2>3 DEF ManualDeletion, reviewVars
  <2>4. CASE UNCHANGED accountVars
    BY <2>4 DEF accountVars, reviewVars
  <2> QED BY <2>1, <2>2, <2>3, <2>4 DEF FinalizationNext, Finished
<1> QED BY <1>1, <1>2, TypeCorrect, PTL DEF FinalizationSpec

\* PENDING means that no ambiguous dispatch is outstanding, in every state
\* before which no update of the tombstone was sent twice.
THEOREM PendingIsSettled == FinalizationSpec => []SettledUnlessResent
<1>1. FinalizationTypeOK /\ (resends = 0 => Settled) => SettledUnlessResent
  BY DEF FinalizationTypeOK, Settled, Exposed, PendingMeansSettled, SettledUnlessResent
<1> QED BY <1>1, TypeCorrect, SettledInductive, PTL

\* Until then, no deletion is dispatched while an earlier one is unresolved:
\* a lost response never makes a later call repeat it.
THEOREM DispatchNotRepeated == FinalizationSpec => NeverRepeated
<1>1. ASSUME FinalizationTypeOK, resends = 0 => Settled, [FinalizationNext]_accountVars
      PROVE  [resends' = 0 => \A r \in Calls : r \in uncertain' \ uncertain => uncertain = {}]_accountVars
  <2> SUFFICES ASSUME resends' = 0, NEW q \in Calls, q \in uncertain' \ uncertain
               PROVE uncertain = {}
    OBVIOUS
  <2>1. PICK r \in Calls : Dispatch(r)
    <3>1. uncertain' \subseteq uncertain \/ \E r \in Calls : Dispatch(r)
      BY <1>1 DEF FinalizationNext, CallNext, Begin, Erased, Prepare, OpenPending, Reread, Recheck, Arm,
           Dispatch, Deleted, DeletedUnheard, Rejected, Unheard, RecordComplete,
           RecordRejected, ReadStatus, Leave, ReviewNext, ReviewRead, ReviewCheck,
           ReviewApply, ReviewWrite, ReviewLeave, ManualDeletion, Finished, accountVars
    <3> QED BY <3>1
  <2>2. resends = 0 /\ Settled
    BY <1>1, <2>1 DEF Dispatch
  <2>3. Exposed(r) /\ \A s \in uncertain : s \in Calls /\ Exposed(s) /\ s # r
    BY <1>1, <2>1, <2>2 DEF Dispatch, CallGoes, Exposed, Settled, FinalizationTypeOK
  <2> QED BY <2>2, <2>3 DEF Settled
<1> QED BY <1>1, TypeCorrect, SettledInductive, PTL DEF FinalizationSpec, NeverRepeated
===============================================================================
