-------------------------- MODULE AccountFinalization --------------------------
(***************************************************************************)
(* DELETE /me for a persistent account, after the workspace is erased: the *)
(* login identity itself is deleted at the provider, at most once per arm, *)
(* and the outcome is recorded on the tombstone.  REVIEW_REQUIRED is       *)
(* recorded before the deletion is dispatched, so that a crash or a lost   *)
(* response leaves an account that only an operator may conclude.          *)
(*                                                                         *)
(* A conditional update of the tombstone is evaluated atomically, but its  *)
(* response may be lost.  The table's client then sends the update again   *)
(* (the SDK's default), or the call fails with an error.                   *)
(***************************************************************************)
EXTENDS Naturals, FiniteSets

CONSTANTS
    Calls,          \* concurrent deletion calls; each dispatches at most once
    Reviewers,      \* concurrent runs of the operator's reconciliation
    MaxResends      \* bound on updates the table's client sends again

ASSUME FinalizationAssumption == MaxResends \in Nat

VARIABLES
    erased,         \* is the workspace a tombstone?
    final,          \* its provider_finalization, "NONE" when absent
    identity,       \* the login identity: "PRESENT" or "ABSENT"
    rpc,            \* where each call is
    uncertain,      \* calls that dispatched a deletion and know no outcome
    flying,         \* deletions the provider has not acted on
    told,           \* the finalization each call last answered with
    opc,            \* where each reconciliation is
    oseen,          \* the finalization it read
    resends         \* updates sent again so far

accountVars == <<erased, final, identity, rpc, uncertain, flying, told, opc, oseen, resends>>
reviewVars == <<opc, oseen>>

Finalizations == {"NONE", "PENDING", "REVIEW_REQUIRED", "COMPLETE"}

FinalizationTypeOK ==
    /\ erased \in BOOLEAN
    /\ final \in Finalizations
    /\ identity \in {"PRESENT", "ABSENT"}
    /\ rpc \in [Calls -> {"idle", "erase", "prepare", "open", "reread", "recheck", "arm",
                          "dispatch", "outcome", "complete", "rejected", "status"}]
    /\ uncertain \subseteq Calls /\ flying \subseteq uncertain
    /\ told \in [Calls -> Finalizations]
    /\ opc \in [Reviewers -> {"idle", "check", "apply", "write"}]
    /\ oseen \in [Reviewers -> Finalizations]
    /\ resends \in Nat

FinalizationInit ==
    /\ erased = FALSE /\ final = "NONE" /\ identity = "PRESENT"
    /\ rpc = [r \in Calls |-> "idle"]
    /\ uncertain = {} /\ flying = {}
    /\ told = [r \in Calls |-> "NONE"]
    /\ opc = [o \in Reviewers |-> "idle"]
    /\ oseen = [o \in Reviewers |-> "NONE"]
    /\ resends = 0

CallGoes(r, from, to) == rpc[r] = from /\ rpc' = [rpc EXCEPT ![r] = to]

(***************************************************************************)
(* One conditional update on behalf of call r.  It is evaluated, and its   *)
(* response arrives; or the response is lost and the update is sent again  *)
(* or given up; or it never reaches the table.                             *)
(***************************************************************************)
Update(r, before, after, yes, no, failed) ==
    LET evaluated == final' = IF final = before THEN after ELSE final IN
    \/ /\ evaluated
       /\ rpc' = [rpc EXCEPT ![r] = IF final = before THEN yes ELSE no]
       /\ UNCHANGED resends
    \/ /\ evaluated
       /\ resends < MaxResends /\ resends' = resends + 1
       /\ UNCHANGED rpc
    \/ /\ evaluated \/ UNCHANGED final
       /\ rpc' = [rpc EXCEPT ![r] = failed]
       /\ UNCHANGED resends

(***************************************************************************)
(* A call, up to the dispatch.  It is authenticated (the identity exists), *)
(* and runs the erasure of the workspace, which ends in a tombstone or     *)
(* leaves it for a later call.                                             *)
(***************************************************************************)
Begin(r) ==
    /\ identity = "PRESENT" /\ r \notin uncertain
    /\ CallGoes(r, "idle", "erase")
    /\ UNCHANGED <<erased, final, identity, uncertain, flying, told, reviewVars, resends>>

Erased_OrNot(r) ==
    /\ CallGoes(r, "erase", "prepare")
    /\ erased' \in {erased, TRUE}
    /\ UNCHANGED <<final, identity, uncertain, flying, told, reviewVars, resends>>

Erased(r) ==
    /\ CallGoes(r, "erase", "prepare")
    /\ erased' = TRUE
    /\ UNCHANGED <<final, identity, uncertain, flying, told, reviewVars, resends>>

\* prepare: read, put PENDING on a tombstone that has nothing, read again.
Prepare(r) ==
    /\ CallGoes(r, "prepare", IF final = "NONE" THEN "open" ELSE "reread")
    /\ UNCHANGED <<erased, final, identity, uncertain, flying, told, reviewVars, resends>>

OpenPending(r) ==
    /\ rpc[r] = "open"
    /\ Update(r, "NONE", "PENDING", "reread", "reread", "idle")
    /\ UNCHANGED <<erased, identity, uncertain, flying, told, reviewVars>>

Reread(r) ==
    /\ CallGoes(r, "reread", IF final \in {"COMPLETE", "REVIEW_REQUIRED"} THEN "idle" ELSE "recheck")
    /\ told' = [told EXCEPT ![r] = final]
    /\ UNCHANGED <<erased, final, identity, uncertain, flying, reviewVars, resends>>

\* The authentication is still recent after the bounded erasure.
Recheck(r) ==
    /\ CallGoes(r, "recheck", "arm")
    /\ UNCHANGED <<erased, final, identity, uncertain, flying, told, reviewVars, resends>>

Arm_Again(r) ==
    /\ rpc[r] = "arm"
    /\ \/ Update(r, "PENDING", "REVIEW_REQUIRED", "dispatch", "status", "idle")
       \/ Update(r, "REVIEW_REQUIRED", "REVIEW_REQUIRED", "dispatch", "status", "idle")
    /\ UNCHANGED <<erased, identity, uncertain, flying, told, reviewVars>>

Arm(r) ==
    /\ rpc[r] = "arm"
    /\ Update(r, "PENDING", "REVIEW_REQUIRED", "dispatch", "status", "idle")
    /\ UNCHANGED <<erased, identity, uncertain, flying, told, reviewVars>>

(***************************************************************************)
(* The one AdminDeleteUser request, without retries.  The provider acts on *)
(* it at any time, even after the caller stopped waiting; an absent user   *)
(* counts as deleted.                                                      *)
(***************************************************************************)
Dispatch(r) ==
    /\ CallGoes(r, "dispatch", "outcome")
    /\ uncertain' = uncertain \cup {r}
    /\ flying' = flying \cup {r}
    /\ UNCHANGED <<erased, final, identity, told, reviewVars, resends>>

Deleted(r) ==
    /\ CallGoes(r, "outcome", "complete")
    /\ r \in flying
    /\ identity' = "ABSENT"
    /\ uncertain' = uncertain \ {r} /\ flying' = flying \ {r}
    /\ UNCHANGED <<erased, final, told, reviewVars, resends>>

DeletedUnheard(r) ==
    /\ r \in flying
    /\ identity' = "ABSENT"
    /\ flying' = flying \ {r}
    /\ UNCHANGED <<erased, final, rpc, uncertain, told, reviewVars, resends>>

\* Access denied, throttled, invalid: explicitly refused before deletion.
Rejected(r) ==
    /\ CallGoes(r, "outcome", "rejected")
    /\ r \in flying
    /\ uncertain' = uncertain \ {r} /\ flying' = flying \ {r}
    /\ UNCHANGED <<erased, final, identity, told, reviewVars, resends>>

\* Any other error, a timeout, a lost response: nothing is recorded.
Unheard_IsSuccess(r) ==
    /\ CallGoes(r, "outcome", "complete")
    /\ UNCHANGED <<erased, final, identity, uncertain, flying, told, reviewVars, resends>>

Unheard_IsRejection(r) ==
    /\ CallGoes(r, "outcome", "rejected")
    /\ UNCHANGED <<erased, final, identity, uncertain, flying, told, reviewVars, resends>>

Unheard(r) ==
    /\ CallGoes(r, "outcome", "status")
    /\ UNCHANGED <<erased, final, identity, uncertain, flying, told, reviewVars, resends>>

(***************************************************************************)
(* Recording the outcome, and answering with the tombstone as it is now.   *)
(***************************************************************************)
RecordComplete(r) ==
    /\ rpc[r] = "complete"
    /\ Update(r, "REVIEW_REQUIRED", "COMPLETE", "status", "status", "status")
    /\ UNCHANGED <<erased, identity, uncertain, flying, told, reviewVars>>

RecordRejected_Always(r) ==
    /\ CallGoes(r, "rejected", "status")
    /\ final' = "PENDING"
    /\ UNCHANGED <<erased, identity, uncertain, flying, told, reviewVars, resends>>

RecordRejected(r) ==
    /\ rpc[r] = "rejected"
    /\ Update(r, "REVIEW_REQUIRED", "PENDING", "status", "status", "status")
    /\ UNCHANGED <<erased, identity, uncertain, flying, told, reviewVars>>

ReadStatus(r) ==
    /\ CallGoes(r, "status", "idle")
    /\ told' = [told EXCEPT ![r] = final]
    /\ UNCHANGED <<erased, final, identity, uncertain, flying, reviewVars, resends>>

\* Unfinished erasure, stale authentication, an error of a read, or a crash.
Leave(r) ==
    /\ rpc[r] # "idle"
    /\ rpc' = [rpc EXCEPT ![r] = "idle"]
    /\ UNCHANGED <<erased, final, identity, uncertain, flying, told, reviewVars, resends>>

CallNext(r) ==
    \/ Begin(r) \/ Erased(r)
    \/ Prepare(r) \/ OpenPending(r) \/ Reread(r) \/ Recheck(r) \/ Arm(r)
    \/ Dispatch(r) \/ Deleted(r) \/ DeletedUnheard(r) \/ Rejected(r) \/ Unheard(r)
    \/ RecordComplete(r) \/ RecordRejected(r) \/ ReadStatus(r)
    \/ Leave(r)

(***************************************************************************)
(* The operator: concludes an account whose identity is provably absent,   *)
(* and may delete the identity of one under review by hand.                *)
(***************************************************************************)
Review(o, from, to) == opc[o] = from /\ opc' = [opc EXCEPT ![o] = to]

ReviewRead(o) ==
    /\ erased /\ final \in {"PENDING", "REVIEW_REQUIRED"}
    /\ Review(o, "idle", "check")
    /\ UNCHANGED <<erased, final, identity, rpc, uncertain, flying, told, oseen, resends>>

ReviewCheck(o) ==
    /\ Review(o, "check", IF identity = "ABSENT" THEN "apply" ELSE "idle")
    /\ UNCHANGED <<erased, final, identity, rpc, uncertain, flying, told, oseen, resends>>

ReviewApply(o) ==
    /\ Review(o, "apply", IF final \in {"PENDING", "REVIEW_REQUIRED"} THEN "write" ELSE "idle")
    /\ oseen' = [oseen EXCEPT ![o] = final]
    /\ UNCHANGED <<erased, final, identity, rpc, uncertain, flying, told, resends>>

\* Sending this update again changes nothing: COMPLETE is never left.
ReviewWrite(o) ==
    /\ Review(o, "write", "idle")
    /\ final' = IF final = oseen[o] THEN "COMPLETE" ELSE final
    /\ oseen' = [oseen EXCEPT ![o] = "NONE"]
    /\ UNCHANGED <<erased, identity, rpc, uncertain, flying, told, resends>>

ReviewLeave(o) ==
    /\ opc[o] # "idle"
    /\ opc' = [opc EXCEPT ![o] = "idle"]
    /\ oseen' = [oseen EXCEPT ![o] = "NONE"]
    /\ UNCHANGED <<erased, final, identity, rpc, uncertain, flying, told, resends>>

ReviewNext(o) ==
    \/ ReviewRead(o) \/ ReviewCheck(o) \/ ReviewApply(o) \/ ReviewWrite(o) \/ ReviewLeave(o)

ManualDeletion ==
    /\ erased /\ final = "REVIEW_REQUIRED" /\ identity = "PRESENT"
    /\ identity' = "ABSENT"
    /\ UNCHANGED <<erased, final, rpc, uncertain, flying, told, reviewVars, resends>>

\* The only place where everything may stop: a finalized account.
Finished ==
    /\ final = "COMPLETE"
    /\ \A r \in Calls : rpc[r] = "idle"
    /\ UNCHANGED accountVars

FinalizationNext ==
    \/ \E r \in Calls : CallNext(r)
    \/ \E o \in Reviewers : ReviewNext(o)
    \/ ManualDeletion
    \/ Finished

FinalizationSpec == FinalizationInit /\ [][FinalizationNext]_accountVars

-------------------------------------------------------------------------------
\* A finalized account has no login identity, whatever was lost, sent again
\* or concluded by an operator on the way.
CompleteMeansAbsent == final = "COMPLETE" => identity = "ABSENT"

\* The login identity outlives the workspace: it is never deleted, nor is a
\* deletion under way, before erasure ended in a tombstone.
ErasedFirst == identity = "ABSENT" \/ uncertain # {} \/ final # "NONE" => erased

\* PENDING means that no ambiguous dispatch is outstanding.
PendingMeansSettled == final = "PENDING" => uncertain = {}

\* That is true for as long as no update of a tombstone was sent twice.
SettledUnlessResent == resends = 0 => PendingMeansSettled

\* Nor is a deletion whose outcome was lost dispatched again by a later call
\* before an update was sent twice.
NeverRepeated ==
    [][resends' = 0 => \A r \in Calls : r \in uncertain' \ uncertain => uncertain = {}]_accountVars

\* An account answered as finalized is finalized, for ever.
FinalizedForEver ==
    \A r \in Calls : told[r] = "COMPLETE" => final = "COMPLETE" /\ identity = "ABSENT"
===============================================================================
