-------------------------- MODULE WorkspaceBootstrap --------------------------
(***************************************************************************)
(* POST /me/bootstrap.  A request reads the owner partition, decides what  *)
(* is missing and proposes the records; the proposal is committed by one   *)
(* transaction that compares everything that was read.  On a conflict the  *)
(* request starts over, at most MaxTries times.  Requests run              *)
(* concurrently, and may die at any point.                                 *)
(***************************************************************************)
EXTENDS WorkspaceStore

CONSTANTS
    Bootstrappers,  \* concurrent bootstrap requests
    MaxTries        \* rounds of one request (5 in the code)

ASSUME BootstrapAssumption == MaxTries \in Nat \ {0}

VARIABLES
    bpc,        \* "idle", "read" or "commit"
    btry,       \* the current round
    battrs,     \* the trusted profile attributes of the caller
    bsnap       \* what the round read, NoSnapshot outside "commit"

bootVars == <<bpc, btry, battrs, bsnap>>

Snapshot == [state : States, manifest : BOOLEAN, profile : Names \cup {Missing},
             settings : {"MISSING", "DEFAULT", "CUSTOM"}, data : BOOLEAN]

NoSnapshot == [state |-> "ABSENT", manifest |-> FALSE, profile |-> Missing,
               settings |-> "MISSING", data |-> FALSE]

BootTypeOK ==
    /\ bpc \in [Bootstrappers -> {"idle", "read", "commit"}]
    /\ btry \in [Bootstrappers -> 1..MaxTries]
    /\ battrs \in [Bootstrappers -> Names]
    /\ bsnap \in [Bootstrappers -> Snapshot]

CurrentSnapshot ==
    [state |-> state, manifest |-> manifest, profile |-> profile,
     settings |-> settings, data |-> HasOwnerData]

BootInit ==
    /\ bpc = [b \in Bootstrappers |-> "idle"]
    /\ btry = [b \in Bootstrappers |-> 1]
    /\ battrs \in [Bootstrappers -> Names]
    /\ bsnap = [b \in Bootstrappers |-> NoSnapshot]

BootStart(b) ==
    /\ bpc[b] = "idle"
    /\ bpc' = [bpc EXCEPT ![b] = "read"]
    /\ btry' = [btry EXCEPT ![b] = 1]
    /\ \E n \in Names : battrs' = [battrs EXCEPT ![b] = n]
    /\ UNCHANGED <<bsnap, storeVars>>

(***************************************************************************)
(* Reading.  The request ends at once when the workspace is being or has   *)
(* been erased, when its data has no provenance, when an active workspace  *)
(* lost its preferences, or when nothing is left to do.                    *)
(***************************************************************************)
Refused ==
    \/ state \in {"DELETING", "DELETED"}
    \/ Kind = "PERSISTENT" /\ state = "ABSENT" /\ HasOwnerData
    \/ state = "ACTIVE" /\ settings = "MISSING"

NothingToDo(b) ==
    /\ Ready
    /\ Kind = "PERSISTENT" => profile = battrs[b]

BootRead(b) ==
    /\ bpc[b] = "read"
    /\ IF Refused \/ NothingToDo(b)
       THEN bpc' = [bpc EXCEPT ![b] = "idle"] /\ UNCHANGED bsnap
       ELSE /\ bpc' = [bpc EXCEPT ![b] = "commit"]
            /\ bsnap' = [bsnap EXCEPT ![b] = CurrentSnapshot]
    /\ UNCHANGED <<btry, battrs, storeVars>>

(***************************************************************************)
(* Committing.  A record the round found must still be equal in every      *)
(* attribute that was present; one it did not find must still be absent.   *)
(* An attribute that was absent is not compared.  A workspace proposed     *)
(* with a complete manifest also requires that no quota record exists.     *)
(***************************************************************************)
Unchanged_OnlyFound(s) ==
    /\ s.profile # Missing => profile = s.profile
    /\ s.settings # "MISSING" => settings = s.settings
    /\ s.state # "ABSENT" => state = s.state

Unchanged(s) ==
    /\ profile = s.profile
    /\ settings = s.settings
    /\ state = s.state
    /\ s.manifest => manifest
    /\ (s.state = "ABSENT" /\ ~ s.data) => quota = 0

ProposedProfile(b) ==
    IF \/ bsnap[b].profile = Missing
       \/ bsnap[b].state = "ACTIVE" /\ Kind = "PERSISTENT"
    THEN battrs[b] ELSE bsnap[b].profile

BootCommit(b) ==
    /\ bpc[b] = "commit"
    /\ Unchanged(bsnap[b])
    /\ state' = "ACTIVE"
    /\ manifest' = IF bsnap[b].state = "ABSENT" THEN ~ bsnap[b].data
                                                ELSE bsnap[b].manifest
    /\ profile' = ProposedProfile(b)
    /\ settings' = IF bsnap[b].settings = "MISSING" THEN "DEFAULT" ELSE settings
    /\ bpc' = [bpc EXCEPT ![b] = "idle"]
    /\ bsnap' = [bsnap EXCEPT ![b] = NoSnapshot]
    /\ UNCHANGED <<quota, refs, items, btry, battrs>>

\* The transaction is cancelled: start over, or give up as busy.
BootConflict(b) ==
    /\ bpc[b] = "commit"
    /\ ~ Unchanged(bsnap[b])
    /\ IF btry[b] < MaxTries
       THEN /\ btry' = [btry EXCEPT ![b] = @ + 1]
            /\ bpc' = [bpc EXCEPT ![b] = "read"]
       ELSE /\ bpc' = [bpc EXCEPT ![b] = "idle"]
            /\ UNCHANGED btry
    /\ bsnap' = [bsnap EXCEPT ![b] = NoSnapshot]
    /\ UNCHANGED <<battrs, storeVars>>

\* The request dies or loses its caller between two requests to the table.
BootAbandon(b) ==
    /\ bpc[b] # "idle"
    /\ bpc' = [bpc EXCEPT ![b] = "idle"]
    /\ bsnap' = [bsnap EXCEPT ![b] = NoSnapshot]
    /\ UNCHANGED <<btry, battrs, storeVars>>

BootNext == \E b \in Bootstrappers :
    \/ BootStart(b)
    \/ BootRead(b)
    \/ BootCommit(b)
    \/ BootConflict(b)
    \/ BootAbandon(b)
===============================================================================
