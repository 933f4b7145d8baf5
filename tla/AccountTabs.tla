----------------------------- MODULE AccountTabs -----------------------------
(***************************************************************************)
(* The tabs of one browser and the account sessions in them.  A tab keeps  *)
(* tokens in its own session storage, which the browser copies when a tab  *)
(* is duplicated, and uses them only under a Web Lock named after its      *)
(* instance, that is, after the sign-in they came from.  The tabs share    *)
(* one thing, the logout epoch.  A page load loses memory and locks.       *)
(* The store's revision is not a variable: here nothing clears a store     *)
(* without also ending, or leaving the scope of, what captured it.         *)
(***************************************************************************)
EXTENDS Integers, FiniteSets

CONSTANTS
    Tabs,
    MaxInstances,       \* bound: instance names ever made
    MaxEpoch,           \* bound: logouts
    MaxRotation,        \* bound: renewals of one family
    Nobody

Operations == {"restore", "callback", "begin", "renew"}
Phases == {"lock", "granted", "busy", "unsupported", "preparing", "sent"}

ASSUME TabsAssumption ==
    /\ MaxInstances \in Nat /\ MaxEpoch \in Nat \ {0} /\ MaxRotation \in Nat
    /\ Nobody \notin Tabs \cup Nat \cup Operations \cup Phases

VARIABLES
    locks,              \* whether the browser has Web Locks
    at,                 \* where each tab is
    memory,             \* its page's memory: instance, user, persistence
    op,                 \* the operation its page awaits
    ghost,              \* a lock request that outlived its scope
    storage,            \* its session storage: instance, user, transaction
    epoch,              \* the logout epoch in local storage
    notices,            \* tabs the last logout has yet to reach
    lock,               \* who holds each instance's lock
    names,              \* instance names made
    used,               \* authorization codes exchanged
    rotation            \* the newest refresh token of each family

tabsVars == <<locks, at, memory, op, ghost, storage, epoch, notices, lock, names, used, rotation>>
shared == <<epoch, notices, names>>
provider == <<used, rotation>>

Instances == 1..MaxInstances
NoMemory == [inst |-> Nobody, user |-> Nobody, keeps |-> FALSE]
NoDisk == [inst |-> Nobody, user |-> Nobody, tx |-> Nobody]
NoOp == [kind |-> Nobody, phase |-> Nobody, epoch |-> 0, ok |-> FALSE]

TabsInit ==
    /\ locks \in BOOLEAN
    /\ at = [t \in Tabs |-> "closed"] /\ memory = [t \in Tabs |-> NoMemory]
    /\ op = [t \in Tabs |-> NoOp] /\ ghost = [t \in Tabs |-> Nobody]
    /\ storage = [t \in Tabs |-> NoDisk]
    /\ epoch = 1 /\ notices = {} /\ names = 0
    /\ lock = [i \in Instances |-> Nobody]
    /\ used = {} /\ rotation = [i \in Instances |-> 0]

(***************************************************************************)
(* What the store and the adapter do to one tab's memory and storage.      *)
(***************************************************************************)
\* The guard every operation captured when it began: epoch and instance.
GuardHolds(t) == op[t].epoch = epoch

Unlocked(t) == [i \in Instances |-> IF lock[i] = t THEN Nobody ELSE lock[i]]
Released(t) == IF memory[t].keeps THEN [lock EXCEPT ![memory[t].inst] = Nobody] ELSE lock
Cleared(d) == [d EXCEPT !.user = Nobody, !.tx = Nobody]

\* The adapter forgets its user, its stored credentials and its lock.
ClearAdapter(t) ==
    /\ memory' = [memory EXCEPT ![t].user = Nobody, ![t].keeps = FALSE]
    /\ storage' = [storage EXCEPT ![t] = Cleared(@)]
    /\ lock' = Released(t)

\* A new scope: the operation is over, but for the lock it asked for.
Leftover(t) ==
    IF op[t].phase \in {"lock", "granted"}
    THEN [ghost EXCEPT ![t] = [inst |-> memory[t].inst, held |-> op[t].phase = "granted"]]
    ELSE ghost

Rescoped(t) == op' = [op EXCEPT ![t] = NoOp] /\ ghost' = Leftover(t)

Finished(t) == op' = [op EXCEPT ![t] = NoOp]

\* The user goes to memory, and to storage only while the lock is owned.
WriteUser_MemoryFirst(t, user) ==
    /\ memory' = [memory EXCEPT ![t].user = user]
    /\ UNCHANGED storage

WriteUser(t, user) ==
    /\ memory' = [memory EXCEPT ![t].user = user]
    /\ storage' = IF memory[t].keeps THEN [storage EXCEPT ![t].user = user] ELSE storage

(***************************************************************************)
(* Tabs and pages.                                                         *)
(***************************************************************************)
Pages == {"page", "loading", "landing"}

Open(t) ==
    /\ at[t] = "closed"
    /\ at' = [at EXCEPT ![t] = "loading"]
    /\ UNCHANGED <<memory, op, ghost, storage, lock, shared, provider>>

\* The browser copies the session storage of the other tab.
Duplicate(t, u) ==
    /\ at[t] = "closed" /\ at[u] \in Pages
    /\ at' = [at EXCEPT ![t] = IF at[u] = "landing" THEN "landing" ELSE "loading"]
    /\ storage' = [storage EXCEPT ![t] = storage[u]]
    /\ UNCHANGED <<memory, op, ghost, lock, shared, provider>>

\* The page is gone: so are its memory, its operations and its locks.
Unloaded(t) ==
    /\ memory' = [memory EXCEPT ![t] = NoMemory]
    /\ op' = [op EXCEPT ![t] = NoOp] /\ ghost' = [ghost EXCEPT ![t] = Nobody]
    /\ lock' = Unlocked(t) /\ notices' = notices \ {t}

Reload(t) ==
    /\ at[t] = "page"
    /\ at' = [at EXCEPT ![t] = "loading"]
    /\ Unloaded(t)
    /\ UNCHANGED <<storage, epoch, names, provider>>

Close(t) ==
    /\ at[t] # "closed"
    /\ at' = [at EXCEPT ![t] = "closed"]
    /\ storage' = [storage EXCEPT ![t] = NoDisk]
    /\ Unloaded(t)
    /\ UNCHANGED <<epoch, names, provider>>

NewInstance == names < MaxInstances /\ names' = names + 1

\* The store takes the instance it finds in storage, or makes one, and asks
\* for its lock: to restore, or to complete the sign-in it returned from.
LoadPage(t) ==
    /\ at[t] \in {"loading", "landing"}
    /\ at' = [at EXCEPT ![t] = "page"]
    /\ IF storage[t].inst = Nobody
       THEN NewInstance /\ memory' = [memory EXCEPT ![t].inst = names + 1] /\ storage' = [storage EXCEPT ![t].inst = names + 1]
       ELSE memory' = [memory EXCEPT ![t].inst = storage[t].inst] /\ UNCHANGED <<storage, names>>
    /\ op' = [op EXCEPT ![t] = [NoOp EXCEPT !.kind = IF at[t] = "landing" THEN "callback" ELSE "restore",
                                            !.phase = "lock"]]
    /\ UNCHANGED <<ghost, lock, epoch, notices, provider>>

(***************************************************************************)
(* Ownership.                                                              *)
(***************************************************************************)
\* The browser answers a request for a lock that is granted only if free.
LockAnswer(t) ==
    /\ op[t].phase = "lock"
    /\ LET free == lock[memory[t].inst] = Nobody
       IN  /\ op' = [op EXCEPT ![t].phase = IF ~ locks THEN "unsupported" ELSE IF free THEN "granted" ELSE "busy"]
           /\ lock' = IF locks /\ free THEN [lock EXCEPT ![memory[t].inst] = t] ELSE lock
    /\ UNCHANGED <<at, memory, ghost, storage, shared, provider>>

\* Whoever asked has left its scope: a lock that comes now is given back.
GhostAnswer(t) ==
    /\ ghost[t] # Nobody /\ ~ ghost[t].held
    /\ IF locks /\ lock[ghost[t].inst] = Nobody
       THEN ghost' = [ghost EXCEPT ![t].held = TRUE] /\ lock' = [lock EXCEPT ![ghost[t].inst] = t]
       ELSE ghost' = [ghost EXCEPT ![t] = Nobody] /\ UNCHANGED lock
    /\ UNCHANGED <<at, memory, op, storage, shared, provider>>

GhostRelease(t) ==
    /\ ghost[t] # Nobody /\ ghost[t].held
    /\ ghost' = [ghost EXCEPT ![t] = Nobody]
    /\ lock' = [lock EXCEPT ![ghost[t].inst] = Nobody]
    /\ UNCHANGED <<at, memory, op, storage, shared, provider>>

\* Another tab has the session: this one drops its copy and says so.
Busy_Ignored(t) ==
    /\ op[t].phase = "busy"
    /\ op' = [op EXCEPT ![t].phase = "granted"]
    /\ UNCHANGED <<at, memory, ghost, storage, lock, shared, provider>>

Busy(t) ==
    /\ op[t].phase = "busy"
    /\ Finished(t)
    /\ memory' = [memory EXCEPT ![t].user = Nobody]
    /\ storage' = [storage EXCEPT ![t] = Cleared(@)]
    /\ UNCHANGED <<at, ghost, lock, shared, provider>>

\* The stored user is taken if it is of this instance and of this epoch.
Restorable_AnyEpoch(t) == storage[t].user # Nobody /\ storage[t].user.fam = memory[t].inst

Restorable(t) ==
    /\ storage[t].user # Nobody
    /\ storage[t].user.fam = memory[t].inst /\ storage[t].user.epoch = epoch

Restore(t) ==
    /\ op[t].kind = "restore" /\ op[t].phase = "granted"
    /\ Finished(t)
    /\ memory' = [memory EXCEPT ![t].keeps = TRUE, ![t].user = IF Restorable(t) THEN storage[t].user ELSE Nobody]
    /\ storage' = IF Restorable(t) \/ storage[t].user = Nobody THEN storage ELSE [storage EXCEPT ![t] = Cleared(@)]
    /\ UNCHANGED <<at, ghost, lock, shared, provider>>

\* Without locks nothing is restored.
RestoreRefused(t) ==
    /\ op[t].kind = "restore" /\ op[t].phase = "unsupported"
    /\ Finished(t)
    /\ storage' = [storage EXCEPT ![t] = Cleared(@)]
    /\ UNCHANGED <<at, memory, ghost, lock, shared, provider>>

(***************************************************************************)
(* Signing in.                                                             *)
(***************************************************************************)
\* Local access ends; the sign-in gets an instance, and so a family, of its own.
Begin(t) ==
    /\ at[t] = "page" /\ op[t].kind # "begin"
    /\ NewInstance
    /\ memory' = [memory EXCEPT ![t] = [NoMemory EXCEPT !.inst = names + 1]]
    /\ storage' = [storage EXCEPT ![t] = [NoDisk EXCEPT !.inst = names + 1]]
    /\ lock' = Released(t)
    /\ op' = [op EXCEPT ![t] = [NoOp EXCEPT !.kind = "begin", !.phase = "preparing", !.epoch = epoch]]
    /\ ghost' = Leftover(t)
    /\ UNCHANGED <<at, epoch, notices, provider>>

\* The transaction is stored under the guard and the browser leaves.
Depart(t) ==
    /\ op[t].phase = "preparing" /\ GuardHolds(t)
    /\ storage' = [storage EXCEPT ![t].tx = [inst |-> memory[t].inst, epoch |-> epoch]]
    /\ at' = [at EXCEPT ![t] = "provider"]
    /\ Unloaded(t)
    /\ UNCHANGED <<epoch, names, provider>>

DepartRefused(t) ==
    /\ op[t].phase = "preparing" /\ ~ GuardHolds(t)
    /\ Finished(t) /\ ClearAdapter(t)
    /\ UNCHANGED <<at, ghost, shared, provider>>

\* With a code, or by the back button.
Return(t) ==
    /\ at[t] = "provider"
    /\ at' \in {[at EXCEPT ![t] = "landing"], [at EXCEPT ![t] = "loading"]}
    /\ UNCHANGED <<memory, op, ghost, storage, lock, shared, provider>>

\* The transaction is consumed before the code is sent.
TxValid(t) ==
    /\ storage[t].tx # Nobody
    /\ storage[t].tx.inst = memory[t].inst /\ storage[t].tx.epoch = epoch

Exchange(t) ==
    /\ op[t].kind = "callback" /\ op[t].phase \in {"granted", "unsupported"}
    /\ memory' = [memory EXCEPT ![t].keeps = op[t].phase = "granted"]
    /\ storage' = [storage EXCEPT ![t].tx = Nobody]
    /\ IF TxValid(t)
       THEN /\ op' = [op EXCEPT ![t] = [kind |-> "callback", phase |-> "sent", epoch |-> epoch,
                                        ok |-> memory[t].inst \notin used]]
            /\ used' = used \cup {memory[t].inst}
       ELSE Finished(t) /\ UNCHANGED used
    /\ UNCHANGED <<at, ghost, lock, shared, rotation>>

Exchanged(t) ==
    /\ op[t].kind = "callback" /\ op[t].phase = "sent" /\ op[t].ok /\ GuardHolds(t)
    /\ Finished(t)
    /\ WriteUser(t, [fam |-> memory[t].inst, rot |-> 0, epoch |-> epoch])
    /\ UNCHANGED <<at, ghost, lock, shared, provider>>

\* Refused, of another epoch, not to be stored, or late: ten seconds at most.
ExchangeFails(t) ==
    /\ op[t].kind = "callback" /\ op[t].phase = "sent"
    /\ Finished(t)
    /\ storage' \in {storage, [storage EXCEPT ![t] = Cleared(@)]}
    /\ UNCHANGED <<at, memory, ghost, lock, shared, provider>>

(***************************************************************************)
(* Renewal.                                                                *)
(***************************************************************************)
Renew(t) ==
    /\ at[t] = "page" /\ op[t] = NoOp /\ memory[t].user # Nobody
    /\ LET user == memory[t].user
           newest == rotation[user.fam] = user.rot
       IN  /\ rotation[user.fam] < MaxRotation
           /\ op' = [op EXCEPT ![t] = [kind |-> "renew", phase |-> "sent", epoch |-> epoch, ok |-> newest]]
           /\ rotation' = IF newest THEN [rotation EXCEPT ![user.fam] = @ + 1] ELSE rotation
    /\ UNCHANGED <<at, memory, ghost, storage, lock, shared, used>>

Renewed(t) ==
    /\ op[t].kind = "renew" /\ op[t].ok /\ GuardHolds(t)
    /\ Finished(t)
    /\ LET user == memory[t].user
       IN  WriteUser(t, [fam |-> user.fam, rot |-> user.rot + 1, epoch |-> op[t].epoch])
    /\ UNCHANGED <<at, ghost, lock, shared, provider>>

RenewFails(t) ==
    /\ op[t].kind = "renew"
    /\ Finished(t) /\ ClearAdapter(t)
    /\ UNCHANGED <<at, ghost, shared, provider>>

(***************************************************************************)
(* Signing out, here and in the other tabs.                                *)
(***************************************************************************)
Listening == {t \in Tabs : at[t] = "page"}

SignOutTab(t) ==
    /\ at[t] = "page" /\ epoch < MaxEpoch
    /\ Rescoped(t) /\ ClearAdapter(t)
    /\ epoch' = epoch + 1
    /\ notices' = notices \cup (Listening \ {t})
    /\ UNCHANGED <<at, names, provider>>

\* The session is invalidated and the stored account state removed, the
\* instance with it; a tab whose session is not an account's only clears it.
Notice(t) ==
    /\ t \in notices
    /\ notices' = notices \ {t}
    /\ Rescoped(t)
    /\ memory' = [memory EXCEPT ![t].user = Nobody, ![t].keeps = FALSE]
    /\ lock' = Released(t)
    /\ \/ storage' = [storage EXCEPT ![t] = NoDisk]
       \/ memory[t].user = Nobody /\ op[t] = NoOp /\ storage' = [storage EXCEPT ![t] = Cleared(@)]
    /\ UNCHANGED <<at, epoch, names, provider>>

-----------------------------------------------------------------------------
TabNext(t) ==
    \/ Open(t) \/ Reload(t) \/ Close(t) \/ LoadPage(t)
    \/ \E u \in Tabs : Duplicate(t, u)
    \/ LockAnswer(t) \/ GhostAnswer(t) \/ GhostRelease(t) \/ Busy(t) \/ Restore(t) \/ RestoreRefused(t)
    \/ Begin(t) \/ Depart(t) \/ DepartRefused(t) \/ Return(t)
    \/ Exchange(t) \/ Exchanged(t) \/ ExchangeFails(t)
    \/ Renew(t) \/ Renewed(t) \/ RenewFails(t)
    \/ SignOutTab(t) \/ Notice(t)

TabsNext == (\E t \in Tabs : TabNext(t)) /\ UNCHANGED locks

TabsSpec == TabsInit /\ [][TabsNext]_tabsVars

-----------------------------------------------------------------------------
Users == [fam : Instances, rot : 0..MaxRotation, epoch : 1..MaxEpoch]
Memories == [inst : Instances \cup {Nobody}, user : Users \cup {Nobody}, keeps : BOOLEAN]
Transactions == [inst : Instances, epoch : 1..MaxEpoch]
Disks == [inst : Instances \cup {Nobody}, user : Users \cup {Nobody}, tx : Transactions \cup {Nobody}]
Awaits == [kind : Operations \cup {Nobody}, phase : Phases \cup {Nobody}, epoch : 0..MaxEpoch, ok : BOOLEAN]
Ghosts == [inst : Instances, held : BOOLEAN]

TabsTypeOK ==
    /\ locks \in BOOLEAN
    /\ at \in [Tabs -> {"closed", "loading", "landing", "page", "provider"}]
    /\ memory \in [Tabs -> Memories] /\ storage \in [Tabs -> Disks]
    /\ op \in [Tabs -> Awaits] /\ ghost \in [Tabs -> Ghosts \cup {Nobody}]
    /\ lock \in [Instances -> Tabs \cup {Nobody}]
    /\ epoch \in 1..MaxEpoch /\ names \in 0..MaxInstances
    /\ notices \subseteq Tabs /\ used \subseteq Instances /\ rotation \in [Instances -> 0..MaxRotation]

(***************************************************************************)
(* No two tabs hold the credentials of one sign-in, however tabs are       *)
(* duplicated, reloaded and closed.                                        *)
(***************************************************************************)
OneTabPerFamily ==
    \A t, u \in Tabs :
        t # u /\ memory[t].user # Nobody /\ memory[u].user # Nobody => memory[t].user.fam # memory[u].user.fam

(***************************************************************************)
(* A tab that a logout has reached, or that was loaded after it, holds     *)
(* only credentials got by a sign-in or a renewal that began after it,     *)
(* although requests were under way.  A renewal takes its guard afresh: in *)
(* a tab that the logout has yet to reach it brings the session of before  *)
(* into the new epoch, and a reload before the notice then keeps it.       *)
(***************************************************************************)
LogoutReachesAll ==
    \A t \in Tabs : memory[t].user # Nobody => t \in notices \/ memory[t].user.epoch = epoch

(***************************************************************************)
(* What a reload would restore is the newest token the tab got: never one  *)
(* already presented; and an account held without a lock leaves nothing.   *)
(***************************************************************************)
ReloadFindsNewest ==
    \A t \in Tabs : memory[t].user # Nobody =>
        storage[t].user = IF memory[t].keeps THEN memory[t].user ELSE Nobody
===============================================================================
