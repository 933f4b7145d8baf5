-------------------------- MODULE AccountTabsProofs --------------------------
(***************************************************************************)
(* Proofs about AccountTabs, for any number of tabs, sign-ins, renewals    *)
(* and logouts, in browsers with Web Locks and without.                    *)
(***************************************************************************)
EXTENDS AccountTabs, TLAPS

(***************************************************************************)
(* A page and what it awaits go together, and nothing survives a page but  *)
(* its storage.                                                            *)
(***************************************************************************)
Asking == {"lock", "granted", "busy", "unsupported"}
Exchanging(t) == op[t].kind = "callback" /\ op[t].phase = "sent"

Paged(t) ==
    /\ at[t] = "page" => memory[t].inst \in Instances
    /\ at[t] # "page" => memory[t] = NoMemory /\ op[t] = NoOp /\ ghost[t] = Nobody
    /\ op[t].phase \in Asking => op[t].kind \in {"restore", "callback"}
    /\ op[t].phase = "preparing" <=> op[t].kind = "begin"
    /\ op[t].kind = "renew" => op[t].phase = "sent"

(***************************************************************************)
(* Whoever believes to hold a lock does, and believes it once: for its     *)
(* session, for a request under way, or for one that outlived its scope.   *)
(***************************************************************************)
Locked(t) ==
    /\ memory[t].keeps => locks /\ lock[memory[t].inst] = t /\ op[t].phase \notin Asking
    /\ op[t].phase = "granted" => locks /\ lock[memory[t].inst] = t
    /\ op[t].phase = "unsupported" => ~ locks
    /\ ghost[t] # Nobody =>
        /\ ghost[t].held => lock[ghost[t].inst] = t
        /\ ~ memory[t].keeps /\ memory[t].user = Nobody /\ op[t].kind \in {Nobody, "begin"}

(***************************************************************************)
(* Credentials are of the page's own sign-in and, where there are locks,   *)
(* held under the lock of it.                                              *)
(***************************************************************************)
Holds(t) ==
    /\ memory[t].user # Nobody => memory[t].user.fam = memory[t].inst /\ memory[t].keeps = locks
    /\ op[t].kind \in {"restore", "callback", "begin"} => memory[t].user = Nobody
    /\ op[t].kind = "renew" => memory[t].user # Nobody /\ (op[t].ok => memory[t].user.rot < MaxRotation)
    /\ Exchanging(t) => memory[t].keeps = locks

(***************************************************************************)
(* Without locks nothing is stored, and a code is good for one exchange.   *)
(***************************************************************************)
Claims(t) == memory[t].user # Nobody \/ (Exchanging(t) /\ op[t].ok)

Unlockable(t) == ~ locks => storage[t].user = Nobody /\ (Claims(t) => memory[t].inst \in used)

OneClaim ==
    ~ locks => \A t, u \in Tabs : t # u /\ Claims(t) /\ Claims(u) => memory[t].inst # memory[u].inst

Reached(t) == memory[t].user # Nobody => t \in notices \/ memory[t].user.epoch = epoch

Newest(t) == memory[t].user # Nobody => storage[t].user = IF memory[t].keeps THEN memory[t].user ELSE Nobody

TabOK(t) == Paged(t) /\ Locked(t) /\ Holds(t) /\ Unlockable(t) /\ Reached(t) /\ Newest(t)

IInv == TabsTypeOK /\ (\A t \in Tabs : TabOK(t)) /\ OneClaim

-----------------------------------------------------------------------------
LEMMA NoneApart ==
    /\ Nobody \notin Tabs /\ Nobody \notin Nat /\ Nobody \notin Instances
    /\ Nobody \notin {"restore", "callback", "begin", "renew"}
    /\ Nobody \notin {"lock", "granted", "busy", "unsupported", "preparing", "sent"}
BY TabsAssumption DEF Operations, Phases, Instances

LEMMA Nothings == NoMemory \in Memories /\ NoDisk \in Disks /\ NoOp \in Awaits
BY TabsAssumption DEF NoMemory, NoDisk, NoOp, Memories, Disks, Awaits

(***************************************************************************)
(* A step of one tab leaves the pages and the storage of the others alone, *)
(* takes no lock from them, and makes a logout known to each that has a    *)
(* page.                                                                   *)
(***************************************************************************)
Aside(t) ==
    \A u \in Tabs \ {t} :
        /\ at'[u] = at[u] /\ memory'[u] = memory[u] /\ op'[u] = op[u]
        /\ ghost'[u] = ghost[u] /\ storage'[u] = storage[u]
        /\ \A i \in Instances : lock[i] = u => lock'[i] = u
        /\ u \in notices => u \in notices'
        /\ epoch' = epoch \/ (at[u] = "page" => u \in notices')


LEMMA PageHasInstance ==
    ASSUME IInv, NEW t \in Tabs, op[t].kind # Nobody \/ op[t].phase # Nobody
    PROVE  at[t] = "page" /\ memory[t].inst \in Instances
BY DEF IInv, TabOK, Paged, NoOp

LEMMA UserIssued ==
    ASSUME IInv, NEW t \in Tabs, Exchanged(t)
    PROVE  [fam |-> memory[t].inst, rot |-> 0, epoch |-> epoch] \in Users
<1>1. memory[t].inst \in Instances
  BY PageHasInstance, NoneApart DEF Exchanged
<1> QED BY <1>1, TabsAssumption DEF Users, IInv, TabsTypeOK

LEMMA UserRenewed ==
    ASSUME IInv, NEW t \in Tabs, Renewed(t)
    PROVE  [fam |-> memory[t].user.fam, rot |-> memory[t].user.rot + 1, epoch |-> op[t].epoch] \in Users
<1>1. memory[t].user # Nobody /\ memory[t].user.rot < MaxRotation
  BY DEF IInv, TabOK, Holds, Renewed
<1>2. memory[t].user \in Users
  BY <1>1 DEF IInv, TabsTypeOK, Memories
<1>3. op[t].epoch \in 1..MaxEpoch
  BY DEF IInv, TabsTypeOK, Renewed, GuardHolds
<1>4. memory[t].user.fam \in Instances /\ memory[t].user.rot + 1 \in 0..MaxRotation
  BY <1>1, <1>2, TabsAssumption DEF Users
<1> QED BY <1>3, <1>4 DEF Users

LEMMA ClearedUser ==
    ASSUME TabsTypeOK, NEW t \in Tabs, storage' = [storage EXCEPT ![t] = Cleared(@)]
    PROVE  storage'[t].user = Nobody
<1>1. storage'[t] = Cleared(storage[t]) /\ storage[t] \in Disks
  BY DEF TabsTypeOK
<1>2. Cleared(storage[t]).user = Nobody
  BY <1>1 DEF Cleared, Disks
<1> QED BY <1>1, <1>2

LEMMA FreshInstance == TabsTypeOK /\ NewInstance => names + 1 \in Instances /\ names' \in 0..MaxInstances
BY TabsAssumption DEF TabsTypeOK, NewInstance, Instances

LEMMA MemoriesTyped ==
    ASSUME IInv, NEW t \in Tabs, TabNext(t)
    PROVE  memory' \in [Tabs -> Memories]
<1> USE NoneApart, Nothings DEF IInv, TabsTypeOK
<1>0. [memory EXCEPT ![t].user = Nobody, ![t].keeps = FALSE] \in [Tabs -> Memories]
  <2>1. [memory[t] EXCEPT !.user = Nobody, !.keeps = FALSE] \in Memories
    BY DEF Memories
  <2> QED BY <2>1
<1>1. CASE memory' = memory
  BY <1>1
<1>2. CASE Reload(t) \/ Close(t) \/ Depart(t)
  BY <1>2 DEF Reload, Close, Depart, Unloaded
<1>3. CASE LoadPage(t)
  <2>1. PICK i \in Instances : memory' = [memory EXCEPT ![t].inst = i]
    BY <1>3, FreshInstance DEF LoadPage, Disks
  <2> QED BY <2>1 DEF Memories
<1>4. CASE Busy(t)
  BY <1>4 DEF Busy, Memories
<1>5. CASE Restore(t)
  BY <1>5 DEF Restore, Memories, Disks
<1>6. CASE Begin(t)
  BY <1>6, FreshInstance DEF Begin, Memories, NoMemory
<1>7. CASE Exchange(t)
  BY <1>7 DEF Exchange, Memories
<1>8. CASE Exchanged(t)
  BY <1>8, UserIssued DEF Exchanged, WriteUser, Memories
<1>9. CASE Renewed(t)
  BY <1>9, UserRenewed DEF Renewed, WriteUser, Memories
<1>10. CASE DepartRefused(t) \/ RenewFails(t) \/ SignOutTab(t) \/ Notice(t)
  BY <1>0, <1>10 DEF DepartRefused, RenewFails, SignOutTab, Notice, ClearAdapter
<1> QED
  BY <1>1, <1>2, <1>3, <1>4, <1>5, <1>6, <1>7, <1>8, <1>9, <1>10
  DEF TabNext, Open, Return, Duplicate, LockAnswer, GhostAnswer, GhostRelease, RestoreRefused, ExchangeFails, Renew

LEMMA DisksTyped ==
    ASSUME IInv, NEW t \in Tabs, TabNext(t)
    PROVE  storage' \in [Tabs -> Disks]
<1> USE NoneApart, Nothings DEF IInv, TabsTypeOK
<1>1. CASE storage' = storage
  BY <1>1
<1>0. [storage EXCEPT ![t] = Cleared(@)] \in [Tabs -> Disks]
  BY DEF Cleared, Disks
<1>2. CASE \E u \in Tabs : Duplicate(t, u)
  BY <1>2 DEF Duplicate
<1>3. CASE Close(t)
  BY <1>3 DEF Close
<1>4. CASE LoadPage(t)
  BY <1>4, FreshInstance DEF LoadPage, Disks
<1>5. CASE Busy(t) \/ Restore(t) \/ RestoreRefused(t) \/ ExchangeFails(t)
  BY <1>0, <1>5 DEF Busy, Restore, RestoreRefused, ExchangeFails
<1>6. CASE Begin(t)
  BY <1>6, FreshInstance DEF Begin, Disks, NoDisk
<1>7. CASE Depart(t)
  <2>1. memory[t].inst \in Instances
    BY <1>7, PageHasInstance DEF Depart
  <2>2. [inst |-> memory[t].inst, epoch |-> epoch] \in Transactions
    BY <2>1 DEF Transactions
  <2> QED BY <1>7, <2>2 DEF Depart, Disks
<1>8. CASE Exchange(t)
  BY <1>8 DEF Exchange, Disks
<1>9. CASE Exchanged(t)
  BY <1>9, UserIssued DEF Exchanged, WriteUser, Disks
<1>10. CASE Renewed(t)
  BY <1>10, UserRenewed DEF Renewed, WriteUser, Disks
<1>11. CASE DepartRefused(t) \/ RenewFails(t) \/ SignOutTab(t) \/ Notice(t)
  BY <1>0, <1>11 DEF DepartRefused, RenewFails, SignOutTab, Notice, ClearAdapter
<1> QED
  BY <1>1, <1>2, <1>3, <1>4, <1>5, <1>6, <1>7, <1>8, <1>9, <1>10, <1>11
  DEF TabNext, Open, Return, Reload, LockAnswer, GhostAnswer, GhostRelease, Renew

LEMMA BeginAwaited ==
    TabsTypeOK => [NoOp EXCEPT !.kind = "begin", !.phase = "preparing", !.epoch = epoch] \in Awaits
<1>1. TabsTypeOK => epoch \in 0..MaxEpoch
  BY TabsAssumption DEF TabsTypeOK
<1>2. NoOp \in Awaits
  BY Nothings
<1> QED BY <1>1, <1>2 DEF Awaits, Operations, Phases

LEMMA AwaitsTyped ==
    ASSUME IInv, NEW t \in Tabs, TabNext(t)
    PROVE  op' \in [Tabs -> Awaits]
<1> USE NoneApart, Nothings, TabsAssumption DEF IInv, TabsTypeOK
<1>1. CASE op' = op \/ op' = [op EXCEPT ![t] = NoOp]
  BY <1>1
<1>2. CASE LoadPage(t)
  BY <1>2 DEF LoadPage, Awaits, Operations, Phases, NoOp
<1>3. CASE LockAnswer(t)
  BY <1>3 DEF LockAnswer, Awaits, Phases
<1>4. CASE Begin(t)
  BY <1>4, BeginAwaited DEF Begin
<1>5. CASE Exchange(t)
  <2>1. [kind |-> "callback", phase |-> "sent", epoch |-> epoch, ok |-> memory[t].inst \notin used] \in Awaits
    BY DEF Awaits, Operations, Phases
  <2> QED BY <1>5, <2>1 DEF Exchange, Finished
<1>6. CASE Renew(t)
  BY <1>6 DEF Renew, Awaits, Operations, Phases
<1> QED
  BY <1>1, <1>2, <1>3, <1>4, <1>5, <1>6
  DEF TabNext, Open, Return, Duplicate, Reload, Close, Unloaded, GhostAnswer, GhostRelease, Busy, Restore,
      RestoreRefused, Depart, DepartRefused, Exchanged, ExchangeFails, Renewed, RenewFails, SignOutTab,
      Notice, Finished, Rescoped

LEMMA LocksTyped ==
    ASSUME IInv, NEW t \in Tabs, TabNext(t)
    PROVE  lock' \in [Instances -> Tabs \cup {Nobody}] /\ ghost' \in [Tabs -> Ghosts \cup {Nobody}]
<1> USE NoneApart DEF IInv, TabsTypeOK
<1>1. Unlocked(t) \in [Instances -> Tabs \cup {Nobody}] /\ Released(t) \in [Instances -> Tabs \cup {Nobody}]
  BY DEF Unlocked, Released
<1>2. Leftover(t) \in [Tabs -> Ghosts \cup {Nobody}]
  BY PageHasInstance DEF Leftover, Ghosts
<1>3. CASE LockAnswer(t)
  BY <1>3 DEF LockAnswer
<1>4. CASE GhostAnswer(t)
  <2>1. ghost[t].inst \in Instances /\ [ghost[t] EXCEPT !.held = TRUE] \in Ghosts
    BY <1>4 DEF GhostAnswer, Ghosts
  <2>2. CASE ghost' = [ghost EXCEPT ![t].held = TRUE] /\ lock' = [lock EXCEPT ![ghost[t].inst] = t]
    BY <2>1, <2>2
  <2>3. CASE ghost' = [ghost EXCEPT ![t] = Nobody] /\ UNCHANGED lock
    BY <2>3
  <2> QED BY <1>4, <2>2, <2>3 DEF GhostAnswer
<1>5. CASE GhostRelease(t)
  BY <1>5 DEF GhostRelease
<1>6. CASE Reload(t) \/ Close(t) \/ Depart(t)
  BY <1>1, <1>6 DEF Reload, Close, Depart, Unloaded
<1>7. CASE Begin(t) \/ DepartRefused(t) \/ RenewFails(t) \/ SignOutTab(t) \/ Notice(t)
  BY <1>1, <1>2, <1>7 DEF Begin, DepartRefused, RenewFails, SignOutTab, Notice, ClearAdapter, Rescoped
<1> QED
  BY <1>3, <1>4, <1>5, <1>6, <1>7
  DEF TabNext, Open, Return, Duplicate, LoadPage, Busy, Restore, RestoreRefused, Exchange, Exchanged,
      ExchangeFails, Renew, Renewed

LEMMA RestTyped ==
    ASSUME IInv, NEW t \in Tabs, TabNext(t), UNCHANGED locks
    PROVE  /\ locks' \in BOOLEAN /\ at' \in [Tabs -> {"closed", "loading", "landing", "page", "provider"}]
           /\ epoch' \in 1..MaxEpoch /\ names' \in 0..MaxInstances
           /\ notices' \subseteq Tabs /\ used' \subseteq Instances
           /\ rotation' \in [Instances -> 0..MaxRotation]
<1> USE TabsAssumption DEF IInv, TabsTypeOK, shared, provider
<1>1. CASE Open(t) \/ Return(t) \/ Reload(t) \/ Close(t) \/ Depart(t)
  BY <1>1 DEF Open, Return, Reload, Close, Depart, Unloaded
<1>2. CASE \E u \in Tabs : Duplicate(t, u)
  BY <1>2 DEF Duplicate
<1>3. CASE LoadPage(t) \/ Begin(t)
  BY <1>3, FreshInstance DEF LoadPage, Begin
<1>4. CASE Exchange(t)
  BY <1>4, PageHasInstance, NoneApart DEF Exchange
<1>5. CASE Renew(t)
  <2>1. memory[t].user \in Users
    BY <1>5 DEF Renew, Memories
  <2> QED BY <1>5, <2>1 DEF Renew, Users
<1>6. CASE SignOutTab(t) \/ Notice(t)
  BY <1>6 DEF SignOutTab, Notice, Listening
<1> QED
  BY <1>1, <1>2, <1>3, <1>4, <1>5, <1>6
  DEF TabNext, LockAnswer, GhostAnswer, GhostRelease, Busy, Restore, RestoreRefused, DepartRefused,
      Exchanged, ExchangeFails, Renewed, RenewFails

LEMMA TypesKept ==
    ASSUME IInv, NEW t \in Tabs, TabNext(t), UNCHANGED locks
    PROVE  TabsTypeOK'
BY MemoriesTyped, DisksTyped, AwaitsTyped, LocksTyped, RestTyped DEF TabsTypeOK


LEMMA AsideKept ==
    ASSUME IInv, NEW t \in Tabs, TabNext(t), UNCHANGED locks
    PROVE  Aside(t)
<1> USE NoneApart DEF IInv, TabsTypeOK, TabOK, Locked, Aside, shared, provider
<1>1. CASE Open(t) \/ Return(t)
  BY <1>1 DEF Open, Return
<1>2. CASE \E u \in Tabs : Duplicate(t, u)
  BY <1>2 DEF Duplicate, Pages
<1>3. CASE Reload(t)
  BY <1>3 DEF Reload, Unloaded, Unlocked
<1>4. CASE Close(t)
  BY <1>4 DEF Close, Unloaded, Unlocked
<1>5. CASE LoadPage(t)
  BY <1>5 DEF LoadPage, NewInstance
<1>6. CASE LockAnswer(t)
  BY <1>6 DEF LockAnswer
<1>7. CASE GhostAnswer(t)
  BY <1>7 DEF GhostAnswer
<1>8. CASE GhostRelease(t)
  BY <1>8 DEF GhostRelease
<1>9. CASE Busy(t)
  BY <1>9 DEF Busy, Finished, Cleared
<1>10. CASE Restore(t)
  BY <1>10 DEF Restore, Restorable, Finished, Cleared
<1>11. CASE RestoreRefused(t)
  BY <1>11 DEF RestoreRefused, Finished, Cleared
<1>12. CASE Begin(t)
  BY <1>12 DEF Begin, NewInstance, Released, Leftover
<1>13. CASE Depart(t)
  BY <1>13 DEF Depart, GuardHolds, Unloaded, Unlocked
<1>14. CASE DepartRefused(t)
  BY <1>14 DEF DepartRefused, Finished, ClearAdapter, Released, Cleared
<1>15. CASE Exchange(t)
  BY <1>15 DEF Exchange, TxValid, Finished
<1>16. CASE Exchanged(t)
  BY <1>16 DEF Exchanged, GuardHolds, Finished, WriteUser
<1>17. CASE ExchangeFails(t)
  BY <1>17 DEF ExchangeFails, Finished, Cleared
<1>18. CASE Renew(t)
  BY <1>18 DEF Renew
<1>19. CASE Renewed(t)
  BY <1>19 DEF Renewed, GuardHolds, Finished, WriteUser
<1>20. CASE RenewFails(t)
  BY <1>20 DEF RenewFails, Finished, ClearAdapter, Released, Cleared
<1>21. CASE SignOutTab(t)
  BY <1>21 DEF SignOutTab, Rescoped, Leftover, ClearAdapter, Released, Cleared, Listening
<1>22. CASE Notice(t)
  BY <1>22 DEF Notice, Rescoped, Leftover, Released, Cleared
<1> QED BY <1>1, <1>2, <1>3, <1>4, <1>5, <1>6, <1>7, <1>8, <1>9, <1>10, <1>11, <1>12, <1>13, <1>14, <1>15, <1>16, <1>17, <1>18, <1>19, <1>20, <1>21, <1>22 DEF TabNext

(***************************************************************************)
(* What a step leaves of its own tab.                                      *)
(***************************************************************************)
LEMMA PageAbsent ==
    ASSUME NEW t \in Tabs, memory'[t] = NoMemory, op'[t] = NoOp, ghost'[t] = Nobody,
           at'[t] # "page", ~ locks' => storage'[t].user = Nobody
    PROVE  TabOK(t)'
<1>1. memory'[t] = NoMemory /\ op'[t] = NoOp /\ ghost'[t] = Nobody
  OBVIOUS
<1>2. memory'[t].user = Nobody /\ memory'[t].keeps = FALSE /\ op'[t].kind = Nobody /\ op'[t].phase = Nobody
  BY <1>1 DEF NoMemory, NoOp
<1>3. Paged(t)'
  BY <1>1, <1>2, NoneApart DEF Paged, Asking
<1>4. Locked(t)'
  BY <1>1, <1>2, NoneApart DEF Locked
<1>5. Holds(t)'
  BY <1>2, NoneApart DEF Holds, Exchanging
<1>6. Unlockable(t)'
  BY <1>2, NoneApart DEF Unlockable, Claims, Exchanging
<1>7. Reached(t)' /\ Newest(t)'
  BY <1>2 DEF Reached, Newest
<1> QED BY <1>3, <1>4, <1>5, <1>6, <1>7 DEF TabOK

LEMMA PageGone ==
    ASSUME TabsTypeOK, NEW t \in Tabs, Unloaded(t), at'[t] # "page", ~ locks => storage'[t].user = Nobody, UNCHANGED locks
    PROVE  TabOK(t)'
<1>1. memory'[t] = NoMemory /\ op'[t] = NoOp /\ ghost'[t] = Nobody
  BY DEF Unloaded, TabsTypeOK
<1> QED BY <1>1, PageAbsent

\* A page without credentials that waits for nothing, or has yet to depart.
LEMMA PageEmpty ==
    ASSUME NEW t \in Tabs, at'[t] = "page", memory'[t].inst \in Instances,
           memory'[t].user = Nobody, memory'[t].keeps = FALSE,
           op'[t] = NoOp \/ (op'[t].kind = "begin" /\ op'[t].phase = "preparing"),
           ghost'[t] # Nobody => (ghost'[t].held => lock'[ghost'[t].inst] = t),
           ~ locks' => storage'[t].user = Nobody
    PROVE  TabOK(t)'
BY NoneApart
DEF TabOK, Paged, Locked, Holds, Unlockable, Claims, Exchanging, Asking, Reached, Newest, NoOp

\* A lock that its scope has left is still the tab's.
LEMMA LeftoverHeld ==
    ASSUME IInv, NEW t \in Tabs, ghost' = Leftover(t), lock' = Released(t)
    PROVE  ghost'[t] # Nobody => (ghost'[t].held => lock'[ghost'[t].inst] = t)
<1> USE NoneApart DEF IInv, TabsTypeOK, TabOK, Paged, Locked, Asking
<1>1. CASE op[t].phase \in {"lock", "granted"}
  <2>1. ghost'[t] = [inst |-> memory[t].inst, held |-> op[t].phase = "granted"]
    BY <1>1 DEF Leftover
  <2>2. lock' = lock
    BY <1>1 DEF Released
  <2>3. ghost'[t].inst = memory[t].inst
    BY <2>1
  <2>4. CASE op[t].phase = "granted"
    BY <2>2, <2>3, <2>4
  <2>5. CASE op[t].phase # "granted"
    <3>1. ghost'[t] = [inst |-> memory[t].inst, held |-> FALSE]
      BY <2>1, <2>5
    <3> QED BY <3>1
  <2> QED BY <2>4, <2>5
<1>2. CASE op[t].phase \notin {"lock", "granted"}
  <2>1. ghost'[t] = ghost[t]
    BY <1>2 DEF Leftover
  <2>2. CASE ghost[t] # Nobody
    <3>1. lock' = lock
      BY <2>2 DEF Released
    <3> QED BY <2>1, <3>1
  <2> QED BY <2>1, <2>2
<1> QED BY <1>1, <1>2

LEMMA TabKept ==
    ASSUME IInv, TabsTypeOK', NEW t \in Tabs, TabNext(t), UNCHANGED locks
    PROVE  TabOK(t)'
<1> USE NoneApart
<1>0. TabsTypeOK /\ TabOK(t) /\ t \in Tabs
  BY DEF IInv
<1>1. CASE Reload(t) \/ Close(t) \/ Depart(t)
  <2>1. Unloaded(t) /\ at'[t] # "page"
    BY <1>0, <1>1 DEF Reload, Close, Depart, TabsTypeOK
  <2>2. storage'[t].user \in {storage[t].user, Nobody}
    BY <1>0, <1>1 DEF Reload, Close, Depart, NoDisk, Disks, TabsTypeOK
  <2> QED BY <1>0, <2>1, <2>2, PageGone DEF TabOK, Unlockable
<1>2. CASE Begin(t)
  <2>1. at'[t] = "page" /\ op'[t].kind = "begin" /\ op'[t].phase = "preparing"
    BY <1>0, <1>2 DEF Begin, NoOp, TabsTypeOK
  <2>2. memory'[t].inst = names + 1 /\ memory'[t].user = Nobody /\ memory'[t].keeps = FALSE /\ storage'[t].user = Nobody
    BY <1>0, <1>2 DEF Begin, NoMemory, NoDisk, TabsTypeOK
  <2>3. names + 1 \in Instances
    BY <1>0, <1>2, FreshInstance DEF Begin
  <2>4. ghost' = Leftover(t) /\ lock' = Released(t)
    BY <1>2 DEF Begin
  <2>5. ghost'[t] # Nobody => (ghost'[t].held => lock'[ghost'[t].inst] = t)
    BY <2>4, LeftoverHeld
  <2> QED BY <2>1, <2>2, <2>3, <2>5, PageEmpty
<1>3. CASE DepartRefused(t) \/ RenewFails(t)
  <2>1. at'[t] = "page" /\ memory[t].inst \in Instances
    BY <1>3, PageHasInstance DEF DepartRefused, RenewFails
  <2>2. memory'[t].inst = memory[t].inst /\ memory'[t].user = Nobody /\ memory'[t].keeps = FALSE /\ storage'[t].user = Nobody
    BY <1>0, <1>3, ClearedUser DEF DepartRefused, RenewFails, ClearAdapter, Memories, TabsTypeOK
  <2>3. op'[t] = NoOp /\ ghost' = ghost /\ lock' = Released(t)
    BY <1>0, <1>3 DEF DepartRefused, RenewFails, ClearAdapter, Finished, TabsTypeOK
  <2>4. Leftover(t) = ghost
    BY <1>0, <1>3 DEF DepartRefused, RenewFails, Leftover, TabOK, Paged
  <2>5. ghost'[t] # Nobody => (ghost'[t].held => lock'[ghost'[t].inst] = t)
    BY <2>3, <2>4, LeftoverHeld
  <2>6. memory'[t].inst \in Instances
    BY <2>1, <2>2
  <2>7. op'[t] = NoOp \/ (op'[t].kind = "begin" /\ op'[t].phase = "preparing")
    BY <2>3
  <2> QED BY <2>1, <2>2, <2>5, <2>6, <2>7, PageEmpty
<1>4. CASE SignOutTab(t) \/ Notice(t)
  <2>1. at' = at /\ memory'[t].inst = memory[t].inst /\ memory'[t].user = Nobody /\ memory'[t].keeps = FALSE
    BY <1>0, <1>4 DEF SignOutTab, Notice, ClearAdapter, Memories, TabsTypeOK
  <2>2. storage'[t].user = Nobody
    <3>1. storage' = [storage EXCEPT ![t] = Cleared(@)] => storage'[t].user = Nobody
      BY <1>0, ClearedUser
    <3>2. storage' = [storage EXCEPT ![t] = NoDisk] => storage'[t].user = Nobody
      BY <1>0 DEF NoDisk, TabsTypeOK
    <3> QED BY <1>4, <3>1, <3>2 DEF SignOutTab, Notice, ClearAdapter
  <2>3. op'[t] = NoOp /\ ghost' = Leftover(t) /\ lock' = Released(t)
    BY <1>0, <1>4 DEF SignOutTab, Notice, ClearAdapter, Rescoped, TabsTypeOK
  <2>4. CASE at[t] = "page"
    <3>1. memory[t].inst \in Instances
      BY <1>0, <2>4 DEF TabOK, Paged
    <3>2. ghost'[t] # Nobody => (ghost'[t].held => lock'[ghost'[t].inst] = t)
      BY <2>3, LeftoverHeld
    <3>3. at'[t] = "page" /\ memory'[t].inst \in Instances
      BY <2>1, <2>4, <3>1
    <3>4. op'[t] = NoOp \/ (op'[t].kind = "begin" /\ op'[t].phase = "preparing")
      BY <2>3
    <3> QED BY <2>1, <2>2, <3>2, <3>3, <3>4, PageEmpty
  <2>5. CASE at[t] # "page"
    <3>1. memory[t] = NoMemory /\ op[t] = NoOp /\ ghost[t] = Nobody
      BY <1>0, <2>5 DEF TabOK, Paged
    <3>2. memory'[t].inst = Nobody /\ op[t].phase = Nobody
      BY <2>1, <3>1 DEF NoMemory, NoOp
    <3>3. memory'[t] = NoMemory
      BY <2>1, <3>2 DEF NoMemory, Memories, TabsTypeOK
    <3>4. ghost'[t] = Nobody
      BY <2>3, <3>1, <3>2 DEF Leftover
    <3> QED BY <2>1, <2>2, <2>3, <2>5, <3>3, <3>4, PageAbsent
  <2> QED BY <2>4, <2>5
<1>5. CASE LoadPage(t)
  <2>1. memory[t] = NoMemory /\ ghost[t] = Nobody
    BY <1>0, <1>5 DEF LoadPage, TabOK, Paged
  <2>2. memory'[t].inst \in Instances
    <3>1. CASE storage[t].inst = Nobody
      BY <1>0, <1>5, <3>1, FreshInstance DEF LoadPage, TabsTypeOK, Memories
    <3>2. CASE storage[t].inst # Nobody
      BY <1>0, <1>5, <3>2 DEF LoadPage, TabsTypeOK, Disks, Memories
    <3> QED BY <3>1, <3>2
  <2>3. at'[t] = "page" /\ memory'[t].user = Nobody /\ memory'[t].keeps = FALSE /\ ghost'[t] = Nobody
    BY <1>0, <1>5, <2>1 DEF LoadPage, NoMemory, TabsTypeOK
  <2>4. op'[t].kind \in {"restore", "callback"} /\ op'[t].phase = "lock"
    BY <1>0, <1>5 DEF LoadPage, NoOp, TabsTypeOK
  <2>5. storage'[t].user = storage[t].user
    BY <1>0, <1>5 DEF LoadPage, Disks, TabsTypeOK
  <2> QED
    BY <1>0, <2>2, <2>3, <2>4, <2>5
    DEF TabOK, Paged, Locked, Holds, Unlockable, Claims, Exchanging, Asking, Reached, Newest
<1> USE DEF IInv, TabsTypeOK
<1>6. CASE GhostAnswer(t)
  <2> USE DEF TabOK
  <2>1. ghost[t] # Nobody /\ ghost[t] \in Ghosts /\ ~ ghost[t].held /\ op[t].kind \in {Nobody, "begin"} /\ ~ memory[t].keeps
    BY <1>6 DEF GhostAnswer, Locked
  <2>2. op[t].phase \notin Asking
    BY <2>1 DEF Paged, Asking
  <2>3. UNCHANGED <<at, memory, op, storage, epoch, notices, used>>
    BY <1>6 DEF GhostAnswer, shared, provider
  <2>4. ghost'[t] # Nobody => lock'[ghost'[t].inst] = t
    <3>1. CASE ghost' = [ghost EXCEPT ![t].held = TRUE] /\ lock' = [lock EXCEPT ![ghost[t].inst] = t]
      BY <2>1, <3>1 DEF Ghosts
    <3>2. CASE ghost' = [ghost EXCEPT ![t] = Nobody]
      BY <3>2
    <3> QED BY <1>6, <3>1, <3>2 DEF GhostAnswer
  <2>5. Paged(t)'
    BY <2>1, <2>3 DEF Paged
  <2>6. Locked(t)'
    BY <2>1, <2>2, <2>3, <2>4 DEF Locked, Asking
  <2> QED
    BY <2>3, <2>5, <2>6 DEF Holds, Unlockable, Claims, Exchanging, Reached, Newest
<1>7. CASE Restore(t)
  <2> USE DEF TabOK
  <2>1. /\ at[t] = "page" /\ at' = at /\ memory[t].inst \in Instances /\ op'[t] = NoOp /\ ghost'[t] = Nobody
        /\ locks /\ lock' = lock /\ lock[memory[t].inst] = t /\ UNCHANGED <<epoch, notices, used>>
    BY <1>7, PageHasInstance DEF Restore, Finished, Locked, shared, provider
  <2>2. /\ memory'[t].inst = memory[t].inst /\ memory'[t].keeps
        /\ memory'[t].user = IF Restorable(t) THEN storage[t].user ELSE Nobody
    BY <1>7 DEF Restore, Memories
  <2>3. Restorable(t) => storage'[t].user = storage[t].user
    BY <1>7 DEF Restore
  <2>4. Paged(t)' /\ Locked(t)'
    BY <2>1, <2>2 DEF Paged, Locked, NoOp, Asking
  <2>5. Holds(t)' /\ Unlockable(t)'
    BY <2>1, <2>2 DEF Holds, Unlockable, NoOp, Restorable, Exchanging
  <2>6. Reached(t)' /\ Newest(t)'
    BY <2>1, <2>2, <2>3 DEF Reached, Newest, Restorable
  <2> QED BY <2>4, <2>5, <2>6
<1>8. CASE ExchangeFails(t)
  <2> USE DEF TabOK
  <2>1. /\ at[t] = "page" /\ memory[t].inst \in Instances /\ memory[t].user = Nobody /\ ghost[t] = Nobody
        /\ op'[t] = NoOp /\ UNCHANGED <<at, memory, ghost, lock>>
    BY <1>8, PageHasInstance DEF ExchangeFails, Finished, Holds, Locked
  <2>2. storage'[t].user \in {storage[t].user, Nobody}
    BY <1>8, ClearedUser DEF ExchangeFails
  <2>3. memory[t].keeps => locks /\ lock[memory[t].inst] = t
    BY DEF Locked
  <2> QED
    BY <2>1, <2>2, <2>3
    DEF Paged, Locked, Holds, Unlockable, Claims, Exchanging, Asking, Reached, Newest, NoOp
<1>9. CASE ~ (Reload(t) \/ Close(t) \/ Depart(t) \/ Begin(t) \/ DepartRefused(t) \/ RenewFails(t) \/ SignOutTab(t)
             \/ Notice(t) \/ LoadPage(t) \/ GhostAnswer(t) \/ Restore(t) \/ ExchangeFails(t))
  <2> USE DEF TabOK, Paged, Locked, Holds, Unlockable, Claims, Exchanging, Asking, Reached, Newest, shared, provider
  <2>1. CASE Open(t) \/ Return(t)
    BY <2>1 DEF Open, Return, NoMemory, NoOp
  <2>2. CASE \E u \in Tabs : Duplicate(t, u)
    BY <2>2 DEF Duplicate, Pages, NoMemory, NoOp
  <2>3. CASE LockAnswer(t)
    BY <2>3 DEF LockAnswer, NoMemory, NoOp
  <2>4. CASE GhostRelease(t)
    BY <2>4 DEF GhostRelease, NoMemory, NoOp
  <2>5. CASE Busy(t)
    BY <2>5 DEF Busy, Finished, Cleared, NoMemory, NoOp
  <2>6. CASE RestoreRefused(t)
    BY <2>6 DEF RestoreRefused, Finished, Cleared, NoMemory, NoOp
  <2>7. CASE Exchange(t)
    BY <2>7 DEF Exchange, TxValid, Finished, NoMemory, NoOp
  <2>8. CASE Exchanged(t)
    BY <2>8 DEF Exchanged, GuardHolds, Finished, WriteUser, NoMemory, NoOp
  <2>9. CASE Renew(t)
    BY <2>9 DEF Renew, NoMemory, NoOp
  <2>10. CASE Renewed(t)
    BY <2>10 DEF Renewed, GuardHolds, Finished, WriteUser, NoMemory, NoOp
  <2> QED BY <1>9, <2>1, <2>2, <2>3, <2>4, <2>5, <2>6, <2>7, <2>8, <2>9, <2>10 DEF TabNext
<1> QED BY <1>1, <1>2, <1>3, <1>4, <1>5, <1>6, <1>7, <1>8, <1>9

LEMMA CodesKept ==
    ASSUME NEW t \in Tabs, TabNext(t)
    PROVE  used \subseteq used'
BY DEF TabNext, provider, Open, Duplicate, Reload, Close, LoadPage, LockAnswer, GhostAnswer, GhostRelease, Busy,
       Restore, RestoreRefused, Begin, Depart, DepartRefused, Return, Exchange, Exchanged, ExchangeFails,
       Renew, Renewed, RenewFails, SignOutTab, Notice

(***************************************************************************)
(* The other tabs: what is true of them stays so.                          *)
(***************************************************************************)
LEMMA OthersKept ==
    ASSUME IInv, NEW t \in Tabs, TabNext(t), UNCHANGED locks, NEW u \in Tabs \ {t}
    PROVE  TabOK(u)'
<1>1. TabsTypeOK /\ TabOK(u)
  BY DEF IInv
<1>2. /\ at'[u] = at[u] /\ memory'[u] = memory[u] /\ op'[u] = op[u] /\ ghost'[u] = ghost[u] /\ storage'[u] = storage[u]
      /\ \A i \in Instances : lock[i] = u => lock'[i] = u
      /\ u \in notices => u \in notices'
      /\ epoch' = epoch \/ (at[u] = "page" => u \in notices')
  BY AsideKept DEF Aside
<1>3. used \subseteq used'
  BY CodesKept
<1>4. Paged(u)'
  BY <1>1, <1>2 DEF TabOK, Paged
<1>5. Locked(u)'
  <2>1. ghost[u] # Nobody => ghost[u].inst \in Instances
    BY <1>1 DEF TabsTypeOK, Ghosts
  <2>2. (memory[u].keeps \/ op[u].phase = "granted") => memory[u].inst \in Instances
    BY <1>1, PageHasInstance, NoneApart DEF TabOK, Paged, NoMemory
  <2> QED BY <1>1, <1>2, <2>1, <2>2 DEF TabOK, Locked
<1>6. Holds(u)'
  BY <1>1, <1>2 DEF TabOK, Holds, Exchanging
<1>7. Unlockable(u)'
  BY <1>1, <1>2, <1>3 DEF TabOK, Unlockable, Claims, Exchanging
<1>8. Reached(u)'
  BY <1>1, <1>2 DEF TabOK, Reached, Paged, NoMemory
<1>9. Newest(u)'
  BY <1>1, <1>2 DEF TabOK, Newest
<1> QED BY <1>4, <1>5, <1>6, <1>7, <1>8, <1>9 DEF TabOK

(***************************************************************************)
(* Without locks it is the identity provider that keeps two tabs apart: a  *)
(* tab comes to claim a sign-in only with a code no other has exchanged.   *)
(***************************************************************************)
LEMMA ClaimIsNew ==
    ASSUME IInv, NEW t \in Tabs, TabNext(t), UNCHANGED locks, ~ locks, Claims(t)'
    PROVE  \/ Claims(t) /\ memory'[t].inst = memory[t].inst
           \/ memory'[t].inst \notin used
<1> USE NoneApart DEF IInv, TabsTypeOK, Claims, Exchanging
<1>1. CASE \/ Open(t) \/ Return(t) \/ (\E u \in Tabs : Duplicate(t, u)) \/ GhostAnswer(t) \/ GhostRelease(t)
  BY <1>1 DEF Open, Return, Duplicate, GhostAnswer, GhostRelease
<1>10. CASE LockAnswer(t)
  BY <1>10 DEF LockAnswer, Awaits
<1>11. CASE RestoreRefused(t) \/ ExchangeFails(t)
  BY <1>11 DEF RestoreRefused, ExchangeFails, Finished, NoOp
<1>2. CASE Reload(t) \/ Close(t) \/ Depart(t)
  BY <1>2 DEF Reload, Close, Depart, Unloaded, NoMemory, NoOp
<1>3. CASE LoadPage(t)
  BY <1>3 DEF LoadPage, TabOK, Paged, NoMemory, NoOp
<1>4. CASE Busy(t) \/ DepartRefused(t) \/ RenewFails(t) \/ SignOutTab(t) \/ Notice(t)
  <2>1. op'[t] = NoOp /\ memory'[t].user = Nobody
    BY <1>4 DEF Busy, DepartRefused, RenewFails, SignOutTab, Notice, ClearAdapter, Finished, Rescoped, Memories
  <2> QED BY <2>1 DEF NoOp
<1>5. CASE Restore(t)
  BY <1>5 DEF Restore, TabOK, Locked
<1>6. CASE Begin(t)
  BY <1>6 DEF Begin, NoMemory, NoOp
<1>7. CASE Exchange(t)
  BY <1>7 DEF Exchange, TabOK, Holds, Memories, Finished, NoOp
<1>8. CASE Exchanged(t) \/ Renewed(t)
  BY <1>8 DEF Exchanged, Renewed, WriteUser, TabOK, Holds, Memories, Finished, NoOp
<1>9. CASE Renew(t)
  BY <1>9 DEF Renew
<1> QED
  BY <1>1, <1>2, <1>3, <1>4, <1>5, <1>6, <1>7, <1>8, <1>9, <1>10, <1>11 DEF TabNext

LEMMA OneClaimKept ==
    ASSUME IInv, NEW t \in Tabs, TabNext(t), UNCHANGED locks
    PROVE  OneClaim'
<1>1. \A u \in Tabs \ {t} : memory'[u] = memory[u] /\ op'[u] = op[u]
  BY AsideKept DEF Aside
<1>2. \A u \in Tabs \ {t} : Claims(u)' => Claims(u)
  BY <1>1 DEF Claims, Exchanging
<1>3. ~ locks => \A u \in Tabs : Claims(u) => memory[u].inst \in used
  BY DEF IInv, TabOK, Unlockable
<1>4. ASSUME ~ locks, NEW u \in Tabs \ {t}, Claims(t)', Claims(u)'
      PROVE  memory'[t].inst # memory'[u].inst
  <2>1. Claims(u) /\ memory'[u].inst = memory[u].inst /\ memory[u].inst \in used
    BY <1>1, <1>2, <1>3, <1>4
  <2>2. CASE Claims(t) /\ memory'[t].inst = memory[t].inst
    BY <2>1, <2>2, <1>4 DEF IInv, OneClaim
  <2>3. CASE memory'[t].inst \notin used
    BY <2>1, <2>3
  <2> QED BY <1>4, <2>2, <2>3, ClaimIsNew
<1>5. ASSUME ~ locks, NEW u \in Tabs \ {t}, NEW w \in Tabs \ {t}, u # w, Claims(u)', Claims(w)'
      PROVE  memory'[u].inst # memory'[w].inst
  BY <1>1, <1>2, <1>5 DEF IInv, OneClaim
<1> SUFFICES ASSUME ~ locks', NEW u \in Tabs, NEW w \in Tabs, u # w, Claims(u)', Claims(w)'
             PROVE  memory'[u].inst # memory'[w].inst
  BY DEF OneClaim
<1>6. CASE u = t
  BY <1>4, <1>6
<1>7. CASE w = t
  BY <1>4, <1>7
<1>8. CASE u # t /\ w # t
  BY <1>5, <1>8
<1> QED BY <1>6, <1>7, <1>8

LEMMA InitIInv == TabsInit => IInv
<1> SUFFICES ASSUME TabsInit PROVE IInv
  OBVIOUS
<1> USE NoneApart, Nothings, TabsAssumption DEF TabsInit
<1>1. TabsTypeOK
  BY DEF TabsTypeOK
<1>2. ASSUME NEW t \in Tabs PROVE TabOK(t) /\ ~ Claims(t)
  <2>1. memory[t] = NoMemory /\ op[t] = NoOp /\ ghost[t] = Nobody /\ at[t] # "page"
    OBVIOUS
  <2>2. memory[t].user = Nobody /\ memory[t].keeps = FALSE /\ op[t].kind = Nobody /\ op[t].phase = Nobody
    BY <2>1 DEF NoMemory, NoOp
  <2>3. storage[t].user = Nobody
    BY DEF NoDisk
  <2>4. Paged(t) /\ Locked(t)
    BY <2>1, <2>2 DEF Paged, Locked, Asking
  <2>5. Holds(t) /\ Unlockable(t) /\ ~ Claims(t)
    BY <2>2, <2>3 DEF Holds, Unlockable, Claims, Exchanging
  <2>6. Reached(t) /\ Newest(t)
    BY <2>2 DEF Reached, Newest
  <2> QED BY <2>4, <2>5, <2>6 DEF TabOK
<1>3. OneClaim
  BY <1>2 DEF OneClaim
<1> QED BY <1>1, <1>2, <1>3 DEF IInv

LEMMA StepIInv == IInv /\ [TabsNext]_tabsVars => IInv'
<1>1. ASSUME IInv, UNCHANGED tabsVars PROVE IInv'
  BY <1>1
  DEF IInv, tabsVars, TabsTypeOK, TabOK, OneClaim, Paged, Locked, Holds, Unlockable, Claims, Exchanging, Reached, Newest
<1>2. ASSUME IInv, NEW t \in Tabs, TabNext(t), UNCHANGED locks PROVE IInv'
  <2>1. TabsTypeOK'
    BY <1>2, TypesKept
  <2>2. TabOK(t)'
    BY <1>2, <2>1, TabKept
  <2>3. \A u \in Tabs \ {t} : TabOK(u)'
    BY <1>2, OthersKept
  <2>4. OneClaim'
    BY <1>2, OneClaimKept
  <2> QED BY <2>1, <2>2, <2>3, <2>4 DEF IInv
<1> QED BY <1>1, <1>2 DEF TabsNext

-----------------------------------------------------------------------------
LEMMA Inductive == TabsSpec => []IInv
<1>1. TabsInit => IInv
  BY InitIInv
<1>2. IInv /\ [TabsNext]_tabsVars => IInv'
  BY StepIInv
<1> QED BY <1>1, <1>2, PTL DEF TabsSpec

\* The types of AccountTabs are kept.
THEOREM TabsTyped == TabsSpec => []TabsTypeOK
<1>1. IInv => TabsTypeOK
  BY DEF IInv
<1> QED BY <1>1, Inductive, PTL

(***************************************************************************)
(* For any number of tabs, in browsers with Web Locks and without: no two  *)
(* hold the credentials of one sign-in.  With locks both would hold the    *)
(* lock of that instance; without, both would have exchanged one code.     *)
(***************************************************************************)
THEOREM OneFamilyOneTab == TabsSpec => []OneTabPerFamily
<1>1. IInv => OneTabPerFamily
  <2> SUFFICES ASSUME IInv, NEW t \in Tabs, NEW u \in Tabs, t # u, memory[t].user # Nobody, memory[u].user # Nobody
               PROVE  memory[t].user.fam # memory[u].user.fam
    BY DEF OneTabPerFamily
  <2>1. /\ memory[t].user.fam = memory[t].inst /\ memory[t].keeps = locks
        /\ memory[u].user.fam = memory[u].inst /\ memory[u].keeps = locks
    BY DEF IInv, TabOK, Holds
  <2>2. CASE locks
    <3>1. lock[memory[t].inst] = t /\ lock[memory[u].inst] = u
      BY <2>1, <2>2 DEF IInv, TabOK, Locked
    <3> QED BY <2>1, <3>1
  <2>3. CASE ~ locks
    BY <2>1, <2>3 DEF IInv, OneClaim, Claims
  <2> QED BY <2>2, <2>3
<1> QED BY <1>1, Inductive, PTL

(***************************************************************************)
(* For any number of tabs and logouts: what a tab holds after a logout was *)
(* got by a sign-in or a renewal begun since, or the notice of the logout  *)
(* is still on its way to it, whatever was under way.                      *)
(***************************************************************************)
THEOREM LogoutReachesEveryTab == TabsSpec => []LogoutReachesAll
<1>1. IInv => LogoutReachesAll
  BY DEF IInv, TabOK, Reached, LogoutReachesAll
<1> QED BY <1>1, Inductive, PTL

(***************************************************************************)
(* For any number of renewals: storage holds the newest token the tab got  *)
(* if the tab has the lock, and none if it has not.                        *)
(***************************************************************************)
THEOREM ReloadIsNewest == TabsSpec => []ReloadFindsNewest
<1>1. IInv => ReloadFindsNewest
  BY DEF IInv, TabOK, Newest, ReloadFindsNewest
<1> QED BY <1>1, Inductive, PTL
===============================================================================
