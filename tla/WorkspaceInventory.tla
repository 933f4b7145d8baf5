-------------------------- MODULE WorkspaceInventory --------------------------
(***************************************************************************)
(* The two readers of the application inventory: the full JSON export of   *)
(* an account, and the local operator's backfill that adopts applications  *)
(* older than the manifest.  Both read the references, compare them with   *)
(* the lifetime quota and go through the application partitions, while     *)
(* product requests and erasure keep running.                              *)
(***************************************************************************)
EXTENDS WorkspaceStore

CONSTANTS
    Exporters,      \* concurrent export requests
    Operators       \* concurrent runs of the backfill command

VARIABLES
    xpc,            \* where each export is
    xlist,          \* the references it has listed
    xcursor,        \* the last one listed, then read; -1 before the first
    xtodo,          \* listed applications it has not read yet
    xgot,           \* the records it has read of each application
    xall            \* observation: the applications when it compared the quota

exportVars == <<xpc, xlist, xcursor, xtodo, xgot, xall>>

VARIABLES
    fpc,            \* where each backfill is
    fcount,         \* the quota it read
    ffound          \* the applications the status index answered with

fillVars == <<fpc, fcount, ffound>>

InventoryTypeOK ==
    /\ xpc \in [Exporters -> {"idle", "list", "check", "read", "page", "recheck", "done"}]
    /\ xlist \in [Exporters -> SUBSET Apps]
    /\ xcursor \in [Exporters -> Apps \cup {-1}]
    /\ xtodo \in [Exporters -> SUBSET Apps]
    /\ xgot \in [Exporters -> [Apps -> SUBSET Items]]
    /\ xall \in [Exporters -> SUBSET Apps]
    /\ fpc \in [Operators -> {"idle", "count", "discover", "adopt", "verify", "mark"}]
    /\ fcount \in [Operators -> Nat]
    /\ ffound \in [Operators -> SUBSET Apps]

InventoryInit ==
    /\ xpc = [x \in Exporters |-> "idle"]
    /\ xlist = [x \in Exporters |-> {}]
    /\ xcursor = [x \in Exporters |-> -1]
    /\ xtodo = [x \in Exporters |-> {}]
    /\ xgot = [x \in Exporters |-> [a \in Apps |-> {}]]
    /\ xall = [x \in Exporters |-> {}]
    /\ fpc = [f \in Operators |-> "idle"]
    /\ fcount = [f \in Operators |-> 0]
    /\ ffound = [f \in Operators |-> {}]

XGo(x, from, to) == xpc[x] = from /\ xpc' = [xpc EXCEPT ![x] = to]

\* An export that ends leaves nothing behind.
XReturn(x) ==
    /\ xpc' = [xpc EXCEPT ![x] = "idle"]
    /\ xlist' = [xlist EXCEPT ![x] = {}]
    /\ xcursor' = [xcursor EXCEPT ![x] = -1]
    /\ xtodo' = [xtodo EXCEPT ![x] = {}]
    /\ xgot' = [xgot EXCEPT ![x] = [a \in Apps |-> {}]]
    /\ xall' = [xall EXCEPT ![x] = {}]

(***************************************************************************)
(* Export.  Every page of references is one step; a page holds one         *)
(* reference here, which lets other requests in between any two of them.   *)
(***************************************************************************)
ExportStart(x) ==
    /\ Ready /\ manifest
    /\ XGo(x, "idle", "list")
    /\ UNCHANGED <<xlist, xcursor, xtodo, xgot, xall, storeVars>>

Ahead(x) == {a \in refs : a > xcursor[x]}

ExportListRef(x) ==
    /\ XGo(x, "list", "list")
    /\ \E a \in First(Ahead(x)) :
          /\ xlist' = [xlist EXCEPT ![x] = @ \cup {a}]
          /\ xcursor' = [xcursor EXCEPT ![x] = a]
    /\ UNCHANGED <<xtodo, xgot, xall, storeVars>>

ExportListEnd(x) ==
    /\ Ahead(x) = {}
    /\ XGo(x, "list", "check")
    /\ UNCHANGED <<xlist, xcursor, xtodo, xgot, xall, storeVars>>

\* The list must hold as many references as the lifetime quota counts.
ExportCheck(x) ==
    /\ Cardinality(xlist[x]) = quota
    /\ XGo(x, "check", "read")
    /\ xtodo' = [xtodo EXCEPT ![x] = xlist[x]]
    /\ xall' = [xall EXCEPT ![x] = Applications]
    /\ UNCHANGED <<xlist, xcursor, xgot, storeVars>>

\* One application: its METADATA must be there, and then a query collects
\* its records, which are one page here.
ExportGet(x) ==
    /\ XGo(x, "read", "page")
    /\ \E a \in First(xtodo[x]) :
          /\ "METADATA" \in items[a]
          /\ xcursor' = [xcursor EXCEPT ![x] = a]
          /\ xtodo' = [xtodo EXCEPT ![x] = @ \ {a}]
    /\ UNCHANGED <<xlist, xgot, xall, storeVars>>

ExportPage(x) ==
    /\ XGo(x, "page", "read")
    /\ xgot' = [xgot EXCEPT ![x][xcursor[x]] = items[xcursor[x]]]
    /\ UNCHANGED <<xlist, xcursor, xtodo, xall, storeVars>>

ExportReadEnd(x) ==
    /\ xtodo[x] = {}
    /\ XGo(x, "read", "recheck")
    /\ UNCHANGED <<xlist, xcursor, xtodo, xgot, xall, storeVars>>

\* The lifecycle is read again before the export is delivered.
ExportDeliver_NoRecheck(x) ==
    /\ XGo(x, "recheck", "done")
    /\ UNCHANGED <<xlist, xcursor, xtodo, xgot, xall, storeVars>>

ExportDeliver(x) ==
    /\ state \in {"ABSENT", "ACTIVE"}
    /\ XGo(x, "recheck", "done")
    /\ UNCHANGED <<xlist, xcursor, xtodo, xgot, xall, storeVars>>

\* A count that differs from the quota, an application without METADATA, a
\* lifecycle that is no longer active, an error, a limit, or the end.
ExportEnd(x) ==
    /\ xpc[x] # "idle"
    /\ XReturn(x)
    /\ UNCHANGED storeVars

ExportNext == \E x \in Exporters :
    \/ ExportStart(x)
    \/ ExportListRef(x) \/ ExportListEnd(x) \/ ExportCheck(x)
    \/ ExportGet(x) \/ ExportPage(x) \/ ExportReadEnd(x)
    \/ ExportDeliver(x) \/ ExportEnd(x)

(***************************************************************************)
(* Backfill.                                                               *)
(***************************************************************************)
FGo(f, from, to) == fpc[f] = from /\ fpc' = [fpc EXCEPT ![f] = to]

FReturn(f) ==
    /\ fpc' = [fpc EXCEPT ![f] = "idle"]
    /\ fcount' = [fcount EXCEPT ![f] = 0]
    /\ ffound' = [ffound EXCEPT ![f] = {}]

FillStart(f) ==
    /\ Kind = "LOCAL" /\ state = "ACTIVE"
    /\ FGo(f, "idle", "count")
    /\ UNCHANGED <<fcount, ffound, storeVars>>

FillCount(f) ==
    /\ FGo(f, "count", "discover")
    /\ fcount' = [fcount EXCEPT ![f] = quota]
    /\ UNCHANGED <<ffound, storeVars>>

\* The status index may lag behind the table: it answers with some of the
\* applications.  Their number must be the quota's, and no reference may
\* lie outside them.
FillDiscover(f) ==
    /\ \E found \in SUBSET Applications :
          /\ Cardinality(found) = fcount[f] /\ refs \subseteq found
          /\ ffound' = [ffound EXCEPT ![f] = found]
          /\ FGo(f, "discover", "adopt")
    /\ UNCHANGED <<fcount, storeVars>>

\* One discovered application whose canonical record is there gets its
\* reference, by a transaction that carries the ACTIVE check.
FillAdopt(f) ==
    /\ fpc[f] = "adopt"
    /\ ActiveGuard
    /\ \E a \in ffound[f] \ refs :
          /\ "METADATA" \in items[a]
          /\ refs' = refs \cup {a}
    /\ UNCHANGED <<state, manifest, profile, settings, quota, items, fillVars>>

FillAdopted(f) ==
    /\ ffound[f] \subseteq refs /\ ffound[f] \subseteq Applications
    /\ FGo(f, "adopt", "verify")
    /\ UNCHANGED <<fcount, ffound, storeVars>>

\* The references are read again: they must be exactly what was found.
FillVerify(f) ==
    /\ refs = ffound[f]
    /\ FGo(f, "verify", "mark")
    /\ UNCHANGED <<fcount, ffound, storeVars>>

\* One transaction: the quota is still what it was, ACTIVE, and the marker.
FillMark_AnyQuota(f) ==
    /\ fpc[f] = "mark" /\ ActiveGuard
    /\ FReturn(f)
    /\ manifest' = TRUE
    /\ UNCHANGED <<state, profile, settings, quota, refs, items>>

FillMark(f) ==
    /\ fpc[f] = "mark" /\ ActiveGuard
    /\ quota = fcount[f]
    /\ FReturn(f)
    /\ manifest' = TRUE
    /\ UNCHANGED <<state, profile, settings, quota, refs, items>>

\* A comparison or a condition that fails, an error, or the operator.
FillAbandon(f) ==
    /\ fpc[f] # "idle"
    /\ FReturn(f)
    /\ UNCHANGED storeVars

FillStep(f) ==
    \/ FillStart(f) \/ FillCount(f) \/ FillDiscover(f)
    \/ FillAdopt(f) \/ FillAdopted(f)
    \/ FillVerify(f) \/ FillMark(f) \/ FillAbandon(f)
===============================================================================
