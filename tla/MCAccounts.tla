------------------------------ MODULE MCAccounts ------------------------------
(***************************************************************************)
(* Accounts in a browser, seen from two sides: one tab in every detail,    *)
(* with the other tabs reduced to their logout, and several tabs with what *)
(* they share, each reduced to its credentials.  A behaviour is about one  *)
(* of the two; nothing passes between them.                                *)
(***************************************************************************)
EXTENDS WorkspaceSession, AccountTabs, TLC

VARIABLE side

MCInit ==
    /\ side \in {"one tab", "many tabs"} /\ Init /\ TabsInit
    /\ side = "one tab" => locks

MCNext ==
    \/ side = "one tab" /\ Next /\ UNCHANGED <<side, tabsVars>>
    \/ side = "many tabs" /\ TabsNext /\ UNCHANGED <<side, tabVars>>

MCSpec == MCInit /\ [][MCNext]_<<side, tabVars, tabsVars>>

TabSymmetry == Permutations(Tabs)
===============================================================================
