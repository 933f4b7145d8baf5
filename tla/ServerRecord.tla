----------------------------- MODULE ServerRecord -----------------------------
(***************************************************************************)
(* A versioned record of the workspace as a page sees it: the server's     *)
(* record, the copy in the page's query cache, an answer on its way to     *)
(* that cache, and the changes the page has sent.  A change names the      *)
(* version it was made from and is refused if that is not the server's.    *)
(***************************************************************************)
EXTENDS Integers, FiniteSets

CONSTANTS
    Fields,             \* fields of the record
    Values,             \* what each may hold
    Savers,             \* parts of the page that send changes
    Start,              \* what each field of a new record holds
    MaxVersion,         \* bound: versions of the record
    MaxUnderWay,        \* bound: requests under way at a time
    Nothing

VARIABLES
    server,             \* the record: version and fields
    cached,             \* the copy the page shows, or Nothing
    reading,            \* an answer read at the server and not yet arrived
    sent,               \* the change each saver has under way, and its answer
    left                \* changes whose page was left before their answer

recordVars == <<server, cached, reading, sent, left>>

Records == [ver : 1..MaxVersion, val : [Fields -> Values]]
Patches == UNION {[F -> Values] : F \in SUBSET Fields}
Flights == [by : Savers, ver : 1..MaxVersion, patch : Patches, answer : Records \cup {Nothing}, state : {"sent", "saved", "failed"}]

ASSUME RecordAssumption ==
    /\ MaxVersion \in Nat \ {0} /\ Start \in Values
    /\ Nothing \notin Records \cup Flights

Merged(patch, val) == [f \in Fields |-> IF f \in DOMAIN patch THEN patch[f] ELSE val[f]]

UnderWay == Cardinality({s \in Savers : sent[s] # Nothing}) + Cardinality(left) + (IF reading = Nothing THEN 0 ELSE 1)
Room == UnderWay < MaxUnderWay

RecordInit ==
    /\ server = [ver |-> 1, val |-> [f \in Fields |-> Start]]
    /\ cached = Nothing /\ reading = Nothing
    /\ sent = [s \in Savers |-> Nothing] /\ left = {}

\* Another tab, or another device, of the same person.
ElsewhereSaves(f, x) ==
    /\ server.ver < MaxVersion /\ x # server.val[f]
    /\ server' = [ver |-> server.ver + 1, val |-> [server.val EXCEPT ![f] = x]]
    /\ UNCHANGED <<cached, reading, sent, left>>

(***************************************************************************)
(* Reading.  What an answer says was true when the server read it; it may  *)
(* arrive after a change that this page has already been told of.          *)
(***************************************************************************)
Read == reading = Nothing /\ Room /\ reading' = server /\ UNCHANGED <<server, cached, sent, left>>

ReadFails == reading # Nothing /\ reading' = Nothing /\ UNCHANGED <<server, cached, sent, left>>

ReadArrives == reading # Nothing /\ cached' = reading /\ reading' = Nothing /\ UNCHANGED <<server, sent, left>>

(***************************************************************************)
(* Changing.                                                               *)
(***************************************************************************)
Pending(s) == sent[s] # Nothing

Send(s, ver, patch) ==
    /\ ~ Pending(s) /\ Room
    /\ sent' = [sent EXCEPT ![s] = [by |-> s, ver |-> ver, patch |-> patch, answer |-> Nothing, state |-> "sent"]]

\* A change to what is there already makes no version.
After(change) ==
    LET val == Merged(change.patch, server.val)
    IN  IF val = server.val THEN server ELSE [ver |-> server.ver + 1, val |-> val]

Answer(s, state, record) == sent' = [sent EXCEPT ![s].state = state, ![s].answer = record]

Commit(s) ==
    LET next == After(sent[s])
    IN  /\ Pending(s) /\ sent[s].state = "sent" /\ sent[s].ver = server.ver
        /\ next.ver <= MaxVersion
        /\ server' = next /\ Answer(s, "saved", next)
        /\ UNCHANGED <<cached, reading, left>>

\* A change whose page is gone is decided like any other; nobody hears.
CommitLeft ==
    \E change \in left :
        /\ change.ver = server.ver /\ After(change).ver <= MaxVersion
        /\ server' = After(change) /\ left' = left \ {change}
        /\ UNCHANGED <<cached, reading, sent>>

Refuse(s) ==
    /\ Pending(s) /\ sent[s].state = "sent" /\ sent[s].ver # server.ver
    /\ Answer(s, "failed", Nothing)
    /\ UNCHANGED <<server, cached, reading, left>>

\* Before the server acted, or after.
AnswerLost(s) ==
    /\ Pending(s) /\ sent[s].state \in {"sent", "saved"}
    /\ Answer(s, "failed", Nothing)
    /\ UNCHANGED <<server, cached, reading, left>>

Saved(s) == Pending(s) /\ sent[s].state = "saved"
NotSaved(s) == Pending(s) /\ sent[s].state = "failed"
Answered(s) == sent' = [sent EXCEPT ![s] = Nothing]

\* The page is loaded anew: what it had not heard of, it never will.
Abandoned ==
    /\ cached' = Nothing /\ reading' = Nothing
    /\ sent' = [s \in Savers |-> Nothing]
    /\ left' = left \cup {sent[s] : s \in {p \in Savers : Pending(p) /\ sent[p].state = "sent"}}

ServerNext ==
    \/ \E f \in Fields, x \in Values : ElsewhereSaves(f, x)
    \/ Read \/ ReadFails
    \/ \E s \in Savers : Commit(s) \/ Refuse(s) \/ AnswerLost(s)
    \/ CommitLeft

RecordTypeOK ==
    /\ server \in Records
    /\ cached \in Records \cup {Nothing} /\ reading \in Records \cup {Nothing}
    /\ sent \in [Savers -> Flights \cup {Nothing}]
    /\ left \subseteq Flights
===============================================================================
