-------------------------- MODULE PreparationDrawer --------------------------
(***************************************************************************)
(* The drawer in which one interview at a time is prepared before it and   *)
(* reflected on after it.  It works from the copy of the interview that it *)
(* was opened with, and from the answers to its own changes; the role the  *)
(* preparation focuses on belongs to the application, and changing it      *)
(* makes a new version of every interview.                                 *)
(***************************************************************************)
EXTENDS Integers, FiniteSets

CONSTANTS
    Rounds,             \* interviews of the application
    Past,               \* those that have taken place
    Texts,              \* what a note or a reflection may say: 0 is empty
    LastVersion,        \* bound: versions of an interview
    MaxCalls,           \* bound: calls under way, of this drawer or earlier ones
    Closed

VARIABLES
    round,              \* the server's interviews
    known,              \* the list's copies of them
    drawer,             \* the open drawer, or Closed
    call,               \* what the open drawer waits for, or Closed
    late                \* calls of drawers that were closed meanwhile

drawerVars == <<round, known, drawer, call, late>>

Roles == {"GENERAL", "CHOSEN"}
Items == {"examples", "topics", "custom"}

Interviews ==
    [ver : 1..LastVersion, role : Roles, custom : BOOLEAN, done : SUBSET Items, text : Texts, reflected : BOOLEAN]
Drafts == [done : SUBSET Items, text : Texts]
Drawers ==
    [of : Rounds, current : Interviews, mode : {"PREPARE", "CAPTURE", "REVIEW", "EDIT", "HANDOFF"},
     draft : Drafts, saved : Drafts]
Calls ==
    [kind : {"save", "reflect", "add", "remove", "role"}, of : Rounds, ver : 1..LastVersion, arg : Drafts,
     then : {"close", "review", "handoff", "stay"}, state : {"sent", "done", "conflict", "unknown", "unfounded", "lost"},
     answer : Interviews]

ASSUME DrawerAssumption ==
    /\ LastVersion \in Nat \ {0} /\ 0 \in Texts
    /\ Closed \notin Drawers \cup Calls

\* The checklist: a step that every interview has, a role's topics, and the
\* item the candidate added.  `examples' stands for the two steps that need
\* something written: prepare_examples, and prepare_questions.
Allowed(rec) ==
    {"examples"} \cup (IF rec.role = "GENERAL" THEN {} ELSE {"topics"})
                 \cup (IF rec.custom THEN {"custom"} ELSE {})

\* What is written before an interview: its notes, its questions.
Founded(arg) == "examples" \in arg.done => arg.text # 0

DraftFrom(rec) == [done |-> rec.done \cap Allowed(rec), text |-> rec.text]

ModeFor(r, rec) ==
    IF r \notin Past THEN "PREPARE" ELSE IF rec.reflected THEN "REVIEW" ELSE "CAPTURE"

Fresh == [ver |-> 1, role |-> "GENERAL", custom |-> FALSE, done |-> {}, text |-> 0, reflected |-> FALSE]

DrawerInit ==
    /\ round = [r \in Rounds |-> Fresh] /\ known = round
    /\ drawer = Closed /\ call = Closed /\ late = {}

-----------------------------------------------------------------------------
(***************************************************************************)
(* The drawer.                                                             *)
(***************************************************************************)
Refetch ==
    /\ known # round
    /\ known' = round
    /\ UNCHANGED <<round, drawer, call, late>>

Open(r) ==
    /\ drawer = Closed
    /\ drawer' = [of |-> r, current |-> known[r], mode |-> ModeFor(r, known[r]),
                  draft |-> DraftFrom(known[r]), saved |-> DraftFrom(known[r])]
    /\ UNCHANGED <<round, known, call, late>>

IsOpen == drawer # Closed
Dirty == IsOpen /\ drawer.mode \notin {"REVIEW", "HANDOFF"} /\ drawer.draft # drawer.saved
Idle == IsOpen /\ call = Closed /\ Cardinality(late) < MaxCalls
Preparing == IsOpen /\ drawer.mode = "PREPARE"

\* Ticking and writing go on while a change is under way.
Toggle(item) ==
    /\ Preparing /\ item \in Allowed(drawer.current)
    /\ drawer' = [drawer EXCEPT !.draft.done = IF item \in @ THEN @ \ {item} ELSE @ \cup {item}]
    /\ UNCHANGED <<round, known, call, late>>

Write(text) ==
    /\ text # drawer.draft.text
    /\ drawer' = [drawer EXCEPT !.draft.text = text]
    /\ UNCHANGED <<round, known, call, late>>

\* Notes and questions to ask before the interview, answers to it after.
WriteNotes(text) == Preparing /\ Write(text)
WriteReflection(text) == IsOpen /\ drawer.mode \in {"CAPTURE", "EDIT"} /\ Write(text)

EditReflection ==
    /\ IsOpen /\ drawer.mode = "REVIEW"
    /\ drawer' = [drawer EXCEPT !.mode = "EDIT"]
    /\ UNCHANGED <<round, known, call, late>>

CancelReflectionEdit ==
    /\ IsOpen /\ drawer.mode = "EDIT"
    /\ drawer' = [drawer EXCEPT !.mode = "REVIEW", !.draft = DraftFrom(drawer.current)]
    /\ UNCHANGED <<round, known, call, late>>

Shut(waiting) ==
    /\ drawer' = Closed /\ call' = Closed
    /\ late' = late \cup waiting
    /\ UNCHANGED <<round, known>>

Waiting == IF call = Closed THEN {} ELSE {call}

Close == IsOpen /\ ~ Dirty /\ Shut(Waiting)

\* "Discard unsaved changes?"
Discard == Dirty /\ Shut(Waiting)

\* The next step after a reflection: planned, or left unclear.
HandedOff == IsOpen /\ drawer.mode = "HANDOFF" /\ Shut(Waiting)

-----------------------------------------------------------------------------
(***************************************************************************)
(* Its changes: one at a time, each from the version it holds.             *)
(***************************************************************************)
Call(kind, then, arg) ==
    /\ Idle
    /\ call' = [kind |-> kind, of |-> drawer.of, ver |-> drawer.current.ver, arg |-> arg,
                then |-> then, state |-> "sent", answer |-> Fresh]
    /\ UNCHANGED <<round, known, drawer, late>>

\* What happens to the drawer when the answer comes is fixed when it is sent.
Save ==
    /\ IsOpen
    /\ \/ drawer.mode \in {"PREPARE", "CAPTURE"} /\ Call("save", "close", drawer.draft)
       \/ /\ drawer.mode \in {"CAPTURE", "EDIT"} /\ drawer.draft.text # 0
          /\ Call("reflect", IF drawer.mode = "EDIT" THEN "review" ELSE "handoff", drawer.draft)

AddCustomItem == Preparing /\ ~ drawer.current.custom /\ Call("add", "stay", DraftFrom(Fresh))
RemoveCustomItem == Preparing /\ drawer.current.custom /\ Call("remove", "stay", DraftFrom(Fresh))

\* The application's version is current: its copy is replaced by each answer.
ApplyRoleFocus == Preparing /\ Call("role", "stay", DraftFrom(Fresh))

SaveHeard ==
    /\ call # Closed /\ call.state = "done" /\ call.kind \in {"save", "reflect"}
    /\ call' = Closed
    /\ drawer' =
        CASE call.then = "close" -> Closed
          [] call.then = "handoff" -> [drawer EXCEPT !.saved = DraftFrom(call.answer), !.current = call.answer,
                                             !.draft = DraftFrom(call.answer), !.mode = "HANDOFF"]
          [] OTHER -> [drawer EXCEPT !.saved = DraftFrom(call.answer), !.current = call.answer,
                             !.draft = DraftFrom(call.answer), !.mode = "REVIEW"]
    /\ UNCHANGED <<round, known, late>>

Without_DraftKept(draft, item) == draft

Without(draft, item) == [draft EXCEPT !.done = @ \ {item}]

ItemHeard ==
    /\ call # Closed /\ call.state = "done" /\ call.kind \in {"add", "remove"}
    /\ call' = Closed
    /\ drawer' = IF call.kind = "add" THEN [drawer EXCEPT !.current = call.answer]
                 ELSE [drawer EXCEPT !.current = call.answer, !.draft = Without(@, "custom"),
                                     !.saved = Without(@, "custom")]
    /\ UNCHANGED <<round, known, late>>

\* The list is read again; the drawer keeps the interview it was opened with.
RoleHeard ==
    /\ call # Closed /\ call.state = "done" /\ call.kind = "role"
    /\ call' = Closed
    /\ UNCHANGED <<round, known, drawer, late>>

Refused ==
    /\ call # Closed /\ call.state \in {"conflict", "unknown", "unfounded", "lost"}
    /\ call' = Closed
    /\ UNCHANGED <<round, known, drawer, late>>

\* The answer to a drawer that is gone still closes the one that is open.
LateHeard ==
    \E c \in late :
        /\ c.state # "sent"
        /\ late' = late \ {c}
        /\ IF c.state = "done" /\ c.then = "close"
           THEN drawer' = Closed /\ call' = Closed
           ELSE UNCHANGED <<drawer, call>>
        /\ UNCHANGED <<round, known>>

-----------------------------------------------------------------------------
(***************************************************************************)
(* The server.                                                             *)
(***************************************************************************)
Changed(rec, c) ==
    CASE c.kind = "save" -> [rec EXCEPT !.done = c.arg.done, !.text = c.arg.text]
      [] c.kind = "reflect" -> [rec EXCEPT !.done = c.arg.done, !.text = c.arg.text, !.reflected = TRUE]
      [] c.kind = "add" -> [rec EXCEPT !.custom = TRUE]
      [] c.kind = "remove" -> [rec EXCEPT !.custom = FALSE, !.done = @ \ {"custom"}]

\* A save of what is there already makes no version.
Next1(rec, c) ==
    LET new == Changed(rec, c) IN IF new = rec THEN rec ELSE [new EXCEPT !.ver = rec.ver + 1]

OtherRole(rec) == IF rec.role = "GENERAL" THEN "CHOSEN" ELSE "GENERAL"

RoleEverywhere ==
    /\ \A r \in Rounds : round[r].ver < LastVersion
    /\ round' = [r \in Rounds |-> [round[r] EXCEPT !.role = OtherRole(round[r]), !.ver = @ + 1]]

Saving(c) == c.kind \in {"save", "reflect"}
Verdict(c) ==
    IF c.kind # "role" /\ c.ver # round[c.of].ver THEN "conflict"
    ELSE IF Saving(c) /\ ~ c.arg.done \subseteq Allowed(round[c.of]) THEN "unknown"
    ELSE IF Saving(c) /\ ~ Founded(c.arg) THEN "unfounded"
    ELSE "done"

Decided(c) == [c EXCEPT !.state = Verdict(c), !.answer = round'[c.of]]

Decide(c) ==
    /\ c.state = "sent"
    /\ IF Verdict(c) # "done" THEN UNCHANGED round
       ELSE IF c.kind = "role" THEN RoleEverywhere
       ELSE Next1(round[c.of], c).ver <= LastVersion /\ round' = [round EXCEPT ![c.of] = Next1(@, c)]

DecideOpen ==
    /\ call # Closed /\ Decide(call) /\ call' = Decided(call)
    /\ UNCHANGED <<known, drawer, late>>

DecideLate ==
    \E c \in late :
        /\ Decide(c) /\ late' = (late \ {c}) \cup {Decided(c)}
        /\ UNCHANGED <<known, drawer, call>>

CallLost ==
    /\ call # Closed /\ call.state \in {"sent", "done"}
    /\ call' = [call EXCEPT !.state = "lost"]
    /\ UNCHANGED <<round, known, drawer, late>>

\* Another tab of the same person.
ChangedElsewhere ==
    /\ \/ RoleEverywhere
       \/ \E r \in Rounds, kind \in {"add", "remove"} :
            /\ round[r].ver < LastVersion /\ (kind = "add") = ~ round[r].custom /\ r \notin Past
            /\ round' = [round EXCEPT ![r] = [Changed(@, [kind |-> kind]) EXCEPT !.ver = round[r].ver + 1]]
    /\ UNCHANGED <<known, drawer, call, late>>

DrawerNext ==
    \/ Refetch
    \/ \E r \in Rounds : Open(r)
    \/ \E item \in Items : Toggle(item)
    \/ \E text \in Texts : WriteNotes(text) \/ WriteReflection(text)
    \/ EditReflection \/ CancelReflectionEdit
    \/ Close \/ Discard \/ HandedOff
    \/ Save \/ AddCustomItem \/ RemoveCustomItem \/ ApplyRoleFocus
    \/ SaveHeard \/ ItemHeard \/ RoleHeard \/ Refused \/ LateHeard
    \/ DecideOpen \/ DecideLate \/ CallLost \/ ChangedElsewhere

DrawerSpec == DrawerInit /\ [][DrawerNext]_drawerVars

-----------------------------------------------------------------------------
DrawerTypeOK ==
    /\ round \in [Rounds -> Interviews] /\ known \in [Rounds -> Interviews]
    /\ drawer \in Drawers \cup {Closed} /\ call \in Calls \cup {Closed}
    /\ late \subseteq Calls
    /\ ~ IsOpen => call = Closed

(***************************************************************************)
(* No save is refused because it names an item the server does not know,   *)
(* whatever was added, removed or refocused here or elsewhere since the    *)
(* drawer opened.  It may be told of a conflict, and of a step ticked with *)
(* nothing written for it, which the drawer offers.                        *)
(***************************************************************************)
SavesKnownItems == \A c \in late \cup Waiting : c.state # "unknown"
===============================================================================
