------------------------------ MODULE Resolution -----------------------------
(***************************************************************************)
(* The viewers of one entry settle its plan: the choice widgets of the     *)
(* detail view, the preflight each choice runs, and the confirmation that  *)
(* revalidates it.  The entry's owner and an admin may take turns; there   *)
(* is one screen, and whoever opens the entry next has it.                 *)
(*                                                                         *)
(* Between any two steps the workspace at Clockify may change and the      *)
(* entry may pass 24 hours.  A widget appears because an item of the plan  *)
(* named its rule and stays once it has appeared; it offers what the       *)
(* workspace held when the plan was made, or holds now.  A choice and the  *)
(* preflight it runs are one step: that late and failed answers are        *)
(* dropped is UiSession's subject, as the claim, the create and what       *)
(* follows are Recreation's.                                               *)
(***************************************************************************)
EXTENDS Preflight

CONSTANTS
  Slices,        \* the instances: [source, roles, spaces, old]
  MaxChanges,    \* bound on the changes of a workspace
  Ends,          \* end times a viewer may type
  Descriptions,  \* descriptions a viewer may type
  Texts          \* what a viewer may type into a text or number field

\* A running entry has no end (ingest/deleted-entry.ts:87), and one that ended did so after its
\* start, as Clockify held it.  `values` has every field the workspaces know, None if not set.
ASSUME SlicesAssumption ==
  \A s \in Slices :
    /\ s.source.running = (s.source.end = None)
    /\ s.source.end # None => s.source.end > 0
    /\ s.roles \subseteq BOOLEAN /\ s.old \in BOOLEAN
    /\ \A w \in s.spaces :
         /\ w.forceProjects \in BOOLEAN /\ w.forceTasks \in BOOLEAN
         /\ {None, Unset} \cap w.projects = {}
         /\ \A r \in w.tasks : r = <<r[1], r[2]>> /\ r[2] \notin {None, Unset}
         /\ \A f \in DOMAIN w.fields :
              f \in DOMAIN s.source.values /\ w.fields[f].default # Unset
\* A viewer can type a later end, a description, a text and a number.
ASSUME TypedAssumption ==
  /\ Unset \notin {"running", "completed"}
  /\ Unset \notin Ends /\ \E e \in Ends : e > 0
  /\ Unset \notin Descriptions /\ \E d \in Descriptions : d # ""
  /\ Texts \cap Numerals # {}
ASSUME MaxChangesAssumption == MaxChanges \in Nat

VARIABLES
  slice,     \* the entry, the roles of its viewers and how its workspace may change
  ws,        \* the workspace now
  changes,   \* how often it has changed
  old,       \* the entry started 24 hours ago or longer
  admin,     \* the viewer who has the screen is an admin
  choices,   \* the component's MutableChoices
  known,     \* knownActionRequired: the items whose widgets are mounted
  plan,      \* the ACTIVE plan of the entry, or None
  screen,    \* "list"; "detail", with the widgets; "failed", without, as the first check was
             \* refused; "confirm"; or "stale", as the confirmation was answered
  sent       \* the confirmed plan with its revalidation, or None

vars == <<slice, ws, changes, old, admin, choices, known, plan, screen, sent>>

Question(c, w, a, o) ==
  [source |-> slice.source, admin |-> a, ws |-> w, choices |-> c, old |-> o]

NoChoices ==
  [project |-> Unset, task |-> Unset, dropTags |-> {}, addTags |-> {}, description |-> Unset,
   mode |-> Unset, end |-> Unset,
   inputs |-> [f \in DOMAIN slice.source.values |-> Unset], dropFields |-> {}]

\* A plan is what runPreflight said of the workspace it read.
PlanQuestion(p) == Question(p.choices, p.ws, p.admin, p.old)
Outcome(p)      == RunPreflight(PlanQuestion(p))

\* Wrong: the items of an earlier plan are not kept.
OnlyFirstItems(first, second) == first

\* Every item of one list, then those of the other whose rule and reference it lacks.
SameItem(i, j)  == i.rule = j.rule /\ i.ref = j.ref
MergeItems(first, second) == first \cup {i \in second : \A j \in first : ~SameItem(i, j)}

\* parsePreflightChoices: what the server accepts in a request.
ParsesChoices(c) ==
  /\ c.end # Unset => c.mode = "completed"
  /\ \A f \in DOMAIN c.inputs : c.inputs[f] # None /\ (c.inputs[f] # Unset => f \notin c.dropFields)

\* A project is public, or the viewer is a member of it, or an admin.
Accessible(w, a) == IF a THEN w.projects ELSE w.projects \ w.privateProjects

\* handlePreflight goes on: the choices parse, and a chosen project is the viewer's to use.
Admitted(c, w, a) ==
  ParsesChoices(c) /\ (c.project \in {Unset, None} \/ a \/ c.project \in Accessible(w, a))

---------------------------------------------------------------------------
(* The widgets: the choices one use of each leads to. *)

Shown(k, rule) == {i \in k : i.rule = rule}

\* renderRunningWidget
TimerControls(c, k, w) ==
  IF ~slice.source.running THEN {} ELSE
    {[c EXCEPT !.mode = "running", !.end = Unset], [c EXCEPT !.mode = "completed"]}
    \cup {[c EXCEPT !.end = e] : e \in IF c.mode = "completed" THEN Ends ELSE {}}

\* renderProjectWidget: the first P-PROJ-GONE decides, then P-PROJ-REQ; the task choice goes.
ProjectControls(c, k, w) ==
  LET offered == IF Shown(k, "P-PROJ-GONE") # {} THEN Shown(k, "P-PROJ-GONE")
                 ELSE Shown(k, "P-PROJ-REQ")
      none    == IF \E i \in offered : i.removable THEN {None} ELSE {}
      targets == IF offered = {} THEN {} ELSE Accessible(w, admin) \cup none
  IN  {[c EXCEPT !.project = p, !.task = Unset] : p \in targets}

\* effectiveProjectId: the project the plan's resolution names last.
PlanProject ==
  LET q == PlanQuestion(plan) IN IF ProjectFound(q) THEN EffectiveProject(q) ELSE None

\* renderTaskWidget: nothing is rendered without a project.
TaskControls(c, k, w) ==
  LET items   == IF PlanProject = None THEN {} ELSE Shown(k, "P-TASK-GONE")
      offered == IF PlanProject \in Accessible(w, admin)
                 THEN {r[2] : r \in {pair \in w.tasks : pair[1] = PlanProject}} ELSE {}
      targets == offered \cup (IF \E i \in items : i.removable THEN {None} ELSE {})
  IN  IF items = {} THEN {} ELSE {[c EXCEPT !.task = t] : t \in targets}

\* renderTagsWidget
TagControls(c, k, w) ==
  LET removable == Shown(k, "P-TAG-GONE") \cup Shown(k, "P-TAG-ARCH")
      Toggle(t) == IF t \in c.dropTags THEN c.dropTags \ {t} ELSE c.dropTags \cup {t}
  IN  {IF i.removable THEN [c EXCEPT !.dropTags = Toggle(i.ref)]
       ELSE [c EXCEPT !.addTags = @ \ {i.ref}] : i \in removable}
      \cup {[c EXCEPT !.addTags = ts] :
              ts \in IF removable \cup Shown(k, "P-TAG-REQ") = {} THEN {} ELSE SUBSET w.tags}

\* renderDescriptionWidget
DescriptionControls(c, k, w) ==
  {[c EXCEPT !.description = d] : d \in IF Shown(k, "P-DESC") = {} THEN {} ELSE Descriptions}

\* Wrong: entering a value leaves the field dropped.
SetInputOnly(c, f, v) == [c EXCEPT !.inputs[f] = v]

SetInput(c, f, v) == [c EXCEPT !.inputs[f] = v, !.dropFields = @ \ {f}]

DropValue(c, f) == [c EXCEPT !.inputs[f] = Unset, !.dropFields = @ \cup {f}]

Options(d) == IF d.allowed = None THEN {} ELSE d.allowed

\* The values the control of field definition d can produce.
Enterable(d) ==
  CASE d.type = "CHECKBOX"          -> {Value("boolean", {b}) : b \in {"true", "false"}}
    [] d.type = "DROPDOWN_SINGLE"   -> {Value("string", {a}) : a \in Options(d)}
    [] d.type = "DROPDOWN_MULTIPLE" -> {Value("array", as) : as \in SUBSET Options(d)}
    [] OTHER                        -> {Value("string", {t}) : t \in Texts}

\* renderCustomFieldItem: keeping and dropping need no field settings, entering does.
FieldControls(c, k, w) ==
  LET Entries(f)  == IF f \in DOMAIN w.fields THEN Enterable(w.fields[f]) ELSE {}
      Replace(f)  == {SetInput(c, f, v) : v \in Entries(f)}
      Optional(f) == {SetInput(c, f, slice.source.values[f]), DropValue(c, f)}
  IN  (UNION {Replace(i.ref) \cup Optional(i.ref) : i \in Shown(k, "P-CF-OPT")})
      \cup (UNION {Replace(i.ref) : i \in Shown(k, "P-CF-REQ")})

\* renderResolutionWidgets is reached only with some item known.
Controls(c, k, w) ==
  IF k = {} THEN {} ELSE
    TimerControls(c, k, w) \cup ProjectControls(c, k, w) \cup TaskControls(c, k, w)
    \cup TagControls(c, k, w) \cup DescriptionControls(c, k, w) \cup FieldControls(c, k, w)

---------------------------------------------------------------------------
(* Types, for each slice: what choices and plans can be made of. *)

Projects(s) == UNION {w.projects : w \in s.spaces}
Tasks(s)    == {r[2] : r \in UNION {w.tasks : w \in s.spaces}}
Tags(s)     == s.source.tags \cup UNION {w.tags : w \in s.spaces}
Fields(s)   == DOMAIN s.source.values
Inputs(s)   ==
  {s.source.values[f] : f \in Fields(s)}
  \cup UNION {UNION {Enterable(w.fields[f]) : f \in DOMAIN w.fields} : w \in s.spaces}

TagRules   == {"P-TAG-GONE", "P-TAG-ARCH"}
FieldRules == {"P-CF-REQ", "P-CF-OPT"}
OtherRules == {"P-RUN", "P-RUN-END", "P-PROJ-REQ", "P-PROJ-GONE", "P-TASK-GONE", "P-TAG-REQ",
               "P-DESC"}

Items(s) ==
  [rule : OtherRules, ref : {None}, removable : BOOLEAN]
  \cup [rule : TagRules, ref : Tags(s), removable : BOOLEAN]
  \cup [rule : FieldRules, ref : Fields(s), removable : BOOLEAN]

Choice(s) ==
  [project : Projects(s) \cup {None, Unset}, task : Tasks(s) \cup {None, Unset},
   dropTags : SUBSET Tags(s), addTags : SUBSET Tags(s), description : Descriptions \cup {Unset},
   mode : {"running", "completed", Unset}, end : Ends \cup {Unset},
   inputs : [Fields(s) -> Inputs(s) \cup {Unset}], dropFields : SUBSET Fields(s)]

Plan(s) ==
  [choices : Choice(s), ws : s.spaces, admin : BOOLEAN, old : BOOLEAN, editable : SUBSET Items(s)]

\* null is no plan, no rule, and no value a control can produce; nor is undefined.
ASSUME NoneAssumption ==
  /\ None \notin FieldRules
  /\ \A s \in Slices : None \notin Plan(s)
  /\ \A s \in Slices :
       \A w \in s.spaces : \A f \in DOMAIN w.fields :
         {None, Unset} \cap Enterable(w.fields[f]) = {}

---------------------------------------------------------------------------
(* Steps *)

Init ==
  /\ slice \in Slices
  /\ ws \in slice.spaces
  /\ changes = 0
  /\ old = slice.old
  /\ admin \in slice.roles
  /\ choices = NoChoices
  /\ known = {}
  /\ plan = None
  /\ screen = "list"
  /\ sent = None

\* handlePreflight with choices c, and accept of its answer with the items k.  A refused check
\* leaves the screen as it was; one that was to fill the screen leaves it without widgets.
Preflighted(c, k) ==
  LET p    == [choices |-> c, ws |-> ws, admin |-> admin', old |-> old]
      open == Outcome(p).open
      kept == IF plan = None THEN {} ELSE plan.editable
  IN  IF Admitted(c, ws, admin')
      THEN /\ plan' = [choices |-> c, ws |-> ws, admin |-> admin', old |-> old,
                       editable |-> MergeItems(open, kept)]
           /\ known' = MergeItems(k, open)
           /\ screen' = "detail"
      ELSE /\ known' = k
           /\ screen' = IF screen = "detail" THEN "detail" ELSE "failed"
           /\ UNCHANGED plan

\* renderDetail: the choices and items of the stored plan, then its first preflight.
Open ==
  /\ screen \in {"list", "stale"} /\ sent = None
  /\ admin' \in slice.roles
  /\ choices' = IF plan = None THEN NoChoices ELSE plan.choices
  /\ Preflighted(choices', IF plan = None THEN {} ELSE plan.editable)
  /\ UNCHANGED <<slice, ws, changes, old, sent>>

\* The viewer leaves: back to the list, or a closed tab.
Leave ==
  /\ screen # "list" /\ sent = None
  /\ screen' = "list" /\ choices' = NoChoices /\ known' = {}
  /\ UNCHANGED <<slice, ws, changes, old, admin, plan, sent>>

\* A control of a mounted widget is used: reflow runs the preflight again.
Choose ==
  /\ screen = "detail"
  /\ \E w \in {plan.ws, ws} : choices' \in Controls(choices, known, w)
  /\ UNCHANGED admin
  /\ Preflighted(choices', known)
  /\ UNCHANGED <<slice, ws, changes, old, sent>>

\* "Check choices again"
Recheck ==
  /\ screen = "failed"
  /\ UNCHANGED <<admin, choices>>
  /\ Preflighted(choices, known)
  /\ UNCHANGED <<slice, ws, changes, old, sent>>

CanConfirm(p) == Outcome(p).blockers = {} /\ Outcome(p).open = {}

\* After a refused choice the plan on screen is still the one before it.
Continue ==
  /\ screen = "detail" /\ CanConfirm(plan)
  /\ screen' = "confirm"
  /\ UNCHANGED <<slice, ws, changes, old, admin, choices, known, plan, sent>>

\* "Back to entry": the draft of the confirm view, checked again.
Back ==
  /\ screen \in {"confirm", "stale"} /\ sent = None
  /\ UNCHANGED <<admin, choices>>
  /\ Preflighted(choices, known)
  /\ UNCHANGED <<slice, ws, changes, old, sent>>

\* confirmPlan: the plan is computed again from the workspace as it is now.
Revalidated(p) == [p EXCEPT !.ws = ws, !.admin = admin, !.old = old]

\* Wrong: what the plan says is believed.
OutcomesNeverDiffer(p, fresh) == FALSE

OutcomesDiffer(p, fresh) ==
  LET view(o) == [o EXCEPT !.fidelity = {}]
  IN  view(Outcome(p)) # view(Outcome(fresh))

Confirm ==
  /\ screen = "confirm" /\ sent = None
  /\ LET fresh == Revalidated(plan)
     IN  IF OutcomesDiffer(plan, fresh)
         THEN /\ plan' = [fresh EXCEPT !.editable = MergeItems(Outcome(fresh).open, plan.editable)]
              /\ screen' = "stale"
              /\ UNCHANGED sent
         ELSE /\ sent' = fresh
              /\ UNCHANGED <<plan, screen>>
  /\ UNCHANGED <<slice, ws, changes, old, admin, choices, known>>

\* At Clockify: settings, projects, tasks, tags and fields change.
WorkspaceChanges ==
  /\ sent = None /\ changes < MaxChanges
  /\ changes' = changes + 1
  /\ ws' \in slice.spaces \ {ws}
  /\ UNCHANGED <<slice, old, admin, choices, known, plan, screen, sent>>

EntryAges ==
  /\ sent = None /\ ~old
  /\ old' = TRUE
  /\ UNCHANGED <<slice, ws, changes, admin, choices, known, plan, screen, sent>>

Next ==
  \/ Open \/ Leave \/ Choose \/ Recheck \/ Continue \/ Back \/ Confirm
  \/ WorkspaceChanges \/ EntryAges

Spec == Init /\ [][Next]_vars

---------------------------------------------------------------------------
(* What Clockify does with a create: the observations of docs/01 and docs/07. *)

Accepts(w, a, r) ==
  /\ w.ownerActive
  /\ r.end # None => r.end > 0 /\ (w.stopwatchOnly => a)
  /\ r.project = None => ~w.forceProjects \/ r.end = None
  /\ r.project # None => r.project \in w.projects
  /\ r.task # None => <<r.project, r.task>> \in w.tasks
  /\ r.tags \subseteq w.tags /\ (w.forceTags => r.tags # {})
  /\ w.forceDescription => r.description # ""
  /\ \A f \in DOMAIN r.values :
       IF f \in DOMAIN w.fields /\ w.fields[f].active
       THEN /\ w.fields[f].required => r.values[f] # None \/ Usable(w.fields[f].default)
            /\ r.values[f] # None => Fits(w.fields[f], r.values[f])
       ELSE r.values[f] = None

\* A field that is not in the request gets its default; a guarded billable flag gets its own.
StoredValue(w, r, f) ==
  CASE f \notin DOMAIN w.fields -> None
    [] f \in DOMAIN w.fields /\ r.values[f] # None -> r.values[f]
    [] OTHER -> IF w.fields[f].active THEN w.fields[f].default ELSE None

StoredBillable(w, a, r) ==
  IF w.billableGuarded /\ ~a THEN w.billableDefault ELSE r.billable

---------------------------------------------------------------------------
(* Properties *)

TypeOK ==
  /\ slice \in Slices /\ ws \in slice.spaces
  /\ changes \in 0 .. MaxChanges
  /\ old \in BOOLEAN /\ admin \in BOOLEAN
  /\ choices \in Choice(slice)
  /\ known \in SUBSET Items(slice)
  /\ plan \in Plan(slice) \cup {None}
  /\ screen \in {"list", "detail", "failed", "confirm", "stale"}
  /\ sent \in Plan(slice) \cup {None}

\* The workspace the plan was read from offers something to answer item i with.  A reference can
\* be removed if the item first came with that option: known keeps the first of its kind.
Answerable(i) ==
  LET w == plan.ws
      q == PlanQuestion(plan)
  IN  CASE i.rule \in {"P-PROJ-GONE", "P-PROJ-REQ"} -> Accessible(w, admin) # {}
        [] i.rule = "P-TAG-REQ"                     -> w.tags # {}
        [] i.rule \in {"P-TAG-GONE", "P-TAG-ARCH"}  -> i \in known
        [] i.rule = "P-CF-REQ" -> \E v \in Enterable(w.fields[i.ref]) : Usable(v)
        [] i.rule = "P-TASK-GONE" ->
             /\ Shown(ActionRequired(q), "P-PROJ-GONE") = {}
             /\ \/ EffectiveProject(q) \in Accessible(w, admin)
                   /\ \E r \in w.tasks : r[1] = EffectiveProject(q)
                \/ i.removable /\ \E j \in known : SameItem(i, j) /\ j.removable
        [] OTHER -> TRUE

\* One use of a control that is shown closes the item.
Closes(i) ==
  \E c \in Controls(choices, known, plan.ws) :
    /\ Admitted(c, plan.ws, admin)
    /\ i \notin ActionRequired(Question(c, plan.ws, admin, plan.old))

PlanOnScreen == screen = "detail" /\ plan.choices = choices

(* Whatever the viewer has chosen and however the workspace changed on the way, every item the  *)
(* plan on screen asks for can be answered with a widget on screen.                             *)
WayOut ==
  PlanOnScreen => \A i \in Outcome(plan).open : Answerable(i) => Closes(i)

(* The same, but for the task of an entry whose project the viewer has removed.                 *)
WayOutWithProject ==
  PlanOnScreen =>
    \A i \in Outcome(plan).open :
      /\ Answerable(i)
      /\ i.rule = "P-TASK-GONE" => EffectiveProject(PlanQuestion(plan)) # None
      => Closes(i)

(* A viewer who opens an entry gets to its plan: "Choose a project you can see" is not answered *)
(* on a screen without a project to choose (routes.ts:279).                                     *)
EntryOpens == screen # "failed"

\* The server accepts the choices c, and the rule whose widget made a choice has an item in k.
StaysEditable(c, k) ==
  /\ ParsesChoices(c)
  /\ c.project # Unset => \E i \in k : i.rule \in {"P-PROJ-GONE", "P-PROJ-REQ"}
  /\ c.task # Unset => \E i \in k : i.rule = "P-TASK-GONE"
  /\ c.dropTags \cup c.addTags # {} =>
       \E i \in k : i.rule \in {"P-TAG-GONE", "P-TAG-ARCH", "P-TAG-REQ"}
  /\ c.description # Unset => \E i \in k : i.rule = "P-DESC"
  /\ \A f \in DOMAIN c.inputs : c.inputs[f] # Unset \/ f \in c.dropFields =>
       \E i \in k : i.rule \in {"P-CF-OPT", "P-CF-REQ"} /\ i.ref = f

(* A choice is never stranded: the server accepts what the component holds, and the rule whose  *)
(* widget made a choice keeps an item on screen, after a stale plan and after reopening too.    *)
ChoicesStayEditable == screen = "detail" => StaysEditable(choices, known)

(* A plan passes its revalidation only if the workspace that was just read takes its request,   *)
(* whatever changed since the plan was shown.                                                   *)
SentIsAccepted ==
  sent # None => Accepts(sent.ws, sent.admin, Outcome(sent).request)

SourceKept(q, r, f) ==
  Usable(q.source.values[f]) => LooselyEqual(StoredValue(q.ws, r, f), q.source.values[f])

\* The request r creates what the deleted entry of q held.  A value the viewer entered that
\* happens to be the field's default is the exception (FullKeepsValues).
CreatesTheSame(q, r) ==
  /\ r.end = q.source.end /\ r.description = q.source.description
  /\ r.project = q.source.project /\ r.task = q.source.task /\ r.tags = q.source.tags
  /\ \/ StoredBillable(q.ws, q.admin, r) = q.source.billable
     \/ Shown(Warnings(q), "P-BILL") # {}
  /\ \A f \in DOMAIN r.values : Entered(q, f) \/ SourceKept(q, r, f)

(* A plan labelled FULL creates an entry with the deleted entry's values.                       *)
FullMeansSame ==
  sent # None =>
    LET q == PlanQuestion(sent)
    IN  ClassifyFidelity(q) = "FULL" => CreatesTheSame(q, PlannedRequest(q))

(* docs/07 section 10 without the exception: an entered value that changes the entry is never   *)
(* FULL.                                                                                        *)
FullKeepsValues ==
  sent # None =>
    LET q == PlanQuestion(sent)
    IN  ClassifyFidelity(q) = "FULL" =>
          \A f \in DOMAIN q.source.values : SourceKept(q, PlannedRequest(q), f)
=============================================================================
