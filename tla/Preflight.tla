------------------------------ MODULE Preflight ------------------------------
(***************************************************************************)
(* The plan rules: what runPreflight makes of a deleted entry, the         *)
(* viewer's role, the choices made so far and what the workspace holds.    *)
(*                                                                         *)
(* A question q is one input of runPreflight:                              *)
(*   q.source     the deleted entry.  Times are hours after its start, so  *)
(*                `end` is None for a running entry and positive otherwise *)
(*   q.admin      the viewer is an admin                                   *)
(*   q.ws         what fetchWorkspaceState read                            *)
(*   q.choices    what the viewer chose; Unset for a key never written     *)
(*   q.old        the entry started 24 hours ago or longer                 *)
(*                                                                         *)
(* A value of a custom field is [shape, of]: the JSON type and the texts   *)
(* it holds, none for an empty one.  The order of an array is left out.    *)
(* Names, messages and the presentation (a rendering of the verdicts) are  *)
(* left out; a task that is not ACTIVE counts as absent, as in the code.   *)
(***************************************************************************)
EXTENDS Integers, FiniteSets

CONSTANTS
  None,     \* null
  Unset     \* undefined: a choice that was not made

ASSUME UnsetAssumption == None # Unset

Value(shape, of) == [shape |-> shape, of |-> of]

Usable(v) == v \notin {None, Unset} /\ v.of # {}

\* The texts that Number() reads as a finite number.
Numerals == {"0", "1", "2", "3"}
IsNumericValue(v) == v.shape \in {"number", "string"} /\ v.of # {} /\ v.of \subseteq Numerals

\* JSON text for arrays, the number or the text for scalars: "1" and 1 are equal.
LooselyEqual(v, w) ==
  \/ v = w
  \/ None \notin {v, w} /\ "array" \notin {v.shape, w.shape} /\ v.of = w.of

Item(rule, ref, removable) == [rule |-> rule, ref |-> ref, removable |-> removable]

---------------------------------------------------------------------------
(* Timer *)

Running(q) == q.source.running /\ q.choices.mode = "running"

IsEndAfterStart(end) == end # Unset /\ end > 0

\* P-RUN and P-RUN-END.
TimerItems(q) ==
  CASE ~q.source.running                          -> {}
    [] q.source.running /\ q.choices.mode = Unset -> {Item("P-RUN", None, FALSE)}
    [] OTHER -> IF q.choices.mode = "completed" /\ ~IsEndAfterStart(q.choices.end)
                THEN {Item("P-RUN-END", None, FALSE)} ELSE {}

ModeResolved(q) == TimerItems(q) = {}
Completed(q)    == ModeResolved(q) /\ ~Running(q)
EndOf(q) == CASE ~Completed(q) -> None
              [] OTHER -> IF q.source.running THEN q.choices.end ELSE q.source.end

---------------------------------------------------------------------------
(* Project and task *)

EffectiveProject(q) ==
  IF q.choices.project # Unset THEN q.choices.project ELSE q.source.project

ProjectSubstituted(q) ==
  q.choices.project # Unset /\ q.choices.project # q.source.project

EffectiveTask(q) ==
  CASE q.choices.task # Unset -> q.choices.task
    [] OTHER -> IF ProjectSubstituted(q) THEN None ELSE q.source.task

\* What lookupProject and lookupTask find.
ProjectFound(q) == EffectiveProject(q) \in q.ws.projects
TaskFound(q)    == ProjectFound(q) /\ <<EffectiveProject(q), EffectiveTask(q)>> \in q.ws.tasks

\* P-PROJ-REQ and P-PROJ-GONE.
ProjectItems(q) ==
  CASE EffectiveProject(q) = None ->
         IF q.ws.forceProjects /\ Completed(q) THEN {Item("P-PROJ-REQ", None, FALSE)} ELSE {}
    [] OTHER ->
         IF ProjectFound(q) THEN {} ELSE {Item("P-PROJ-GONE", None, ~q.ws.forceProjects)}

\* A task never follows another project; it may be removed only where tasks are optional.
TaskOpen(q) ==
  CASE q.source.task # None /\ ProjectSubstituted(q) /\ q.choices.task = Unset -> TRUE
    [] q.source.task # None /\ q.choices.task = None /\ q.ws.forceTasks
         /\ EffectiveProject(q) # None -> TRUE
    [] OTHER -> EffectiveTask(q) # None /\ ~TaskFound(q)

\* A chosen "No task" is refused without the option to remove.
TaskItems(q) ==
  IF TaskOpen(q) THEN {Item("P-TASK-GONE", None, ~q.ws.forceTasks)} ELSE {}

---------------------------------------------------------------------------
(* Tags and description *)

DroppedTags(q)    == q.source.tags \cap q.choices.dropTags
UnresolvedTags(q) == (q.source.tags \ q.choices.dropTags) \ q.ws.tags
RefusedAdds(q)    == q.choices.addTags \ q.ws.tags
AddedTags(q)      == q.choices.addTags \cap q.ws.tags
EffectiveTags(q)  == ((q.source.tags \ q.choices.dropTags) \cap q.ws.tags) \cup AddedTags(q)

TagRule(q, t) == IF t \in q.ws.archivedTags THEN "P-TAG-ARCH" ELSE "P-TAG-GONE"

TagItems(q) ==
  {Item(TagRule(q, t), t, TRUE) : t \in UnresolvedTags(q)}
  \cup {Item(TagRule(q, t), t, FALSE) : t \in RefusedAdds(q) \ UnresolvedTags(q)}
  \cup (IF UnresolvedTags(q) \cup RefusedAdds(q) \cup EffectiveTags(q) = {} /\ q.ws.forceTags
        THEN {Item("P-TAG-REQ", None, FALSE)} ELSE {})

EffectiveDescription(q) ==
  IF q.choices.description # Unset THEN q.choices.description ELSE q.source.description

DescriptionItems(q) ==
  IF q.ws.forceDescription /\ EffectiveDescription(q) = ""
  THEN {Item("P-DESC", None, FALSE)} ELSE {}

---------------------------------------------------------------------------
(* Custom fields *)

Dropdown(d) == d.type \in {"DROPDOWN_SINGLE", "DROPDOWN_MULTIPLE"}

Fits(d, v) ==
  CASE d.type = "NUMBER"            -> IsNumericValue(v)
    [] d.type = "CHECKBOX"          -> v.shape = "boolean"
    [] d.type = "DROPDOWN_MULTIPLE" -> v.shape = "array"
    [] OTHER                        -> v.shape = "string"

AllOptionsAllowed(d, v) == Dropdown(d) => d.allowed = None \/ v.of \subseteq d.allowed

HasUsableDefault(d) == Usable(d.default) /\ Fits(d, d.default) /\ AllOptionsAllowed(d, d.default)

\* The fields of this workspace that take a value.
ActiveFields(q) == {f \in DOMAIN q.ws.fields : q.ws.fields[f].active}

Entered(q, f) == Usable(q.choices.inputs[f])

EffectiveValue(q, f) ==
  LET d == q.ws.fields[f]
  IN  CASE Entered(q, f) -> q.choices.inputs[f]
        [] ~Entered(q, f) /\ Usable(q.source.values[f]) -> q.source.values[f]
        [] OTHER -> IF d.required /\ HasUsableDefault(d) THEN d.default ELSE None

\* The rule that keeps field f open: P-CF-REQ, P-CF-OPT, or None.
FieldOpen(q, f) ==
  LET d == q.ws.fields[f]
      v == EffectiveValue(q, f)
  IN  CASE f \in q.choices.dropFields ->
             IF d.required /\ ~HasUsableDefault(d) THEN "P-CF-REQ" ELSE None
        [] f \notin q.choices.dropFields /\ ~Usable(v) ->
             IF d.required THEN "P-CF-REQ" ELSE None
        [] OTHER ->
             CASE ~Fits(d, v) -> "P-CF-REQ"
               [] Fits(d, v) /\ ~Entered(q, f) /\ ~AllOptionsAllowed(d, v) -> "P-CF-OPT"
               [] OTHER -> None

FieldItems(q) ==
  {Item(FieldOpen(q, f), f, FALSE) : f \in {g \in ActiveFields(q) : FieldOpen(q, g) # None}}

\* P-CF-WRITE: a settled value is sent unless it equals the default, which attaches by itself.
Written(q, f) ==
  /\ f \in ActiveFields(q) \ q.choices.dropFields
  /\ FieldOpen(q, f) = None
  /\ Usable(EffectiveValue(q, f))
  /\ ~LooselyEqual(EffectiveValue(q, f), q.ws.fields[f].default)

\* A value that is entered, sent and not the one of the source.
ValueChanged(q, f) ==
  Written(q, f) /\ Entered(q, f) /\ ~LooselyEqual(q.choices.inputs[f], q.source.values[f])

\* P-CF-GONE, and P-CF-OPT answered by dropping the value.
ValueLost(q, f) ==
  IF f \in ActiveFields(q)
  THEN f \in q.choices.dropFields /\ FieldOpen(q, f) = None
  ELSE Usable(q.source.values[f])

---------------------------------------------------------------------------
(* The plan *)

Blockers(q) ==
  (IF q.source.regular THEN {} ELSE {"P-TYPE"})
  \cup (IF q.ws.ownerActive THEN {} ELSE {"P-OWNER"})
  \cup (IF Completed(q) /\ q.ws.stopwatchOnly /\ ~q.admin THEN {"P-TIMER"} ELSE {})

Warnings(q) ==
  (IF ProjectFound(q) /\ EffectiveProject(q) \in q.ws.archivedProjects
   THEN {Item("P-PROJ-ARCH", None, FALSE)} ELSE {})
  \cup {Item("P-CF-GONE", f, FALSE) : f \in {g \in DOMAIN q.source.values \ ActiveFields(q) :
                                               Usable(q.source.values[g])}}
  \cup {Item("P-CF-OPT", f, FALSE) : f \in {g \in ActiveFields(q) :
         IF g \in q.choices.dropFields THEN FieldOpen(q, g) = None
         ELSE Entered(q, g) /\ FieldOpen(q, g) = None
                /\ ~AllOptionsAllowed(q.ws.fields[g], q.choices.inputs[g])}}
  \cup (IF q.ws.billableGuarded /\ ~q.admin /\ q.source.billable # q.ws.billableDefault
        THEN {Item("P-BILL", None, FALSE)} ELSE {})
  \cup (IF ~q.admin /\ q.ws.lockSet /\ q.old THEN {Item("P-LOCK-REG", None, FALSE)} ELSE {})

ActionRequired(q) ==
  TimerItems(q) \cup ProjectItems(q) \cup TaskItems(q) \cup TagItems(q)
  \cup DescriptionItems(q) \cup FieldItems(q)

PlannedRequest(q) ==
  [end         |-> EndOf(q),
   description |-> EffectiveDescription(q),
   billable    |-> q.source.billable,
   project     |-> EffectiveProject(q),
   task        |-> EffectiveTask(q),
   tags        |-> EffectiveTags(q),
   values      |-> [f \in DOMAIN q.source.values |->
                      IF Written(q, f) THEN EffectiveValue(q, f) ELSE None]]

\* Wrong: removing what the deleted entry had does not count.
HasReplacement(q) ==
  \/ q.source.running /\ Completed(q)
  \/ q.choices.project # Unset /\ ProjectFound(q)
  \/ AddedTags(q) # {}
  \/ q.choices.description # Unset /\ q.choices.description # q.source.description
  \/ \E f \in ActiveFields(q) : ValueChanged(q, f)

HasAdjustment(q) ==
  \/ q.source.running /\ Completed(q)
  \/ q.choices.project # Unset /\ ProjectFound(q)
  \/ q.choices.project = None /\ q.source.project # None
  \/ ~TaskOpen(q) /\ q.choices.task # Unset /\ (q.choices.task # None \/ q.source.task # None)
  \/ DroppedTags(q) # {} \/ AddedTags(q) # {}
  \/ q.choices.description # Unset /\ q.choices.description # q.source.description
  \/ \E f \in ActiveFields(q) : ValueChanged(q, f)

ClassifyFidelity(q) ==
  CASE Blockers(q) # {} -> "IMPOSSIBLE"
    [] Blockers(q) = {} /\ (\E f \in DOMAIN q.source.values : ValueLost(q, f)) -> "PARTIAL"
    [] OTHER -> IF HasAdjustment(q) THEN "ADJUSTED" ELSE "FULL"

\* The outcome of each reference, as the resolution and the presentation report it.
Verdicts(q) ==
  [project |-> <<EffectiveProject(q), ProjectFound(q), q.choices.project # Unset>>,
   task    |-> <<EffectiveTask(q), TaskOpen(q), q.choices.task # Unset>>,
   tags    |-> <<DroppedTags(q), AddedTags(q)>>,
   values  |-> [f \in DOMAIN q.source.values |-> <<ValueLost(q, f), ValueChanged(q, f)>>]]

RunPreflight(q) ==
  [request  |-> PlannedRequest(q), verdicts |-> Verdicts(q), warnings |-> Warnings(q),
   blockers |-> Blockers(q), open |-> ActionRequired(q), fidelity |-> ClassifyFidelity(q)]
=============================================================================
