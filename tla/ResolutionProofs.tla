-------------------------- MODULE ResolutionProofs ---------------------------
(***************************************************************************)
(* What the plan rules promise of a plan with nothing left to settle, for  *)
(* any deleted entry, workspace and choices, and that the widgets, stale   *)
(* plans and reopening lead to no other plan being sent.                   *)
(***************************************************************************)
EXTENDS ResolutionInvariant, TLAPS

-----------------------------------------------------------------------------
(* The rules, for one question. *)

\* q is a question that can be asked in slice s, and has nothing open and no blocker.
Settled(s, q) ==
  /\ q.source = s.source /\ q.ws \in s.spaces /\ q.choices \in Choice(s)
  /\ Blockers(q) = {} /\ ActionRequired(q) = {}

\* No rule has an item.
LEMMA NothingOpen ==
  ASSUME NEW s, NEW q, Settled(s, q)
  PROVE  /\ TimerItems(q) = {} /\ ProjectItems(q) = {} /\ TaskItems(q) = {}
         /\ TagItems(q) = {} /\ DescriptionItems(q) = {} /\ FieldItems(q) = {}
BY DEF Settled, ActionRequired

\* The end is the entry's own, or one the viewer typed that lies after the start.
LEMMA SettledEnd ==
  ASSUME NEW s \in Slices, NEW q, Settled(s, q), EndOf(q) # None
  PROVE  EndOf(q) > 0 /\ (q.ws.stopwatchOnly => q.admin)
<1>1. Completed(q) /\ EndOf(q) = IF q.source.running THEN q.choices.end ELSE q.source.end
  BY DEF EndOf
<1>2. q.ws.stopwatchOnly => q.admin
  BY <1>1 DEF Settled, Blockers
<1>3. CASE q.source.running
  <2>1. q.choices.mode \in {"running", "completed", Unset}
    BY DEF Settled, Choice
  <2>2. q.choices.mode = "completed"
    BY <1>1, <1>3, <2>1, NothingOpen DEF Completed, Running, TimerItems
  <2>3. IsEndAfterStart(q.choices.end)
    BY <1>3, <2>2, NothingOpen DEF TimerItems
  <2> QED
    BY <1>1, <1>2, <1>3, <2>3 DEF IsEndAfterStart
<1>4. CASE ~q.source.running
  BY <1>1, <1>2, <1>4, SlicesAssumption DEF Settled
<1> QED
  BY <1>3, <1>4

\* The project is there, or none is needed.
LEMMA SettledProject ==
  ASSUME NEW s \in Slices, NEW q, Settled(s, q)
  PROVE  /\ EffectiveProject(q) = None => ~q.ws.forceProjects \/ EndOf(q) = None
         /\ EffectiveProject(q) # None => ProjectFound(q)
<1>1. ProjectItems(q) = {}
  BY NothingOpen
<1>2. CASE EffectiveProject(q) = None
  BY <1>1, <1>2 DEF ProjectItems, EndOf
<1>3. CASE EffectiveProject(q) # None
  BY <1>1, <1>3 DEF ProjectItems
<1> QED
  BY <1>2, <1>3

\* So is the task, in that project.
LEMMA SettledTask ==
  ASSUME NEW s \in Slices, NEW q, Settled(s, q)
  PROVE  ~TaskOpen(q) /\ (EffectiveTask(q) # None => TaskFound(q))
<1>1. ~TaskOpen(q)
  BY NothingOpen DEF TaskItems
<1> QED
  BY <1>1 DEF TaskOpen

\* All tags are there, and one at least where they are required.
LEMMA SettledTags ==
  ASSUME NEW s \in Slices, NEW q, Settled(s, q)
  PROVE  /\ EffectiveTags(q) \subseteq q.ws.tags
         /\ q.ws.forceTags => EffectiveTags(q) # {}
         /\ UnresolvedTags(q) = {} /\ RefusedAdds(q) = {}
<1>1. TagItems(q) = {}
  BY NothingOpen
<1>2. UnresolvedTags(q) = {}
  BY <1>1 DEF TagItems
<1>3. RefusedAdds(q) = {}
  BY <1>1, <1>2 DEF TagItems
<1>4. q.ws.forceTags => EffectiveTags(q) # {}
  BY <1>1, <1>2, <1>3 DEF TagItems
<1> QED
  BY <1>2, <1>3, <1>4 DEF EffectiveTags, AddedTags

\* A field that keeps no item is dropped where it may be, or has a value of its type or none.
LEMMA SettledField ==
  ASSUME NEW s \in Slices, NEW q, Settled(s, q), NEW f \in ActiveFields(q)
  PROVE  /\ FieldOpen(q, f) = None
         /\ f \in q.choices.dropFields /\ q.ws.fields[f].required
              => HasUsableDefault(q.ws.fields[f])
         /\ f \notin q.choices.dropFields /\ ~Usable(EffectiveValue(q, f))
              => ~q.ws.fields[f].required
         /\ f \notin q.choices.dropFields /\ Usable(EffectiveValue(q, f))
              => Fits(q.ws.fields[f], EffectiveValue(q, f))
<1>1. FieldOpen(q, f) = None
  BY NothingOpen DEF FieldItems
<1>2. None \notin FieldRules
  BY NoneAssumption
<1>3. CASE f \in q.choices.dropFields
  BY <1>1, <1>2, <1>3 DEF FieldOpen, FieldRules
<1>4. CASE f \notin q.choices.dropFields /\ ~Usable(EffectiveValue(q, f))
  BY <1>1, <1>2, <1>4 DEF FieldOpen, FieldRules
<1>5. CASE f \notin q.choices.dropFields /\ Usable(EffectiveValue(q, f))
  BY <1>1, <1>2, <1>5 DEF FieldOpen, FieldRules
<1> QED
  BY <1>3, <1>4, <1>5

\* A settled value that is not sent, or a dropped one, leaves a required field its default.
LEMMA SettledRequired ==
  ASSUME NEW s \in Slices, NEW q, Settled(s, q), NEW f \in ActiveFields(q),
         q.ws.fields[f].required, ~Written(q, f)
  PROVE  Usable(q.ws.fields[f].default)
<1> DEFINE d == q.ws.fields[f]
           v == EffectiveValue(q, f)
<1>1. d.default # Unset
  BY SlicesAssumption DEF Settled, ActiveFields
<1>2. CASE f \in q.choices.dropFields
  BY <1>2, SettledField DEF HasUsableDefault
<1>3. CASE f \notin q.choices.dropFields
  <2>1. Usable(v) /\ FieldOpen(q, f) = None
    BY <1>3, SettledField
  <2>2. LooselyEqual(v, d.default)
    BY <1>3, <2>1 DEF Written
  <2> QED
    BY <1>1, <2>1, <2>2 DEF LooselyEqual, Usable
<1> QED
  BY <1>2, <1>3

\* What is sent for a field is a value of its type.
LEMMA WrittenFits ==
  ASSUME NEW s \in Slices, NEW q, Settled(s, q), NEW f, Written(q, f)
  PROVE  /\ f \in ActiveFields(q) /\ EffectiveValue(q, f) # None
         /\ Fits(q.ws.fields[f], EffectiveValue(q, f))
BY SettledField DEF Written, Usable

\* The workspace that was read takes the request of a settled plan.
LEMMA SettledIsAccepted ==
  ASSUME NEW s \in Slices, NEW q, Settled(s, q)
  PROVE  Accepts(q.ws, q.admin, PlannedRequest(q))
<1> DEFINE r == PlannedRequest(q)
<1>1. /\ r.end = EndOf(q) /\ r.project = EffectiveProject(q) /\ r.task = EffectiveTask(q)
      /\ r.tags = EffectiveTags(q) /\ r.description = EffectiveDescription(q)
      /\ r.values = [f \in DOMAIN q.source.values |->
                       IF Written(q, f) THEN EffectiveValue(q, f) ELSE None]
  BY DEF PlannedRequest
<1>2. q.ws.ownerActive
  BY DEF Settled, Blockers
<1>3. r.end # None => r.end > 0 /\ (q.ws.stopwatchOnly => q.admin)
  BY <1>1, SettledEnd
<1>4. /\ r.project = None => ~q.ws.forceProjects \/ r.end = None
      /\ r.project # None => r.project \in q.ws.projects
  BY <1>1, SettledProject DEF ProjectFound
<1>5. r.task # None => <<r.project, r.task>> \in q.ws.tasks
  BY <1>1, SettledTask DEF TaskFound
<1>6. r.tags \subseteq q.ws.tags /\ (q.ws.forceTags => r.tags # {})
  BY <1>1, SettledTags
<1>7. q.ws.forceDescription => r.description # ""
  BY <1>1, NothingOpen DEF DescriptionItems
<1>8. ASSUME NEW f \in DOMAIN r.values
      PROVE  IF f \in DOMAIN q.ws.fields /\ q.ws.fields[f].active
             THEN /\ q.ws.fields[f].required
                       => r.values[f] # None \/ Usable(q.ws.fields[f].default)
                  /\ r.values[f] # None => Fits(q.ws.fields[f], r.values[f])
             ELSE r.values[f] = None
  <2>1. r.values[f] = IF Written(q, f) THEN EffectiveValue(q, f) ELSE None
    BY <1>1, <1>8
  <2>2. CASE Written(q, f)
    BY <2>1, <2>2, WrittenFits DEF ActiveFields
  <2>3. CASE ~Written(q, f)
    BY <2>1, <2>3, SettledRequired DEF ActiveFields
  <2> QED
    BY <2>2, <2>3
<1> HIDE DEF r
<1> QED
  BY <1>2, <1>3, <1>4, <1>5, <1>6, <1>7, <1>8 DEF Accepts, r

-----------------------------------------------------------------------------
(* A plan labelled FULL. *)

\* Nothing is blocked, no value is lost and nothing was adjusted.
LEMMA FullMeans ==
  ASSUME NEW q, ClassifyFidelity(q) = "FULL"
  PROVE  /\ Blockers(q) = {} /\ ~HasAdjustment(q)
         /\ \A f \in DOMAIN q.source.values : ~ValueLost(q, f)
BY DEF ClassifyFidelity

\* The end is the entry's, or still none.
LEMMA FullKeepsEnd ==
  ASSUME NEW s \in Slices, NEW q, Settled(s, q), ClassifyFidelity(q) = "FULL"
  PROVE  EndOf(q) = q.source.end
<1>1. q.source.running = (q.source.end = None)
  BY SlicesAssumption DEF Settled
<1>2. CASE q.source.running
  BY <1>1, <1>2, FullMeans DEF HasAdjustment, EndOf
<1>3. CASE ~q.source.running
  BY <1>3, NothingOpen DEF EndOf, Completed, ModeResolved, Running
<1> QED
  BY <1>2, <1>3

\* So are the project and the task.
LEMMA FullKeepsTarget ==
  ASSUME NEW s \in Slices, NEW q, Settled(s, q), ClassifyFidelity(q) = "FULL"
  PROVE  EffectiveProject(q) = q.source.project /\ EffectiveTask(q) = q.source.task
<1>1. EffectiveProject(q) = q.source.project
  BY FullMeans, SettledProject DEF HasAdjustment, EffectiveProject
<1>2. ~ProjectSubstituted(q)
  BY <1>1 DEF EffectiveProject, ProjectSubstituted
<1>3. ~TaskOpen(q)
  BY SettledTask
<1> QED
  BY <1>1, <1>2, <1>3, FullMeans DEF HasAdjustment, EffectiveTask

\* A value of the entry that no other was entered for is created, by the request or the default.
LEMMA FullKeepsValue ==
  ASSUME NEW s \in Slices, NEW q, Settled(s, q), ClassifyFidelity(q) = "FULL",
         NEW f \in DOMAIN q.source.values, ~Entered(q, f)
  PROVE  SourceKept(q, PlannedRequest(q), f)
<1> DEFINE v == q.source.values[f]
           d == q.ws.fields[f]
           r == PlannedRequest(q)
<1> SUFFICES ASSUME Usable(v)
             PROVE  LooselyEqual(StoredValue(q.ws, r, f), v)
  BY DEF SourceKept
<1>1. f \in ActiveFields(q) /\ f \notin q.choices.dropFields
  <2>1. ~ValueLost(q, f)
    BY FullMeans
  <2>2. f \in ActiveFields(q)
    BY <2>1 DEF ValueLost
  <2> QED
    BY <2>1, <2>2, SettledField DEF ValueLost
<1>2. EffectiveValue(q, f) = v
  BY DEF EffectiveValue
<1>3. FieldOpen(q, f) = None
  BY <1>1, SettledField
<1>4. r.values[f] = IF Written(q, f) THEN v ELSE None
  BY <1>2 DEF PlannedRequest
<1>5. CASE Written(q, f)
  BY <1>1, <1>4, <1>5 DEF StoredValue, LooselyEqual, Usable, ActiveFields
<1>6. CASE ~Written(q, f)
  <2>1. LooselyEqual(v, d.default)
    BY <1>1, <1>2, <1>3, <1>6 DEF Written
  <2>2. StoredValue(q.ws, r, f) = d.default
    BY <1>1, <1>4, <1>6 DEF StoredValue, ActiveFields
  <2> QED
    BY <2>1, <2>2 DEF LooselyEqual
<1> QED
  BY <1>5, <1>6

\* A settled plan labelled FULL creates what the deleted entry held.
LEMMA FullCreatesTheSame ==
  ASSUME NEW s \in Slices, NEW q, Settled(s, q), ClassifyFidelity(q) = "FULL"
  PROVE  CreatesTheSame(q, PlannedRequest(q))
<1> DEFINE r == PlannedRequest(q)
<1>1. r.end = q.source.end
  BY FullKeepsEnd DEF PlannedRequest
<1>2. r.description = q.source.description
  BY FullMeans DEF HasAdjustment, EffectiveDescription, PlannedRequest
<1>3. r.project = q.source.project /\ r.task = q.source.task
  BY FullKeepsTarget DEF PlannedRequest
<1>4. r.tags = q.source.tags
  <2>1. DroppedTags(q) = {} /\ AddedTags(q) = {}
    BY FullMeans DEF HasAdjustment
  <2>2. UnresolvedTags(q) = {}
    BY SettledTags
  <2> QED
    BY <2>1, <2>2 DEF DroppedTags, UnresolvedTags, EffectiveTags, PlannedRequest
<1>5. \/ StoredBillable(q.ws, q.admin, r) = q.source.billable
      \/ Shown(Warnings(q), "P-BILL") # {}
  <2>1. r.billable = q.source.billable
    BY DEF PlannedRequest
  <2>2. CASE q.ws.billableGuarded /\ ~q.admin /\ q.source.billable # q.ws.billableDefault
    <3>1. Item("P-BILL", None, FALSE) \in Warnings(q)
      BY <2>2 DEF Warnings
    <3>2. Item("P-BILL", None, FALSE).rule = "P-BILL"
      BY DEF Item
    <3> QED
      BY <3>1, <3>2 DEF Shown
  <2> QED
    BY <2>1, <2>2 DEF StoredBillable
<1>6. \A f \in DOMAIN r.values : Entered(q, f) \/ SourceKept(q, r, f)
  <2>1. DOMAIN r.values = DOMAIN q.source.values
    BY DEF PlannedRequest
  <2> QED
    BY <2>1, FullKeepsValue
<1> QED
  BY <1>1, <1>2, <1>3, <1>4, <1>5, <1>6 DEF CreatesTheSame

-----------------------------------------------------------------------------
(* Types. *)

\* What a check asks for is made of the slice's references.
LEMMA OpenTyped ==
  ASSUME NEW s \in Slices, NEW q, q.source = s.source, q.ws \in s.spaces, q.choices \in Choice(s)
  PROVE  ActionRequired(q) \subseteq Items(s)
<1> DEFINE Common(rule, b) == Item(rule, None, b)
<1>0. \A rule \in OtherRules, b \in BOOLEAN : Common(rule, b) \in Items(s)
  BY DEF Item, Items
<1>1. TimerItems(q) \subseteq Items(s)
  <2>1. Item("P-RUN", None, FALSE) \in Items(s) /\ Item("P-RUN-END", None, FALSE) \in Items(s)
    BY <1>0 DEF OtherRules
  <2> QED
    BY <2>1, Zenon DEF TimerItems
<1>2. ProjectItems(q) \subseteq Items(s)
  <2>1. /\ Item("P-PROJ-REQ", None, FALSE) \in Items(s)
        /\ \A b \in BOOLEAN : Item("P-PROJ-GONE", None, b) \in Items(s)
    BY <1>0 DEF OtherRules
  <2>2. (~q.ws.forceProjects) \in BOOLEAN
    BY SlicesAssumption
  <2> QED
    BY <2>1, <2>2 DEF ProjectItems
<1>3. TaskItems(q) \subseteq Items(s)
  <2>1. \A b \in BOOLEAN : Item("P-TASK-GONE", None, b) \in Items(s)
    BY <1>0 DEF OtherRules
  <2>2. (~q.ws.forceTasks) \in BOOLEAN
    BY SlicesAssumption
  <2> QED
    BY <2>1, <2>2 DEF TaskItems
<1>4. TagItems(q) \subseteq Items(s)
  <2>1. q.source.tags \cup q.choices.addTags \subseteq Tags(s)
    BY DEF Choice, Tags
  <2>2. \A t : TagRule(q, t) \in TagRules
    BY DEF TagRule, TagRules
  <2>3. \A t \in Tags(s), b \in BOOLEAN : Item(TagRule(q, t), t, b) \in Items(s)
    BY <2>2 DEF Item, Items
  <2>4. Item("P-TAG-REQ", None, FALSE) \in Items(s)
    BY <1>0 DEF OtherRules
  <2>5. UnresolvedTags(q) \subseteq Tags(s) /\ RefusedAdds(q) \subseteq Tags(s)
    BY <2>1 DEF UnresolvedTags, RefusedAdds
  <2> QED
    BY <2>3, <2>4, <2>5 DEF TagItems
<1>5. DescriptionItems(q) \subseteq Items(s)
  <2>1. Item("P-DESC", None, FALSE) \in Items(s)
    BY <1>0 DEF OtherRules
  <2> QED
    BY <2>1 DEF DescriptionItems
<1>6. FieldItems(q) \subseteq Items(s)
  <2>1. ActiveFields(q) \subseteq Fields(s)
    BY SlicesAssumption DEF ActiveFields, Fields
  <2>2. \A f : FieldOpen(q, f) # None => FieldOpen(q, f) \in FieldRules
    BY DEF FieldOpen, FieldRules
  <2>3. \A f \in Fields(s) : FieldOpen(q, f) # None => Item(FieldOpen(q, f), f, FALSE) \in Items(s)
    BY <2>2 DEF Item, Items
  <2> QED
    BY <2>1, <2>3 DEF FieldItems
<1> QED
  BY <1>1, <1>2, <1>3, <1>4, <1>5, <1>6 DEF ActionRequired

\* The question of a plan of the slice on screen.
LEMMA PlanAsks ==
  ASSUME NEW p \in Plan(slice)
  PROVE  /\ PlanQuestion(p).source = slice.source /\ PlanQuestion(p).ws = p.ws
         /\ PlanQuestion(p).ws \in slice.spaces /\ PlanQuestion(p).admin = p.admin
         /\ PlanQuestion(p).choices = p.choices /\ PlanQuestion(p).choices \in Choice(slice)
         /\ Outcome(p).open = ActionRequired(PlanQuestion(p))
         /\ Outcome(p).blockers = Blockers(PlanQuestion(p))
         /\ Outcome(p).request = PlannedRequest(PlanQuestion(p))
BY DEF Plan, PlanQuestion, Question, Outcome, RunPreflight

\* Merged items are items of the two lists.
LEMMA MergeTyped ==
  ASSUME NEW k, NEW l, NEW S, k \subseteq S, l \subseteq S
  PROVE  MergeItems(k, l) \subseteq S
BY DEF MergeItems

\* The first view of an entry has made no choices.
LEMMA NoChoicesTyped == NoChoices \in Choice(slice)
<1>1. [f \in DOMAIN slice.source.values |-> Unset] \in [Fields(slice) -> Inputs(slice) \cup {Unset}]
  BY DEF Fields
<1> QED
  BY <1>1 DEF NoChoices, Choice

-----------------------------------------------------------------------------
(* The widgets: each use of a control keeps choices typed, accepted and editable. *)

\* What a widget keeps of choices c with the items k.
Kept(c, k) == c \in Choice(slice) /\ StaysEditable(c, k)

\* The timer's choices need no item of their own.
LEMMA TimerKeeps ==
  ASSUME NEW c, NEW k, NEW w, Kept(c, k), NEW d \in TimerControls(c, k, w)
  PROVE  Kept(d, k)
<1>1. CASE d = [c EXCEPT !.mode = "running", !.end = Unset]
  BY <1>1 DEF Kept, Choice, StaysEditable, ParsesChoices
<1>2. CASE d = [c EXCEPT !.mode = "completed"]
  BY <1>2 DEF Kept, Choice, StaysEditable, ParsesChoices
<1>3. CASE \E e \in Ends : c.mode = "completed" /\ d = [c EXCEPT !.end = e]
  BY <1>3 DEF Kept, Choice, StaysEditable, ParsesChoices
<1> QED
  BY <1>1, <1>2, <1>3 DEF TimerControls

\* A project is chosen only with an item that asks for one; the task choice goes.
LEMMA ProjectKeeps ==
  ASSUME NEW c, NEW k, NEW w \in slice.spaces, Kept(c, k), NEW d \in ProjectControls(c, k, w)
  PROVE  Kept(d, k)
<1>1. PICK p \in Projects(slice) \cup {None} : d = [c EXCEPT !.project = p, !.task = Unset]
  BY DEF ProjectControls, Accessible, Projects
<1>2. \E i \in k : i.rule \in {"P-PROJ-GONE", "P-PROJ-REQ"}
  BY DEF ProjectControls, Shown
<1> QED
  BY <1>1, <1>2 DEF Kept, Choice, StaysEditable, ParsesChoices

\* So is a task.
LEMMA TaskKeeps ==
  ASSUME NEW c, NEW k, NEW w \in slice.spaces, Kept(c, k), NEW d \in TaskControls(c, k, w)
  PROVE  Kept(d, k)
<1>1. PICK t \in Tasks(slice) \cup {None} : d = [c EXCEPT !.task = t]
  BY DEF TaskControls, Tasks
<1>2. \E i \in k : i.rule = "P-TASK-GONE"
  BY DEF TaskControls, Shown
<1> QED
  BY <1>1, <1>2 DEF Kept, Choice, StaysEditable, ParsesChoices

\* Tags are dropped and added with a tag item on screen.
LEMMA TagsKeep ==
  ASSUME NEW c, NEW k \in SUBSET Items(slice), NEW w \in slice.spaces, Kept(c, k),
         NEW d \in TagControls(c, k, w)
  PROVE  Kept(d, k)
<1>1. \E i \in k : i.rule \in {"P-TAG-GONE", "P-TAG-ARCH", "P-TAG-REQ"}
  BY DEF TagControls, Shown
<1>2. \A i \in Shown(k, "P-TAG-GONE") \cup Shown(k, "P-TAG-ARCH") : i.ref \in Tags(slice)
  BY DEF Shown, Items, OtherRules, TagRules, FieldRules
<1>3. c.dropTags \subseteq Tags(slice) /\ c.addTags \subseteq Tags(slice)
  BY DEF Kept, Choice
<1>4. \/ \E D \in SUBSET Tags(slice) : d = [c EXCEPT !.dropTags = D]
      \/ \E A \in SUBSET Tags(slice) : d = [c EXCEPT !.addTags = A]
  <2>1. CASE \E i \in Shown(k, "P-TAG-GONE") \cup Shown(k, "P-TAG-ARCH") :
               d \in {[c EXCEPT !.dropTags = c.dropTags \ {i.ref}],
                      [c EXCEPT !.dropTags = c.dropTags \cup {i.ref}],
                      [c EXCEPT !.addTags = @ \ {i.ref}]}
    BY <2>1, <1>2, <1>3
  <2>2. CASE \E A \in SUBSET w.tags : d = [c EXCEPT !.addTags = A]
    BY <2>2 DEF Tags
  <2> QED
    BY <2>1, <2>2 DEF TagControls
<1> QED
  BY <1>1, <1>4 DEF Kept, Choice, StaysEditable, ParsesChoices

\* A description is typed where one is required.
LEMMA DescriptionKeeps ==
  ASSUME NEW c, NEW k, NEW w, Kept(c, k), NEW d \in DescriptionControls(c, k, w)
  PROVE  Kept(d, k)
<1>1. PICK t \in Descriptions : d = [c EXCEPT !.description = t]
  BY DEF DescriptionControls
<1>2. \E i \in k : i.rule = "P-DESC"
  BY DEF DescriptionControls, Shown
<1> QED
  BY <1>1, <1>2 DEF Kept, Choice, StaysEditable, ParsesChoices

\* A field that has an item is given a value, which takes back that it was dropped.
LEMMA InputKeeps ==
  ASSUME NEW c, NEW k, Kept(c, k), NEW f \in Fields(slice), NEW v \in Inputs(slice), v # None,
         \E i \in k : i.rule \in {"P-CF-OPT", "P-CF-REQ"} /\ i.ref = f
  PROVE  Kept(SetInput(c, f, v), k)
<1> DEFINE d == SetInput(c, f, v)
<1>1. /\ d.inputs = [c.inputs EXCEPT ![f] = v] /\ d.dropFields = c.dropFields \ {f}
      /\ d.project = c.project /\ d.task = c.task /\ d.dropTags = c.dropTags
      /\ d.addTags = c.addTags /\ d.description = c.description /\ d.mode = c.mode
      /\ d.end = c.end
  BY DEF Kept, Choice, SetInput
<1>2. d \in Choice(slice)
  BY DEF Kept, Choice, SetInput
<1>3. c.inputs \in [Fields(slice) -> Inputs(slice) \cup {Unset}]
  BY DEF Kept, Choice
<1>4. \A g \in Fields(slice) : d.inputs[g] = IF g = f THEN v ELSE c.inputs[g]
  BY <1>1, <1>3
<1> HIDE DEF d
<1>5. ParsesChoices(d)
  BY <1>1, <1>3, <1>4 DEF Kept, StaysEditable, ParsesChoices
<1> QED
  BY <1>1, <1>2, <1>3, <1>4, <1>5 DEF Kept, StaysEditable, d

\* Dropping a field takes back what was entered.
LEMMA DropKeeps ==
  ASSUME NEW c, NEW k, Kept(c, k), NEW f \in Fields(slice),
         \E i \in k : i.rule \in {"P-CF-OPT", "P-CF-REQ"} /\ i.ref = f
  PROVE  Kept(DropValue(c, f), k)
<1> DEFINE d == DropValue(c, f)
<1>1. /\ d.inputs = [c.inputs EXCEPT ![f] = Unset] /\ d.dropFields = c.dropFields \cup {f}
      /\ d.project = c.project /\ d.task = c.task /\ d.dropTags = c.dropTags
      /\ d.addTags = c.addTags /\ d.description = c.description /\ d.mode = c.mode
      /\ d.end = c.end
  BY DEF Kept, Choice, DropValue
<1>2. d \in Choice(slice)
  BY DEF Kept, Choice, DropValue
<1>3. c.inputs \in [Fields(slice) -> Inputs(slice) \cup {Unset}]
  BY DEF Kept, Choice
<1>4. \A g \in Fields(slice) : d.inputs[g] = IF g = f THEN Unset ELSE c.inputs[g]
  BY <1>1, <1>3
<1> HIDE DEF d
<1>5. ParsesChoices(d)
  BY <1>1, <1>3, <1>4, UnsetAssumption DEF Kept, StaysEditable, ParsesChoices
<1> QED
  BY <1>1, <1>2, <1>3, <1>4, <1>5 DEF Kept, StaysEditable, d

\* The values a control offers can be sent: none of them is null.
LEMMA FieldsKeep ==
  ASSUME slice \in Slices, NEW c, NEW k \in SUBSET Items(slice), NEW w \in slice.spaces,
         Kept(c, k), KeepsHaveValues(k), NEW d \in FieldControls(c, k, w)
  PROVE  Kept(d, k)
<1>1. PICK i \in k : /\ i.rule \in {"P-CF-OPT", "P-CF-REQ"}
                     /\ \/ /\ i.ref \in DOMAIN w.fields
                           /\ \E v \in Enterable(w.fields[i.ref]) : d = SetInput(c, i.ref, v)
                        \/ /\ i.rule = "P-CF-OPT"
                           /\ d \in {SetInput(c, i.ref, slice.source.values[i.ref]),
                                     DropValue(c, i.ref)}
  BY DEF FieldControls, Shown
<1>2. i.ref \in Fields(slice)
  BY <1>1 DEF Items, OtherRules, TagRules, FieldRules
<1>3. CASE /\ i.ref \in DOMAIN w.fields
           /\ \E v \in Enterable(w.fields[i.ref]) : d = SetInput(c, i.ref, v)
  <2>1. PICK v \in Enterable(w.fields[i.ref]) : d = SetInput(c, i.ref, v)
    BY <1>3
  <2>2. v \in Inputs(slice) /\ v # None
    BY <1>3, NoneAssumption DEF Inputs
  <2> QED
    BY <1>1, <1>2, <2>1, <2>2, InputKeeps
<1>4. CASE i.rule = "P-CF-OPT" /\ d = SetInput(c, i.ref, slice.source.values[i.ref])
  <2>1. /\ slice.source.values[i.ref] \in Inputs(slice)
        /\ slice.source.values[i.ref] # None
    BY <1>2, <1>4 DEF Inputs, KeepsHaveValues, Usable
  <2> QED
    BY <1>1, <1>2, <1>4, <2>1, InputKeeps
<1>5. CASE d = DropValue(c, i.ref)
  BY <1>1, <1>2, <1>5, DropKeeps
<1> QED
  BY <1>1, <1>3, <1>4, <1>5

\* Every control of the widgets that are on screen.
LEMMA ControlsKeep ==
  ASSUME slice \in Slices, NEW c \in Choice(slice), NEW k \in SUBSET Items(slice),
         NEW w \in slice.spaces, Held(c, k), NEW d \in Controls(c, k, w)
  PROVE  d \in Choice(slice) /\ Held(d, k)
<1>1. Kept(c, k) /\ KeepsHaveValues(k)
  BY DEF Held, Kept
<1>2. Kept(d, k)
  BY <1>1, TimerKeeps, ProjectKeeps, TaskKeeps, TagsKeep, DescriptionKeeps, FieldsKeep
     DEF Controls
<1> QED
  BY <1>1, <1>2 DEF Held, Kept

-----------------------------------------------------------------------------
(* Items: merging loses none, and what a choice needs is an item of its rule and reference. *)

\* A merged list has all of the first list, and covers the second.
LEMMA MergeCovers ==
  ASSUME NEW k, NEW l
  PROVE  k \subseteq MergeItems(k, l) /\ Covers(MergeItems(k, l), l)
<1>1. k \subseteq MergeItems(k, l)
  BY DEF MergeItems
<1>2. ASSUME NEW i \in l
      PROVE  \E j \in MergeItems(k, l) : SameItem(i, j)
  <2>1. CASE \A j \in k : ~SameItem(i, j)
    <3>1. i \in MergeItems(k, l) /\ SameItem(i, i)
      BY <2>1 DEF MergeItems, SameItem
    <3> QED
      BY <3>1
  <2>2. CASE \E j \in k : SameItem(i, j)
    BY <1>1, <2>2
  <2> QED
    BY <2>1, <2>2
<1> QED
  BY <1>1, <1>2 DEF Covers

\* What covers a list covers its parts, and a larger list covers what a part of it does.
LEMMA CoversMore ==
  ASSUME NEW k, NEW l, NEW m, NEW n, Covers(k, l), k \subseteq m, n \subseteq l
  PROVE  Covers(m, n)
BY DEF Covers

\* A covered list is covered by whatever covers the cover.
LEMMA CoversThrough ==
  ASSUME NEW k, NEW l, NEW m, Covers(k, l), Covers(l, m)
  PROVE  Covers(k, m)
<1>1. ASSUME NEW i \in m
      PROVE  \E j \in k : SameItem(i, j)
  <2>1. PICK h \in l : SameItem(i, h)
    BY DEF Covers
  <2>2. PICK j \in k : SameItem(h, j)
    BY DEF Covers
  <2> QED
    BY <2>1, <2>2 DEF SameItem
<1> QED
  BY <1>1 DEF Covers

\* Two lists that are covered are covered together.
LEMMA CoversBoth ==
  ASSUME NEW k, NEW l, NEW m, Covers(k, l), Covers(k, m)
  PROVE  Covers(k, MergeItems(l, m))
BY DEF Covers, MergeItems

\* Choices stay editable with a list that covers the one they were made from.
LEMMA CoverKeeps ==
  ASSUME NEW c, NEW k, NEW l, StaysEditable(c, k), Covers(l, k)
  PROVE  StaysEditable(c, l)
<1>1. \A i \in k : \E j \in l : j.rule = i.rule /\ j.ref = i.ref
  BY DEF Covers, SameItem
<1>2. c.project # Unset => \E j \in l : j.rule \in {"P-PROJ-GONE", "P-PROJ-REQ"}
  BY <1>1 DEF StaysEditable
<1>3. c.task # Unset => \E j \in l : j.rule = "P-TASK-GONE"
  BY <1>1 DEF StaysEditable
<1>4. c.dropTags \cup c.addTags # {} =>
        \E j \in l : j.rule \in {"P-TAG-GONE", "P-TAG-ARCH", "P-TAG-REQ"}
  BY <1>1 DEF StaysEditable
<1>5. c.description # Unset => \E j \in l : j.rule = "P-DESC"
  BY <1>1 DEF StaysEditable
<1>6. \A f \in DOMAIN c.inputs : c.inputs[f] # Unset \/ f \in c.dropFields =>
        \E j \in l : j.rule \in {"P-CF-OPT", "P-CF-REQ"} /\ j.ref = f
  BY <1>1 DEF StaysEditable
<1> QED
  BY <1>2, <1>3, <1>4, <1>5, <1>6 DEF StaysEditable

\* An optional field is open only for a value of the deleted entry that is no longer allowed.
LEMMA OpenHasValues ==
  ASSUME slice \in Slices, NEW q, q.source = slice.source, q.ws \in slice.spaces
  PROVE  KeepsHaveValues(ActionRequired(q))
<1> SUFFICES ASSUME NEW i \in ActionRequired(q), i.rule = "P-CF-OPT"
             PROVE  Usable(slice.source.values[i.ref])
  BY DEF KeepsHaveValues
<1>1. i \in FieldItems(q)
  <2>1. i \notin TimerItems(q)
    BY DEF TimerItems, Item
  <2>2. i \notin ProjectItems(q)
    BY DEF ProjectItems, Item
  <2>3. i \notin TaskItems(q)
    BY DEF TaskItems, Item
  <2>4. i \notin TagItems(q)
    BY DEF TagItems, TagRule, Item
  <2>5. i \notin DescriptionItems(q)
    <3>1. DescriptionItems(q) \subseteq {Item("P-DESC", None, FALSE)}
      BY DEF DescriptionItems
    <3> QED
      BY <3>1 DEF Item
  <2> QED
    BY <2>1, <2>2, <2>3, <2>4, <2>5 DEF ActionRequired
<1>2. PICK f \in ActiveFields(q) : i = Item(FieldOpen(q, f), f, FALSE)
  BY <1>1 DEF FieldItems
<1>3. FieldOpen(q, f) = "P-CF-OPT" /\ i.ref = f
  BY <1>2 DEF Item
<1> DEFINE d == q.ws.fields[f]
           v == EffectiveValue(q, f)
<1>4. /\ Usable(v) /\ ~Entered(q, f) /\ ~AllOptionsAllowed(d, v)
  <2>1. None # "P-CF-OPT"
    BY NoneAssumption DEF FieldRules
  <2> QED
    BY <1>3, <2>1 DEF FieldOpen
<1>5. CASE ~Usable(q.source.values[f])
  <2>1. v = IF d.required /\ HasUsableDefault(d) THEN d.default ELSE None
    BY <1>4, <1>5 DEF EffectiveValue
  <2>2. v # None
    BY <1>4 DEF Usable
  <2> QED
    BY <1>4, <2>1, <2>2 DEF HasUsableDefault
<1> QED
  BY <1>3, <1>5

\* Merging keeps values to keep.
LEMMA MergeHasValues ==
  ASSUME NEW k, NEW l, KeepsHaveValues(k), KeepsHaveValues(l)
  PROVE  KeepsHaveValues(MergeItems(k, l))
BY DEF KeepsHaveValues, MergeItems

-----------------------------------------------------------------------------
(* The steps. *)

\* A check, whatever it answers: plan and screen ask for all the choices that were made.
LEMMA PreflightedKeeps ==
  ASSUME slice \in Slices, ws \in slice.spaces, old \in BOOLEAN, admin' \in BOOLEAN,
         plan \in Plan(slice) \cup {None},
         screen \in {"list", "detail", "failed", "confirm", "stale"},
         NEW c \in Choice(slice), NEW k \in SUBSET Items(slice), Held(c, k),
         plan # None => Held(plan.choices, plan.editable) /\ Covers(plan.editable, k),
         plan = None => k = {},
         screen = "detail" => plan # None,
         slice' = slice, choices' = c, Preflighted(c, k)
  PROVE  /\ known' \in SUBSET Items(slice) /\ plan' \in Plan(slice) \cup {None}
         /\ screen' \in {"detail", "failed"} /\ (screen' = "detail" => plan' # None)
         /\ Held(c, known')
         /\ plan' # None => Held(plan'.choices, plan'.editable) /\ Covers(plan'.editable, known')
         /\ plan' = None => known' = {}
<1> DEFINE p    == [choices |-> c, ws |-> ws, admin |-> admin', old |-> old]
           open == Outcome(p).open
           kept == IF plan = None THEN {} ELSE plan.editable
           next == [choices |-> c, ws |-> ws, admin |-> admin', old |-> old,
                    editable |-> MergeItems(open, kept)]
<1>1. CASE Admitted(c, ws, admin')
  <2>1. plan' = next /\ known' = MergeItems(k, open) /\ screen' = "detail"
    BY <1>1 DEF Preflighted
  <2>2. open \subseteq Items(slice) /\ KeepsHaveValues(open)
    <3> DEFINE q == PlanQuestion(p)
    <3>1. q.source = slice.source /\ q.ws = ws /\ q.choices = c
      BY DEF PlanQuestion, Question
    <3>2. open = ActionRequired(q)
      BY DEF Outcome, RunPreflight
    <3> HIDE DEF q, open
    <3> QED
      BY <3>1, <3>2, OpenTyped, OpenHasValues
  <2> HIDE DEF open
  <2>3. kept \subseteq Items(slice) /\ KeepsHaveValues(kept) /\ Covers(kept, k)
    BY DEF Plan, Held, KeepsHaveValues, Covers
  <2> HIDE DEF kept
  <2>4. known' \subseteq Items(slice) /\ MergeItems(open, kept) \subseteq Items(slice)
    BY <2>1, <2>2, <2>3, MergeTyped
  <2>5. next \in Plan(slice) /\ next # None
    BY <2>4, NoneAssumption DEF Plan
  <2>6. Held(c, known')
    <3>1. KeepsHaveValues(known')
      BY <2>1, <2>2, MergeHasValues DEF Held
    <3>2. Covers(known', k)
      BY <2>1, MergeCovers DEF Covers, SameItem
    <3> QED
      BY <3>1, <3>2, CoverKeeps DEF Held
  <2>7. Covers(next.editable, k) /\ Covers(next.editable, open)
    <3>1. Covers(MergeItems(open, kept), kept)
      BY MergeCovers
    <3>2. Covers(MergeItems(open, kept), open)
      BY MergeCovers DEF Covers, SameItem
    <3> QED
      BY <2>3, <3>1, <3>2, CoversThrough
  <2>8. Held(next.choices, next.editable)
    <3>1. KeepsHaveValues(next.editable)
      BY <2>2, <2>3, MergeHasValues
    <3> QED
      BY <2>7, <3>1, CoverKeeps DEF Held
  <2>9. Covers(next.editable, known')
    BY <2>1, <2>7, CoversBoth
  <2> QED
    BY <2>1, <2>4, <2>5, <2>6, <2>8, <2>9
<1>2. CASE ~Admitted(c, ws, admin')
  <2>1. /\ known' = k /\ plan' = plan
        /\ screen' = IF screen = "detail" THEN "detail" ELSE "failed"
    BY <1>2 DEF Preflighted
  <2> QED
    BY <2>1
<1> QED
  BY <1>1, <1>2

\* The plan a confirmation computes again asks for what the stored one did, and more.
LEMMA RefreshedKeeps ==
  ASSUME slice \in Slices, ws \in slice.spaces, old \in BOOLEAN, admin \in BOOLEAN,
         plan \in Plan(slice), known \in SUBSET Items(slice),
         Held(plan.choices, plan.editable), Covers(plan.editable, known),
         NEW next, next = [Revalidated(plan) EXCEPT
                             !.editable = MergeItems(Outcome(Revalidated(plan)).open, plan.editable)]
  PROVE  /\ next \in Plan(slice) /\ next # None
         /\ Held(next.choices, next.editable) /\ Covers(next.editable, known)
<1> DEFINE fresh == Revalidated(plan)
           open  == Outcome(fresh).open
           kept  == plan.editable
<1>1. fresh \in Plan(slice) /\ fresh.choices = plan.choices
  BY DEF Revalidated, Plan
<1>2. open \subseteq Items(slice) /\ KeepsHaveValues(open)
  BY <1>1, PlanAsks, OpenTyped, OpenHasValues
<1>3. next = [fresh EXCEPT !.editable = MergeItems(open, kept)]
  OBVIOUS
<1> HIDE DEF fresh, open
<1>4. kept \subseteq Items(slice)
  BY DEF Plan
<1>5. MergeItems(open, kept) \subseteq Items(slice)
  BY <1>2, <1>4, MergeTyped
<1>6. /\ next \in Plan(slice) /\ next.choices = plan.choices
      /\ next.editable = MergeItems(open, kept)
  BY <1>1, <1>3, <1>5 DEF Plan
<1>7. Covers(next.editable, kept)
  BY <1>6, MergeCovers
<1>8. StaysEditable(next.choices, next.editable) /\ Covers(next.editable, known)
  BY <1>6, <1>7, CoverKeeps, CoversThrough DEF Held
<1>9. KeepsHaveValues(next.editable)
  BY <1>2, <1>6, MergeHasValues DEF Held
<1> QED
  BY <1>6, <1>8, <1>9, NoneAssumption DEF Held

\* A plan that tells nothing new is as settled as the one that was confirmed.
LEMMA StillSettled ==
  ASSUME NEW p, NEW fresh, CanConfirm(p), ~OutcomesDiffer(p, fresh)
  PROVE  CanConfirm(fresh)
<1>1. [Outcome(p) EXCEPT !.fidelity = {}] = [Outcome(fresh) EXCEPT !.fidelity = {}]
  BY DEF OutcomesDiffer
<1>2. /\ Outcome(p).blockers = Outcome(fresh).blockers
      /\ Outcome(p).open = Outcome(fresh).open
  BY <1>1 DEF Outcome, RunPreflight
<1> QED
  BY <1>2 DEF CanConfirm

\* No choices are made before an entry is opened.
LEMMA NothingChosen ==
  ASSUME NEW k, KeepsHaveValues(k)
  PROVE  Held(NoChoices, k)
BY UnsetAssumption DEF Held, StaysEditable, ParsesChoices, NoChoices

\* The first state.
LEMMA InitResolution == Init => ResolutionInv
<1> SUFFICES ASSUME Init
             PROVE  ResolutionInv
  OBVIOUS
<1>1. slice \in Slices /\ ws \in slice.spaces
  BY DEF Init
<1>2. TypeOK
  BY <1>1, NoChoicesTyped, SlicesAssumption, MaxChangesAssumption DEF Init, TypeOK
<1>3. Held(choices, known)
  BY NothingChosen DEF Init, KeepsHaveValues
<1> QED
  BY <1>2, <1>3 DEF Init, ResolutionInv, PlanKeepsItems, ConfirmedIsSettled, ScreenAsks

\* The steps that run a check: the choices they check are held by the items they check with.
LEMMA CheckingStep ==
  ASSUME ResolutionInv, NEW c \in Choice(slice), NEW k \in SUBSET Items(slice), Held(c, k),
         plan # None => Covers(plan.editable, k), plan = None => k = {},
         admin' \in BOOLEAN, choices' = c, Preflighted(c, k),
         screen = "detail" => k = known /\ admin' = admin,
         UNCHANGED <<slice, ws, changes, old, sent>>
  PROVE  ResolutionInv'
<1>1. /\ slice \in Slices /\ ws \in slice.spaces /\ old \in BOOLEAN
      /\ plan \in Plan(slice) \cup {None}
      /\ screen \in {"list", "detail", "failed", "confirm", "stale"}
  BY DEF ResolutionInv, TypeOK
<1>2. /\ plan # None => Held(plan.choices, plan.editable) /\ Covers(plan.editable, k)
      /\ screen = "detail" => plan # None
  BY DEF ResolutionInv, PlanKeepsItems, ConfirmedIsSettled
<1>3. /\ known' \in SUBSET Items(slice) /\ plan' \in Plan(slice) \cup {None}
      /\ screen' \in {"detail", "failed"} /\ (screen' = "detail" => plan' # None)
      /\ Held(c, known')
      /\ plan' # None => Held(plan'.choices, plan'.editable) /\ Covers(plan'.editable, known')
      /\ plan' = None => known' = {}
  BY <1>1, <1>2, PreflightedKeeps
<1>4. TypeOK'
  BY <1>1, <1>3 DEF ResolutionInv, TypeOK
<1>5. Held(choices, known)' /\ PlanKeepsItems'
  BY <1>3 DEF PlanKeepsItems, Held, StaysEditable, KeepsHaveValues, Covers
<1>6. ConfirmedIsSettled'
  BY <1>3 DEF ResolutionInv, ConfirmedIsSettled, CanConfirm, Outcome, PlanQuestion, Question
<1>7. ScreenAsks'
  <2>1. CASE Admitted(c, ws, admin')
    <3> DEFINE p    == [choices |-> c, ws |-> ws, admin |-> admin', old |-> old]
               open == Outcome(p).open
    <3>1. /\ plan'.choices = c /\ plan'.ws = ws /\ plan'.admin = admin' /\ plan'.old = old
          /\ known' = MergeItems(k, open)
      BY <2>1 DEF Preflighted
    <3>2. (Outcome(plan).open)' = open
      BY <3>1 DEF Outcome, PlanQuestion, Question
    <3>3. Covers(MergeItems(k, open), open)
      BY MergeCovers
    <3> HIDE DEF open
    <3> QED
      BY <2>1, <3>1, <3>2, <3>3 DEF ScreenAsks, Covers, Admitted, ParsesChoices, Accessible
  <2>2. CASE ~Admitted(c, ws, admin')
    <3>1. plan' = plan /\ known' = k /\ (screen' = "detail" => screen = "detail")
      BY <2>2 DEF Preflighted
    <3> QED
      BY <3>1 DEF ResolutionInv, ScreenAsks, Covers, Admitted, ParsesChoices, Accessible, Outcome,
                  PlanQuestion, Question
  <2> QED
    BY <2>1, <2>2
<1> QED
  BY <1>4, <1>5, <1>6, <1>7 DEF ResolutionInv

\* renderDetail starts from the stored plan, whose choices its own items hold.
LEMMA OpenKeeps == ResolutionInv /\ Open => ResolutionInv'
<1> SUFFICES ASSUME ResolutionInv, Open
             PROVE  ResolutionInv'
  OBVIOUS
<1> DEFINE c == IF plan = None THEN NoChoices ELSE plan.choices
           k == IF plan = None THEN {} ELSE plan.editable
<1>1. slice \in Slices /\ plan \in Plan(slice) \cup {None}
  BY DEF ResolutionInv, TypeOK
<1>2. admin' \in BOOLEAN
  BY <1>1, SlicesAssumption DEF Open
<1>3. c \in Choice(slice) /\ k \in SUBSET Items(slice)
  BY <1>1, NoChoicesTyped DEF Plan
<1>4. Held(c, k)
  BY NothingChosen DEF ResolutionInv, PlanKeepsItems, KeepsHaveValues
<1>5. plan # None => Covers(plan.editable, k)
  BY DEF Covers, SameItem
<1>6. choices' = c /\ Preflighted(c, k) /\ UNCHANGED <<slice, ws, changes, old, sent>>
  BY DEF Open
<1>7. plan = None => k = {}
  OBVIOUS
<1>8. screen # "detail"
  BY DEF Open
<1> HIDE DEF c, k
<1> QED
  BY <1>2, <1>3, <1>4, <1>5, <1>6, <1>7, <1>8, CheckingStep

\* A check of what is on screen.
LEMMA RecheckKeeps ==
  ASSUME ResolutionInv, UNCHANGED <<admin, choices, slice, ws, changes, old, sent>>,
         Preflighted(choices, known)
  PROVE  ResolutionInv'
<1>1. /\ choices \in Choice(slice) /\ known \in SUBSET Items(slice) /\ admin' \in BOOLEAN
      /\ Held(choices, known) /\ choices' = choices
      /\ plan # None => Covers(plan.editable, known)
      /\ plan = None => known = {}
  BY DEF ResolutionInv, TypeOK, PlanKeepsItems
<1> QED
  BY <1>1, CheckingStep

\* A choice is one a control of the screen offers, of the plan's workspace or of the present one.
LEMMA ChooseKeeps == ResolutionInv /\ Choose => ResolutionInv'
<1> SUFFICES ASSUME ResolutionInv, Choose
             PROVE  ResolutionInv'
  OBVIOUS
<1>1. /\ slice \in Slices /\ choices \in Choice(slice) /\ known \in SUBSET Items(slice)
      /\ Held(choices, known) /\ admin' \in BOOLEAN
      /\ plan # None => Covers(plan.editable, known)
      /\ plan = None => known = {}
  BY DEF ResolutionInv, TypeOK, PlanKeepsItems, Choose
<1>2. PICK w \in {plan.ws, ws} : choices' \in Controls(choices, known, w)
  BY DEF Choose
<1>3. w \in slice.spaces
  <2>1. plan \in Plan(slice)
    BY DEF ResolutionInv, TypeOK, ConfirmedIsSettled, Choose
  <2> QED
    BY <1>2, <2>1 DEF Plan, ResolutionInv, TypeOK
<1>4. choices' \in Choice(slice) /\ Held(choices', known)
  BY <1>1, <1>2, <1>3, ControlsKeep
<1> DEFINE c == choices'
<1>5. Preflighted(c, known) /\ UNCHANGED <<slice, ws, changes, old, admin, sent>>
  BY DEF Choose
<1> QED
  BY <1>1, <1>4, <1>5, CheckingStep

\* The revalidation stores a new plan, or sends the confirmed one with nothing open.
LEMMA ConfirmKeeps == ResolutionInv /\ Confirm => ResolutionInv'
<1> SUFFICES ASSUME ResolutionInv, Confirm
             PROVE  ResolutionInv'
  OBVIOUS
<1> DEFINE fresh == Revalidated(plan)
           next  == [fresh EXCEPT !.editable = MergeItems(Outcome(fresh).open, plan.editable)]
<1>1. /\ slice \in Slices /\ ws \in slice.spaces /\ old \in BOOLEAN /\ admin \in BOOLEAN
      /\ known \in SUBSET Items(slice) /\ plan \in Plan(slice)
      /\ Held(choices, known) /\ Held(plan.choices, plan.editable)
      /\ Covers(plan.editable, known) /\ plan # None /\ CanConfirm(plan)
  BY DEF ResolutionInv, TypeOK, PlanKeepsItems, ConfirmedIsSettled, Confirm
<1>2. UNCHANGED <<slice, ws, changes, old, admin, choices, known>>
  BY DEF Confirm
<1>3. CASE OutcomesDiffer(plan, fresh)
  <2>1. plan' = next /\ screen' = "stale" /\ sent' = None
    BY <1>3 DEF Confirm
  <2>2. /\ next \in Plan(slice) /\ next # None
        /\ Held(next.choices, next.editable) /\ Covers(next.editable, known)
    BY <1>1, RefreshedKeeps
  <2> HIDE DEF next
  <2>3. TypeOK'
    BY <1>2, <2>1, <2>2 DEF ResolutionInv, TypeOK
  <2>4. Held(choices, known)' /\ PlanKeepsItems'
    BY <1>1, <1>2, <2>1, <2>2
       DEF PlanKeepsItems, Held, StaysEditable, KeepsHaveValues, Covers
  <2> QED
    BY <2>1, <2>2, <2>3, <2>4 DEF ResolutionInv, ConfirmedIsSettled, ScreenAsks
<1>4. CASE ~OutcomesDiffer(plan, fresh)
  <2>1. sent' = fresh /\ UNCHANGED <<plan, screen>>
    BY <1>4 DEF Confirm
  <2>2. fresh \in Plan(slice) /\ CanConfirm(fresh)
    BY <1>1, <1>4, StillSettled DEF Revalidated, Plan
  <2> HIDE DEF fresh
  <2>3. TypeOK'
    BY <1>2, <2>1, <2>2 DEF ResolutionInv, TypeOK
  <2>4. Held(choices, known)' /\ PlanKeepsItems'
    BY <1>1, <1>2, <2>1
       DEF ResolutionInv, PlanKeepsItems, Held, StaysEditable, KeepsHaveValues, Covers
  <2>5. ConfirmedIsSettled'
    BY <1>1, <1>2, <2>1, <2>2
       DEF ResolutionInv, ConfirmedIsSettled, CanConfirm, Outcome, PlanQuestion, Question
  <2>6. screen' # "detail"
    BY <2>1 DEF Confirm
  <2> QED
    BY <2>3, <2>4, <2>5, <2>6 DEF ResolutionInv, ScreenAsks
<1> QED
  BY <1>3, <1>4

\* The steps that leave the plan, the items and the choices alone, or drop the latter two.
LEMMA QuietKeeps ==
  ResolutionInv /\ (Leave \/ Continue \/ WorkspaceChanges \/ EntryAges \/ UNCHANGED vars)
    => ResolutionInv'
<1> SUFFICES ASSUME ResolutionInv,
                    Leave \/ Continue \/ WorkspaceChanges \/ EntryAges \/ UNCHANGED vars
             PROVE  ResolutionInv'
  OBVIOUS
<1>1. UNCHANGED <<slice, plan, sent>>
  BY DEF Leave, Continue, WorkspaceChanges, EntryAges, vars
<1>2. UNCHANGED <<choices, known>> \/ (choices' = NoChoices /\ known' = {})
  BY DEF Leave, Continue, WorkspaceChanges, EntryAges, vars
<1>3. \/ screen' = screen \/ screen' = "list"
      \/ screen' = "confirm" /\ screen = "detail" /\ CanConfirm(plan)
  BY DEF Leave, Continue, WorkspaceChanges, EntryAges, vars
<1>4. TypeOK'
  <2>1. changes' = changes \/ (changes < MaxChanges /\ changes' = changes + 1)
    BY DEF Leave, Continue, WorkspaceChanges, EntryAges, vars
  <2>2. /\ ws' \in slice.spaces /\ old' \in BOOLEAN
        /\ changes' \in 0 .. MaxChanges
    <3>1. ws' = ws \/ ws' \in slice.spaces
      BY DEF Leave, Continue, WorkspaceChanges, EntryAges, vars
    <3>2. old' = old \/ old' = TRUE
      BY DEF Leave, Continue, WorkspaceChanges, EntryAges, vars
    <3>3. ws \in slice.spaces /\ old \in BOOLEAN /\ changes \in 0 .. MaxChanges
      BY DEF ResolutionInv, TypeOK
    <3>4. changes' \in 0 .. MaxChanges
      BY <2>1, <3>3, MaxChangesAssumption
    <3> QED
      BY <3>1, <3>2, <3>3, <3>4
  <2>3. admin' = admin
    BY DEF Leave, Continue, WorkspaceChanges, EntryAges, vars
  <2>4. choices' \in Choice(slice) /\ known' \in SUBSET Items(slice)
    BY <1>2, NoChoicesTyped DEF ResolutionInv, TypeOK
  <2> QED
    BY <1>1, <1>3, <2>2, <2>3, <2>4 DEF ResolutionInv, TypeOK
<1>5. Held(choices', known')
  BY <1>2, NothingChosen DEF ResolutionInv, KeepsHaveValues
<1>6. Held(choices, known)'
  BY <1>1, <1>5 DEF Held, StaysEditable, KeepsHaveValues
<1>7. PlanKeepsItems'
  BY <1>1, <1>2 DEF ResolutionInv, PlanKeepsItems, Held, StaysEditable, KeepsHaveValues, Covers
<1>8. ConfirmedIsSettled'
  BY <1>1, <1>3
     DEF ResolutionInv, ConfirmedIsSettled, CanConfirm, Outcome, PlanQuestion, Question
<1>9. ScreenAsks'
  <2>1. screen' = "detail" => UNCHANGED <<slice, admin, plan, known, screen>>
    BY DEF Leave, Continue, WorkspaceChanges, EntryAges, vars
  <2> QED
    BY <2>1 DEF ResolutionInv, ScreenAsks, Covers, Admitted, ParsesChoices, Accessible, Outcome,
                PlanQuestion, Question
<1> QED
  BY <1>4, <1>6, <1>7, <1>8, <1>9 DEF ResolutionInv

\* Every state: what the screen and the stored plan hold fits together.
THEOREM Invariance == Spec => []ResolutionInv
<1>1. ResolutionInv /\ [Next]_vars => ResolutionInv'
  <2> SUFFICES ASSUME ResolutionInv, [Next]_vars
               PROVE  ResolutionInv'
    OBVIOUS
  <2>1. CASE Open
    BY <2>1, OpenKeeps
  <2>2. CASE Choose
    BY <2>2, ChooseKeeps
  <2>3. CASE Recheck \/ Back
    BY <2>3, RecheckKeeps DEF Recheck, Back
  <2>4. CASE Confirm
    BY <2>4, ConfirmKeeps
  <2>5. CASE Leave \/ Continue \/ WorkspaceChanges \/ EntryAges \/ UNCHANGED vars
    BY <2>5, QuietKeeps
  <2> QED
    BY <2>1, <2>2, <2>3, <2>4, <2>5 DEF Next
<1> QED
  BY InitResolution, <1>1, PTL DEF Spec

-----------------------------------------------------------------------------
(* What follows for the one entry on screen. *)

\* Choices and plans are made of the references of the entry and of its workspaces.
THEOREM TypeCorrect == Spec => []TypeOK
<1>1. ResolutionInv => TypeOK
  BY DEF ResolutionInv
<1> QED
  BY <1>1, Invariance, PTL

\* A choice is never stranded: the server accepts what the component holds, and the rule whose
\* widget made a choice has an item on screen.
THEOREM ChoicesEditable == Spec => []ChoicesStayEditable
<1>1. ResolutionInv => ChoicesStayEditable
  BY DEF ResolutionInv, Held, ChoicesStayEditable
<1> QED
  BY <1>1, Invariance, PTL

\* A plan that was sent is settled for the workspace that was just read.
LEMMA SentIsSettled ==
  ASSUME ResolutionInv, sent # None
  PROVE  /\ slice \in Slices /\ sent \in Plan(slice)
         /\ Settled(slice, PlanQuestion(sent))
<1>1. slice \in Slices /\ sent \in Plan(slice) /\ CanConfirm(sent)
  BY DEF ResolutionInv, TypeOK, ConfirmedIsSettled
<1> QED
  BY <1>1, PlanAsks DEF Settled, CanConfirm

\* The workspace that was read for the revalidation takes the request of the plan.
THEOREM SentIsTaken == Spec => []SentIsAccepted
<1>1. ResolutionInv => SentIsAccepted
  BY SentIsSettled, SettledIsAccepted, PlanAsks DEF SentIsAccepted
<1> QED
  BY <1>1, Invariance, PTL

\* A plan labelled FULL creates an entry with the deleted entry's values.
THEOREM FullIsTheSame == Spec => []FullMeansSame
<1>1. ResolutionInv => FullMeansSame
  BY SentIsSettled, FullCreatesTheSame DEF FullMeansSame
<1> QED
  BY <1>1, Invariance, PTL

-----------------------------------------------------------------------------
(* A way out of every item the plan on screen asks for. *)

\* Each rule has items of its own.
LEMMA ItemRules ==
  ASSUME NEW q
  PROVE  /\ \A i \in TimerItems(q) : i.rule \in {"P-RUN", "P-RUN-END"}
         /\ \A i \in ProjectItems(q) : i.rule \in {"P-PROJ-REQ", "P-PROJ-GONE"}
         /\ \A i \in TaskItems(q) : i.rule = "P-TASK-GONE"
         /\ \A i \in TagItems(q) : i.rule \in {"P-TAG-GONE", "P-TAG-ARCH", "P-TAG-REQ"}
         /\ \A i \in DescriptionItems(q) : i.rule = "P-DESC"
         /\ \A i \in FieldItems(q) : i.rule \in {"P-CF-REQ", "P-CF-OPT"}
<1>1. \A i \in TimerItems(q) : i.rule \in {"P-RUN", "P-RUN-END"}
  <2>1. \A i \in TimerItems(q) :
          i \in {Item("P-RUN", None, FALSE), Item("P-RUN-END", None, FALSE)}
    BY Zenon DEF TimerItems
  <2> QED
    BY <2>1 DEF Item
<1>2. \A i \in ProjectItems(q) : i.rule \in {"P-PROJ-REQ", "P-PROJ-GONE"}
  BY DEF ProjectItems, Item
<1>3. \A i \in TaskItems(q) : i.rule = "P-TASK-GONE"
  BY DEF TaskItems, Item
<1>4. \A i \in TagItems(q) : i.rule \in {"P-TAG-GONE", "P-TAG-ARCH", "P-TAG-REQ"}
  BY DEF TagItems, TagRule, Item
<1>5. \A i \in DescriptionItems(q) : i.rule = "P-DESC"
  <2>1. DescriptionItems(q) \subseteq {Item("P-DESC", None, FALSE)}
    BY DEF DescriptionItems
  <2> QED
    BY <2>1 DEF Item
<1>6. \A i \in FieldItems(q) : i.rule \in {"P-CF-REQ", "P-CF-OPT"}
  <2>1. \A f : FieldOpen(q, f) # None => FieldOpen(q, f) \in {"P-CF-REQ", "P-CF-OPT"}
    BY DEF FieldOpen
  <2> QED
    BY <2>1 DEF FieldItems, Item
<1> QED
  BY <1>1, <1>2, <1>3, <1>4, <1>5, <1>6

\* So an item of a plan is an item of the rule it names.
LEMMA ItemOfRule ==
  ASSUME NEW q, NEW i \in ActionRequired(q)
  PROVE  /\ i.rule \in {"P-RUN", "P-RUN-END"} => i \in TimerItems(q)
         /\ i.rule \in {"P-PROJ-REQ", "P-PROJ-GONE"} => i \in ProjectItems(q)
         /\ i.rule = "P-TASK-GONE" => i \in TaskItems(q)
         /\ i.rule \in {"P-TAG-GONE", "P-TAG-ARCH", "P-TAG-REQ"} => i \in TagItems(q)
         /\ i.rule = "P-DESC" => i \in DescriptionItems(q)
         /\ i.rule \in {"P-CF-REQ", "P-CF-OPT"} => i \in FieldItems(q)
         /\ i.rule \in {"P-RUN", "P-RUN-END", "P-PROJ-REQ", "P-PROJ-GONE", "P-TASK-GONE",
                        "P-TAG-GONE", "P-TAG-ARCH", "P-TAG-REQ", "P-DESC", "P-CF-REQ", "P-CF-OPT"}
<1>1. \/ i \in TimerItems(q) \/ i \in ProjectItems(q) \/ i \in TaskItems(q)
      \/ i \in TagItems(q) \/ i \in DescriptionItems(q) \/ i \in FieldItems(q)
  BY DEF ActionRequired
<1> QED
  BY <1>1, ItemRules

\* The question a choice c on screen asks, of the workspace its plan was read from.
Asked(c) == Question(c, plan.ws, admin, plan.old)

\* What is known of a screen whose plan is that of its choices.
LEMMA OnScreen ==
  ASSUME ResolutionInv, PlanOnScreen
  PROVE  /\ slice \in Slices /\ plan.ws \in slice.spaces
         /\ choices \in Choice(slice) /\ known \in SUBSET Items(slice) /\ Held(choices, known)
         /\ PlanQuestion(plan) = Asked(choices)
         /\ Outcome(plan).open = ActionRequired(Asked(choices))
         /\ \A i \in Outcome(plan).open : \E j \in known : SameItem(i, j)
         /\ Admitted(choices, plan.ws, admin)
<1>1. /\ slice \in Slices /\ choices \in Choice(slice) /\ known \in SUBSET Items(slice)
      /\ Held(choices, known) /\ plan \in Plan(slice) /\ plan.choices = choices
      /\ plan.admin = admin /\ Admitted(choices, plan.ws, admin)
      /\ \A i \in Outcome(plan).open : \E j \in known : SameItem(i, j)
  BY DEF ResolutionInv, TypeOK, ConfirmedIsSettled, ScreenAsks, PlanOnScreen, Covers
<1>2. PlanQuestion(plan) = Asked(choices)
  BY <1>1 DEF PlanQuestion, Asked
<1>3. plan.ws \in slice.spaces /\ Outcome(plan).open = ActionRequired(PlanQuestion(plan))
  BY <1>1, PlanAsks
<1> QED
  BY <1>1, <1>2, <1>3

\* A use of a control is accepted by the server; what it asks for no more, it closes.
LEMMA UseCloses ==
  ASSUME ResolutionInv, PlanOnScreen, NEW i, NEW d \in Controls(choices, known, plan.ws),
         d.project = choices.project \/ d.project \in Accessible(plan.ws, admin),
         i \notin ActionRequired(Asked(d))
  PROVE  Closes(i)
<1>1. ParsesChoices(d)
  BY OnScreen, ControlsKeep DEF Held, StaysEditable
<1>2. Admitted(d, plan.ws, admin)
  BY <1>1, OnScreen DEF Admitted
<1> QED
  BY <1>2 DEF Closes, Asked


\* The timer: start it again, or type an end after the start.
LEMMA TimerCloses ==
  ASSUME ResolutionInv, PlanOnScreen, NEW i \in Outcome(plan).open,
         i.rule \in {"P-RUN", "P-RUN-END"}
  PROVE  Closes(i)
<1> DEFINE q == Asked(choices)
<1>1. i \in TimerItems(q) /\ q.source = slice.source /\ q.choices = choices /\ known # {}
  BY OnScreen, ItemOfRule DEF Asked, Question
<1>2. slice.source.running
  BY <1>1 DEF TimerItems
<1>3. \A d \in TimerControls(choices, known, plan.ws) :
        d \in Controls(choices, known, plan.ws)
  BY <1>1 DEF Controls
<1>4. choices.mode \in {"running", "completed", Unset} /\ choices \in Choice(slice)
  BY OnScreen DEF Choice
<1>5. CASE choices.mode = "completed"
  <2>1. PICK e \in Ends : e > 0
    BY TypedAssumption
  <2> DEFINE d == [choices EXCEPT !.end = e]
  <2>2. d \in TimerControls(choices, known, plan.ws)
    BY <1>2, <1>5 DEF TimerControls
  <2>3. d.mode = "completed" /\ d.end = e /\ d.project = choices.project
    BY <1>4, <1>5 DEF Choice
  <2> HIDE DEF d
  <2>4. TimerItems(Asked(d)) = {}
    <3>1. IsEndAfterStart(d.end) /\ d.mode # Unset
      BY <2>1, <2>3, TypedAssumption DEF IsEndAfterStart
    <3>2. Asked(d).choices = d
      BY DEF Asked, Question
    <3> QED
      BY <3>1, <3>2, Zenon DEF TimerItems
  <2>5. i \notin ActionRequired(Asked(d))
    BY <2>4, ItemOfRule
  <2> QED
    BY <1>3, <2>2, <2>3, <2>5, UseCloses
<1>6. CASE choices.mode # "completed"
  <2> DEFINE d == [choices EXCEPT !.mode = "running", !.end = Unset]
  <2>1. d \in TimerControls(choices, known, plan.ws)
    BY <1>2 DEF TimerControls
  <2>2. d.mode = "running" /\ d.project = choices.project
    BY <1>4 DEF Choice
  <2> HIDE DEF d
  <2>3. TimerItems(Asked(d)) = {}
    <3>1. d.mode # Unset /\ d.mode # "completed"
      BY <2>2, TypedAssumption
    <3>2. Asked(d).choices = d
      BY DEF Asked, Question
    <3> QED
      BY <3>1, <3>2, Zenon DEF TimerItems
  <2>4. i \notin ActionRequired(Asked(d))
    BY <2>3, ItemOfRule
  <2> QED
    BY <1>3, <2>1, <2>2, <2>4, UseCloses
<1> QED
  BY <1>5, <1>6

\* The project: any one the viewer can see.
LEMMA ProjectCloses ==
  ASSUME ResolutionInv, PlanOnScreen, NEW i \in Outcome(plan).open, Answerable(i),
         i.rule \in {"P-PROJ-GONE", "P-PROJ-REQ"}
  PROVE  Closes(i)
<1>1. PICK p \in Accessible(plan.ws, admin) : TRUE
  BY DEF Answerable
<1>2. p \in plan.ws.projects /\ p # None /\ p # Unset
  BY <1>1, OnScreen, SlicesAssumption DEF Accessible
<1> DEFINE d == [choices EXCEPT !.project = p, !.task = Unset]
<1>3. d \in Controls(choices, known, plan.ws)
  <2>1. PICK j \in known : j.rule = i.rule
    BY OnScreen DEF SameItem
  <2>2. j \in Shown(known, "P-PROJ-GONE") \cup Shown(known, "P-PROJ-REQ")
    BY <2>1 DEF Shown
  <2>3. d \in ProjectControls(choices, known, plan.ws)
    BY <1>1, <2>2 DEF ProjectControls
  <2> QED
    BY <2>1, <2>3 DEF Controls
<1>4. d.project = p
  BY OnScreen DEF Choice
<1> HIDE DEF d
<1>5. ProjectItems(Asked(d)) = {}
  <2>1. EffectiveProject(Asked(d)) = p /\ Asked(d).ws = plan.ws
    BY <1>2, <1>4 DEF EffectiveProject, Asked, Question
  <2> QED
    BY <1>2, <2>1 DEF ProjectItems, ProjectFound
<1>6. i \notin ActionRequired(Asked(d))
  BY <1>5, ItemOfRule
<1> QED
  BY <1>1, <1>3, <1>4, <1>6, UseCloses

\* The task: one of the project, or none where none is needed.
LEMMA TaskCloses ==
  ASSUME ResolutionInv, PlanOnScreen, NEW i \in Outcome(plan).open, Answerable(i),
         i.rule = "P-TASK-GONE", EffectiveProject(PlanQuestion(plan)) # None
  PROVE  Closes(i)
<1> DEFINE q == Asked(choices)
           P == EffectiveProject(q)
<1>1. /\ q.ws = plan.ws /\ q.source = slice.source /\ q.choices = choices
      /\ PlanQuestion(plan) = q /\ P # None /\ known # {}
  BY OnScreen DEF Asked, Question
<1>2. ProjectFound(q)
  <2>1. Shown(ActionRequired(q), "P-PROJ-GONE") = {}
    BY <1>1 DEF Answerable
  <2>2. Item("P-PROJ-GONE", None, ~q.ws.forceProjects) \notin ActionRequired(q)
    BY <2>1 DEF Shown, Item
  <2> QED
    BY <1>1, <2>2 DEF ProjectItems, ActionRequired
<1>3. PlanProject = P /\ P \in plan.ws.projects
  BY <1>1, <1>2 DEF PlanProject, ProjectFound
<1>4. PICK j \in known : j.rule = "P-TASK-GONE"
  BY OnScreen DEF SameItem
<1>5. Shown(known, "P-TASK-GONE") # {}
  BY <1>4 DEF Shown
<1>6. \A d \in TaskControls(choices, known, plan.ws) : d \in Controls(choices, known, plan.ws)
  BY <1>4 DEF Controls
<1>7. CASE P \in Accessible(plan.ws, admin) /\ \E r \in plan.ws.tasks : r[1] = P
  <2>1. PICK r \in plan.ws.tasks : r[1] = P
    BY <1>7
  <2> DEFINE t == r[2]
             d == [choices EXCEPT !.task = t]
  <2>2. <<P, t>> \in plan.ws.tasks /\ t # None /\ t # Unset
    BY <2>1, OnScreen, SlicesAssumption
  <2>3. d \in TaskControls(choices, known, plan.ws)
    BY <1>1, <1>3, <1>5, <1>7, <2>1 DEF TaskControls
  <2>4. d.task = t /\ d.project = choices.project
    BY OnScreen DEF Choice
  <2> HIDE DEF d
  <2>5. ~TaskOpen(Asked(d))
    <3>1. /\ Asked(d).choices = d /\ Asked(d).source = slice.source /\ Asked(d).ws = plan.ws
      BY DEF Asked, Question
    <3>2. EffectiveProject(Asked(d)) = P
      BY <1>1, <2>4, <3>1 DEF EffectiveProject
    <3>3. EffectiveTask(Asked(d)) = t
      BY <2>2, <2>4, <3>1 DEF EffectiveTask
    <3>4. TaskFound(Asked(d))
      BY <1>3, <2>2, <3>1, <3>2, <3>3 DEF TaskFound, ProjectFound
    <3> QED
      BY <2>2, <2>4, <3>1, <3>4 DEF TaskOpen
  <2>6. i \notin ActionRequired(Asked(d))
    BY <2>5, ItemOfRule DEF TaskItems
  <2> QED
    BY <1>6, <2>3, <2>4, <2>6, UseCloses
<1>8. CASE i.removable /\ \E h \in known : SameItem(i, h) /\ h.removable
  <2> DEFINE d == [choices EXCEPT !.task = None]
  <2>1. \E h \in Shown(known, "P-TASK-GONE") : h.removable
    BY <1>8 DEF Shown, SameItem
  <2>2. d \in TaskControls(choices, known, plan.ws)
    BY <1>1, <1>3, <1>5, <2>1 DEF TaskControls
  <2>3. d.task = None /\ d.project = choices.project
    BY OnScreen DEF Choice
  <2>4. ~q.ws.forceTasks
    <3>1. i \in TaskItems(q)
      BY OnScreen, ItemOfRule
    <3>2. i = Item("P-TASK-GONE", None, ~q.ws.forceTasks)
      BY <3>1 DEF TaskItems
    <3>3. i.removable = ~q.ws.forceTasks
      BY <3>2 DEF Item
    <3>4. i.removable
      BY <1>8
    <3> HIDE DEF q
    <3> QED
      BY <3>3, <3>4, Zenon
  <2> HIDE DEF d
  <2>5. ~TaskOpen(Asked(d))
    <3>1. /\ Asked(d).choices = d /\ Asked(d).source = slice.source /\ Asked(d).ws = plan.ws
      BY DEF Asked, Question
    <3>2. EffectiveTask(Asked(d)) = None
      BY <2>3, <3>1, UnsetAssumption DEF EffectiveTask
    <3> QED
      BY <1>1, <2>3, <2>4, <3>1, <3>2, UnsetAssumption DEF TaskOpen
  <2>6. i \notin ActionRequired(Asked(d))
    BY <2>5, ItemOfRule DEF TaskItems
  <2> QED
    BY <1>6, <2>2, <2>3, <2>6, UseCloses
<1> QED
  BY <1>1, <1>7, <1>8 DEF Answerable

\* The tags: drop or keep out the one that is gone, or add one where one is required.
LEMMA TagsClose ==
  ASSUME ResolutionInv, PlanOnScreen, NEW i \in Outcome(plan).open, Answerable(i),
         i.rule \in {"P-TAG-GONE", "P-TAG-ARCH", "P-TAG-REQ"}
  PROVE  Closes(i)
<1> DEFINE q == Asked(choices)
<1>1. /\ i \in TagItems(q) /\ q.ws = plan.ws /\ q.source = slice.source
      /\ q.choices = choices /\ choices \in Choice(slice)
  BY OnScreen, ItemOfRule DEF Asked, Question
<1>2. \A d \in TagControls(choices, known, plan.ws) : d \in Controls(choices, known, plan.ws)
  <2>1. known # {}
    BY OnScreen
  <2> QED
    BY <2>1 DEF Controls
<1>3. ASSUME NEW d
      PROVE  Asked(d).ws = plan.ws /\ Asked(d).source = slice.source /\ Asked(d).choices = d
  BY DEF Asked, Question
<1>4. CASE i.rule = "P-TAG-REQ"
  <2> DEFINE d == [choices EXCEPT !.addTags = plan.ws.tags]
  <2>1. plan.ws.tags # {}
    BY <1>4 DEF Answerable
  <2>2. d \in TagControls(choices, known, plan.ws)
    <3>1. Shown(known, "P-TAG-REQ") # {}
      BY <1>4, OnScreen DEF Shown, SameItem
    <3> QED
      BY <3>1 DEF TagControls
  <2>3. d.addTags = plan.ws.tags /\ d.project = choices.project
    BY <1>1 DEF Choice
  <2> HIDE DEF d
  <2>4. AddedTags(Asked(d)) # {}
    BY <1>3, <2>1, <2>3 DEF AddedTags
  <2>5. i \notin TagItems(Asked(d))
    BY <1>4, <2>4 DEF TagItems, TagRule, Item, EffectiveTags
  <2>6. i \notin ActionRequired(Asked(d))
    BY <2>5, ItemOfRule
  <2> QED
    BY <1>2, <2>2, <2>3, <2>6, UseCloses
<1>5. CASE i.rule \in {"P-TAG-GONE", "P-TAG-ARCH"}
  <2>1. i \in Shown(known, "P-TAG-GONE") \cup Shown(known, "P-TAG-ARCH")
    BY <1>5 DEF Answerable, Shown
  <2>2. PICK t : \/ t \in UnresolvedTags(q) /\ i = Item(TagRule(q, t), t, TRUE)
                 \/ t \in RefusedAdds(q) /\ i = Item(TagRule(q, t), t, FALSE)
    <3>1. i # Item("P-TAG-REQ", None, FALSE)
      BY <1>5 DEF Item
    <3> QED
      BY <1>1, <3>1 DEF TagItems
  <2>3. i.ref = t /\ i.rule # "P-TAG-REQ"
    BY <1>5, <2>2 DEF Item
  <2>4. CASE t \in UnresolvedTags(q) /\ i = Item(TagRule(q, t), t, TRUE)
    <3> DEFINE d == [choices EXCEPT !.dropTags = choices.dropTags \cup {t}]
    <3>1. i.removable = TRUE /\ t \notin choices.dropTags
      BY <1>1, <2>4 DEF Item, UnresolvedTags
    <3>2. d \in TagControls(choices, known, plan.ws)
      BY <2>1, <2>3, <3>1 DEF TagControls
    <3>3. d.dropTags = choices.dropTags \cup {t} /\ d.project = choices.project
      BY <1>1 DEF Choice
    <3> HIDE DEF d
    <3>4. t \notin UnresolvedTags(Asked(d))
      BY <1>3, <3>3 DEF UnresolvedTags
    <3>5. i \notin TagItems(Asked(d))
      BY <2>3, <3>1, <3>4 DEF TagItems, Item
    <3>6. i \notin ActionRequired(Asked(d))
      BY <1>5, <3>5, ItemOfRule
    <3> QED
      BY <1>2, <3>2, <3>3, <3>6, UseCloses
  <2>5. CASE t \in RefusedAdds(q) /\ i = Item(TagRule(q, t), t, FALSE)
    <3> DEFINE d == [choices EXCEPT !.addTags = @ \ {t}]
    <3>1. i.removable = FALSE
      BY <2>5 DEF Item
    <3>2. d \in TagControls(choices, known, plan.ws)
      BY <2>1, <2>3, <3>1 DEF TagControls
    <3>3. d.addTags = choices.addTags \ {t} /\ d.project = choices.project
      BY <1>1 DEF Choice
    <3> HIDE DEF d
    <3>4. t \notin RefusedAdds(Asked(d))
      BY <1>3, <3>3 DEF RefusedAdds
    <3>5. i \notin TagItems(Asked(d))
      BY <2>3, <3>1, <3>4 DEF TagItems, Item
    <3>6. i \notin ActionRequired(Asked(d))
      BY <1>5, <3>5, ItemOfRule
    <3> QED
      BY <1>2, <3>2, <3>3, <3>6, UseCloses
  <2> QED
    BY <2>2, <2>4, <2>5
<1> QED
  BY <1>4, <1>5

\* The description: any text.
LEMMA DescriptionCloses ==
  ASSUME ResolutionInv, PlanOnScreen, NEW i \in Outcome(plan).open, i.rule = "P-DESC"
  PROVE  Closes(i)
<1>1. PICK t \in Descriptions : t # "" /\ t # Unset
  BY TypedAssumption
<1> DEFINE d == [choices EXCEPT !.description = t]
<1>2. Shown(known, "P-DESC") # {} /\ known # {}
  BY OnScreen DEF Shown, SameItem
<1>3. d \in DescriptionControls(choices, known, plan.ws)
  BY <1>2 DEF DescriptionControls
<1>4. d \in Controls(choices, known, plan.ws)
  BY <1>2, <1>3 DEF Controls
<1>5. d.description = t /\ d.project = choices.project
  BY OnScreen DEF Choice
<1> HIDE DEF d
<1>6. EffectiveDescription(Asked(d)) # ""
  BY <1>1, <1>5 DEF EffectiveDescription, Asked, Question
<1>7. i \notin ActionRequired(Asked(d))
  BY <1>6, ItemOfRule DEF DescriptionItems
<1> QED
  BY <1>4, <1>5, <1>7, UseCloses

\* A field that offers a usable value offers one of its type.
LEMMA OffersFitting ==
  ASSUME slice \in Slices, NEW w \in slice.spaces, NEW f \in DOMAIN w.fields,
         NEW u \in Enterable(w.fields[f]), Usable(u)
  PROVE  \E v \in Enterable(w.fields[f]) : Usable(v) /\ Fits(w.fields[f], v)
<1> DEFINE e == w.fields[f]
<1>1. CASE e.type = "CHECKBOX"
  BY <1>1 DEF Enterable, Fits, Value
<1>2. CASE e.type = "DROPDOWN_SINGLE"
  BY <1>2 DEF Enterable, Fits, Value
<1>3. CASE e.type = "DROPDOWN_MULTIPLE"
  BY <1>3 DEF Enterable, Fits, Value
<1>4. CASE e.type \notin {"CHECKBOX", "DROPDOWN_SINGLE", "DROPDOWN_MULTIPLE"}
  <2>1. PICK t \in Texts : t \in Numerals
    BY TypedAssumption
  <2> DEFINE v == Value("string", {t})
  <2>2. Enterable(e) = {Value("string", {x}) : x \in Texts}
    BY <1>4 DEF Enterable
  <2>3. v \in Enterable(e)
    BY <2>2
  <2>4. v.shape = "string" /\ v.of = {t}
    BY DEF Value
  <2> HIDE DEF v
  <2>5. Usable(v)
    BY <2>3, <2>4, NoneAssumption DEF Usable
  <2>6. Fits(e, v)
    BY <1>4, <2>1, <2>4 DEF Fits, IsNumericValue
  <2> QED
    BY <2>3, <2>5, <2>6
<1> QED
  BY <1>1, <1>2, <1>3, <1>4

\* A field: enter a value of its type, or drop the one that is no longer allowed.
LEMMA FieldCloses ==
  ASSUME ResolutionInv, PlanOnScreen, NEW i \in Outcome(plan).open, Answerable(i),
         i.rule \in {"P-CF-REQ", "P-CF-OPT"}
  PROVE  Closes(i)
<1> DEFINE q == Asked(choices)
<1>1. /\ i \in FieldItems(q) /\ q.ws = plan.ws /\ choices \in Choice(slice)
      /\ slice \in Slices /\ plan.ws \in slice.spaces
  BY OnScreen, ItemOfRule DEF Asked, Question
<1>2. PICK f \in ActiveFields(q) : i = Item(FieldOpen(q, f), f, FALSE)
  BY <1>1 DEF FieldItems
<1>3. i.ref = f /\ i.rule = FieldOpen(q, f)
  BY <1>2 DEF Item
<1>4. f \in DOMAIN plan.ws.fields /\ f \in Fields(slice)
  BY <1>1, SlicesAssumption DEF ActiveFields, Fields
<1>5. PICK j \in known : j.rule = i.rule /\ j.ref = f
  BY <1>3, OnScreen DEF SameItem
<1>6. \A d \in FieldControls(choices, known, plan.ws) : d \in Controls(choices, known, plan.ws)
  BY <1>5 DEF Controls
<1>7. "P-CF-REQ" # None /\ "P-CF-OPT" # None
  BY NoneAssumption DEF FieldRules
<1>8. ASSUME NEW d, i \in ActionRequired(Asked(d))
      PROVE  FieldOpen(Asked(d), f) = i.rule
  <2>1. i \in FieldItems(Asked(d))
    BY <1>8, ItemOfRule
  <2> QED
    BY <1>3, <2>1 DEF FieldItems, Item
<1>9. CASE i.rule = "P-CF-REQ"
  <2>1. PICK v \in Enterable(plan.ws.fields[f]) : Usable(v) /\ Fits(plan.ws.fields[f], v)
    BY <1>1, <1>3, <1>4, <1>9, OffersFitting DEF Answerable
  <2> DEFINE d == SetInput(choices, f, v)
  <2>2. d \in FieldControls(choices, known, plan.ws)
    BY <1>4, <1>5, <1>9, <2>1 DEF FieldControls, Shown
  <2>3. d.inputs[f] = v /\ f \notin d.dropFields /\ d.project = choices.project
    BY <1>1, <1>4 DEF SetInput, Choice
  <2> HIDE DEF d
  <2>4. Asked(d).choices = d /\ Asked(d).ws = plan.ws
    BY DEF Asked, Question
  <2>5. Entered(Asked(d), f) /\ EffectiveValue(Asked(d), f) = v
    BY <2>1, <2>3, <2>4 DEF Entered, EffectiveValue
  <2>6. FieldOpen(Asked(d), f) # "P-CF-REQ"
    BY <1>7, <2>1, <2>3, <2>4, <2>5 DEF FieldOpen
  <2> QED
    BY <1>6, <1>8, <1>9, <2>2, <2>3, <2>6, UseCloses
<1>10. CASE i.rule = "P-CF-OPT"
  <2> DEFINE d == DropValue(choices, f)
  <2>1. d \in FieldControls(choices, known, plan.ws)
    BY <1>5, <1>10 DEF FieldControls, Shown
  <2>2. f \in d.dropFields /\ d.project = choices.project
    BY <1>1 DEF DropValue, Choice
  <2> HIDE DEF d
  <2>3. Asked(d).choices = d
    BY DEF Asked, Question
  <2>4. FieldOpen(Asked(d), f) # "P-CF-OPT"
    BY <1>7, <2>2, <2>3 DEF FieldOpen
  <2> QED
    BY <1>6, <1>8, <1>10, <2>1, <2>2, <2>4, UseCloses
<1> QED
  BY <1>9, <1>10

\* Whatever the viewer has chosen and however the workspace changed on the way, every item the
\* plan on screen asks for, and the workspace can answer, is closed by one use of a widget.
THEOREM AWayOut == Spec => []WayOutWithProject
<1>1. ResolutionInv => WayOutWithProject
  <2> SUFFICES ASSUME ResolutionInv, PlanOnScreen, NEW i \in Outcome(plan).open, Answerable(i),
                      i.rule = "P-TASK-GONE" => EffectiveProject(PlanQuestion(plan)) # None
               PROVE  Closes(i)
    BY DEF WayOutWithProject
  <2>1. i \in ActionRequired(Asked(choices))
    BY OnScreen
  <2>2. i.rule \in {"P-RUN", "P-RUN-END", "P-PROJ-REQ", "P-PROJ-GONE", "P-TASK-GONE",
                    "P-TAG-GONE", "P-TAG-ARCH", "P-TAG-REQ", "P-DESC", "P-CF-REQ", "P-CF-OPT"}
    BY <2>1, ItemOfRule
  <2> QED
    BY <2>2, TimerCloses, ProjectCloses, TaskCloses, TagsClose, DescriptionCloses, FieldCloses
<1> QED
  BY <1>1, Invariance, PTL
=============================================================================
