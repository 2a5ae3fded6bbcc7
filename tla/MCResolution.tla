---------------------------- MODULE MCResolution -----------------------------
(* Small instances of Resolution for TLC: one slice per group of rules. *)
EXTENDS ResolutionInvariant

NoFields == [f \in {} |-> None]

Source ==
  [regular |-> TRUE, running |-> FALSE, end |-> 1, description |-> "text", billable |-> TRUE,
   project |-> None, task |-> None, tags |-> {}, values |-> [f \in {"f"} |-> None]]

Space ==
  [ownerActive |-> TRUE, stopwatchOnly |-> FALSE, forceProjects |-> FALSE, forceTasks |-> FALSE,
   forceTags |-> FALSE, forceDescription |-> FALSE, billableGuarded |-> FALSE,
   billableDefault |-> FALSE, lockSet |-> FALSE, projects |-> {"p", "q"}, archivedProjects |-> {},
   privateProjects |-> {},
   tasks |-> {<<"p", "t">>, <<"q", "u">>}, tags |-> {"g", "h"}, archivedTags |-> {},
   fields |-> NoFields]

Slice(source, roles, spaces) ==
  [source |-> source, roles |-> roles, spaces |-> spaces, old |-> roles = {TRUE}]

\* Timer, project and task: the project goes, comes back archived, the task is done, settings flip.
Placed  == [Source EXCEPT !.project = "p", !.task = "t"]
Runs(s) == [s EXCEPT !.running = TRUE, !.end = None]
Gone    == [Space EXCEPT !.projects = {"q"}, !.tasks = {<<"q", "u">>}]
TargetSpaces ==
  {Space, Gone, [Gone EXCEPT !.privateProjects = {"q"}],
   [Gone EXCEPT !.forceProjects = TRUE, !.stopwatchOnly = TRUE],
   [Space EXCEPT !.tasks = {<<"q", "u">>}, !.archivedProjects = {"p"}],
   [Space EXCEPT !.tasks = {<<"p", "s">>, <<"q", "u">>}, !.forceTasks = TRUE],
   [Space EXCEPT !.tasks = {<<"q", "u">>}, !.forceTasks = TRUE]}
\* A running entry multiplies the choices by its end times: the workspaces that matter to it.
TimerSpaces ==
  {Space, Gone, [Gone EXCEPT !.forceProjects = TRUE, !.stopwatchOnly = TRUE]}
TargetSlices ==
  {Slice(Placed, BOOLEAN, TargetSpaces), Slice(Runs(Placed), {FALSE}, TimerSpaces),
   Slice(Runs(Source), {FALSE}, TargetSpaces)}

\* Tags and description: a tag is archived, deleted, required; a description becomes required.
TagSpaces ==
  {Space, [Space EXCEPT !.tags = {"h"}, !.archivedTags = {"g"}],
   [Space EXCEPT !.tags = {"h"}, !.forceTags = TRUE],
   [Space EXCEPT !.tags = {"g"}, !.forceTags = TRUE, !.forceDescription = TRUE]}
TagSlices ==
  {Slice([Source EXCEPT !.tags = {"g"}, !.description = ""], {TRUE}, TagSpaces)}

\* The viewer's role, the clock and the owner.
RoleSpaces ==
  {Space, [Space EXCEPT !.billableGuarded = TRUE], [Space EXCEPT !.lockSet = TRUE],
   [Space EXCEPT !.ownerActive = FALSE], [Space EXCEPT !.stopwatchOnly = TRUE]}
RoleSlices ==
  {Slice([Source EXCEPT !.regular = r], BOOLEAN, RoleSpaces) : r \in BOOLEAN}

\* One custom field: each type, with and without a default, required or not, inactive, missing.
Text(t)     == Value("string", {t})
Field(type) ==
  [active |-> TRUE, required |-> FALSE, type |-> type, allowed |-> None, default |-> None]
WithField(d) == [Space EXCEPT !.fields = [f \in {"f"} |-> d]]
Dropdowns(type, default) ==
  LET d == [Field(type) EXCEPT !.allowed = {"a", "b"}]
      n == [d EXCEPT !.allowed = {"b"}]
  IN  {WithField(e) : e \in
         {d, n, [n EXCEPT !.required = TRUE],
          [d EXCEPT !.allowed = {"b", "c"}, !.default = default, !.required = TRUE]}}
Plain(type, default) ==
  {WithField(e) : e \in {Field(type), [Field(type) EXCEPT !.required = TRUE],
                         [Field(type) EXCEPT !.default = default, !.required = TRUE]}}
FieldSlice(value, spaces) ==
  Slice([Source EXCEPT !.values["f"] = value], {TRUE},
        spaces \cup {Space, WithField([Field("TXT") EXCEPT !.active = FALSE])})
FieldSlices ==
  {FieldSlice(v, Plain("TXT", Text("a")) \cup Plain("NUMBER", Value("number", {"1"}))) :
     v \in {None, Text("a"), Text("1"), Value("number", {"1"})}}
  \cup {FieldSlice(v, Plain("CHECKBOX", Value("boolean", {"true"}))) :
           v \in {None, Text("a"), Value("boolean", {"true"})}}
  \cup {FieldSlice(v, Dropdowns("DROPDOWN_SINGLE", Text("b"))) :
           v \in {None, Text("a"), Value("array", {"a"})}}
  \cup {FieldSlice(v, Dropdowns("DROPDOWN_MULTIPLE", Value("array", {"b"}))
                        \cup Plain("DROPDOWN_MULTIPLE", None)) :
           v \in {Text("a"), Value("array", {"a"}), Value("array", {})}}

MCSlices == TargetSlices \cup TagSlices \cup RoleSlices \cup FieldSlices
MCEnds   == {-1, 0, 2}
=============================================================================
