------------------------------ MODULE AgentPlans ------------------------------
(***************************************************************************)
(* AgentPlans: PlannerService over the tools of the runtime, the records it  *)
(* leaves (timelines, plans), the perception it starts from, and the ways a  *)
(* command takes through the API to the device: the endpoints that have one  *)
(* of their own, and the tools android.control, android.accessibility_dump   *)
(* and shell.run, called by a plan or by POST /api/tools/execute.            *)
(*                                                                         *)
(* The handlers of the API block the server's loop: while a plan is run      *)
(* nothing else is.  What goes on beside it are the threads of tools that    *)
(* have timed out.  A tool of a plan gets one attempt (see ToolExecution).   *)
(***************************************************************************)
EXTENDS Integers, Sequences, FiniteSets

CONSTANTS
  AllowedPackages,  \* allowed_android_packages
  Commerce,         \* packages whose names sound of shops and payments
  Package,          \* packages
  Goals,            \* what may be asked of the planner
  Grants,           \* sets of permissions a request may come with
  MaxSteps,         \* the numbers of steps a request may ask for
  MaxLogEntries,    \* max_log_entries
  Actions,          \* what may be asked of the device directly
  MaxPlans,         \* bound
  Kills             \* bound: whether the server is killed

VARIABLES
  android, adb, modeB,  \* enable_android_control, adb is on the PATH, enable_mode_b
  shell,            \* mode is another than mode-a
  snapshot,         \* the app of the latest perception
  plan,             \* the plan that is run, or NoPlan
  started,          \* plans so far: the last one's number
  timelines,        \* the records of steps
  plans,            \* the stored plans
  abandoned,        \* plans whose device command has timed out and is not done yet
  effects,          \* history: the plans whose device command was done, in order
  command,          \* history: the latest command the device was sent
  lost              \* history: plans that raised or were killed

settings == <<android, adb, modeB, shell>>
records == <<timelines, plans>>
device == <<abandoned, effects, command>>
planVars == <<settings, snapshot, plan, started, records, device, lost>>

None == "none"
NoSnapshot == "no snapshot"
NoCommand == [by |-> None, what |-> None, package |-> None, granted |-> {}, safe |-> FALSE]
NoPlan == [id |-> 0, request |-> None, steps |-> <<>>, next |-> 1]

\* What _android_action_candidates looks for first, in its order.
Navigation == <<"notifications", "quick settings", "home", "back", "recents">>
Goal == [asks : SUBSET ({Navigation[i] : i \in DOMAIN Navigation}
                          \cup {"git", "file", "github", "search", "screen"}),
         open : Package \cup {None, "current"}]
Permission == {"android-control", "accessibility", "git", "storage", "network", "shell"}
ModeBActions == {"get_property", "get_setting", "query_battery", "query_display",
                 "query_processes", "get_state"}
Diagnostics == {"logcat", "process-memory", "battery", "thermal"}

ASSUME PlansAssumption ==
  /\ AllowedPackages \cup Commerce \subseteq Package
  /\ {None, NoSnapshot, "current"} \cap Package = {}
  /\ Goals \subseteq Goal /\ Grants \subseteq SUBSET Permission /\ MaxSteps \subseteq Nat \ {0}
  /\ MaxLogEntries \in Nat
  /\ MaxPlans \in Nat /\ Kills \in BOOLEAN
  /\ \A a \in Actions : DOMAIN a = {"action", "package", "text"} /\ a.text \in {"fine", "malformed", "blocked"}

Foremost(S) == CHOOSE n \in S : \A k \in S : n <= k
First(s, n) == SubSeq(s, 1, IF Len(s) <= n THEN Len(s) ELSE n)

\* _save: the latest max_log_entries are kept; value[-0:] is the whole list.
Cut(s) ==
  IF MaxLogEntries = 0 \/ Len(s) <= MaxLogEntries THEN s
  ELSE SubSeq(s, Len(s) - MaxLogEntries + 1, Len(s))

PlansInit ==
  /\ android \in BOOLEAN /\ adb \in BOOLEAN /\ modeB \in BOOLEAN /\ shell \in BOOLEAN
  /\ snapshot = NoSnapshot
  /\ plan = NoPlan /\ started = 0
  /\ timelines = <<>> /\ plans = <<>>
  /\ abandoned = {} /\ effects = <<>> /\ command = NoCommand /\ lost = {}

Idle == plan = NoPlan

(***************************************************************************)
(* build_plan                                                               *)
(***************************************************************************)
Step(tool, action, package) ==
  [tool |-> tool, action |-> action, package |-> package, status |-> "planned"]
If(condition, step) == IF condition THEN <<step>> ELSE <<>>

\* _match_allowed_package: the named one, or the one in front.
Match(g) ==
  IF g.open \in AllowedPackages THEN g.open
  ELSE IF g.open = "current" /\ snapshot \in AllowedPackages THEN snapshot ELSE None

\* _android_action_candidates
DeviceStep(g) ==
  LET asked == {i \in DOMAIN Navigation : Navigation[i] \in g.asks} IN
  IF asked # {} THEN <<Step("android.control", Navigation[Foremost(asked)], None)>>
  ELSE If(Match(g) # None, Step("android.control", "open", Match(g)))

\* _tool_candidates: those of the tools that are registered.
Candidates(g) ==
  LET Wants(word, tool) == If(word \in g.asks, Step(tool, None, None)) IN
  (IF android THEN DeviceStep(g) ELSE <<>>)
    \o Wants("git", "git.status") \o Wants("file", "filesystem.read")
    \o Wants("github", "github.search") \o Wants("search", "web.search")
    \o If(snapshot = NoSnapshot /\ android /\ "screen" \in g.asks,
          Step("android.accessibility_dump", None, None))

Built(r) ==
  LET steps == First(Candidates(r.goal), r.max) IN
  IF steps # <<>> THEN steps ELSE <<Step(None, None, None)>>

(***************************************************************************)
(* The gates of the tools and of AndroidController.perform.                 *)
(***************************************************************************)
Needs(tool) ==
  CASE tool = "android.control" -> {"android-control"}
    [] tool = "android.accessibility_dump" -> {"android-control", "accessibility"}
    [] tool = "git.status" -> {"git"}
    [] tool = "filesystem.read" -> {"storage"}
    [] tool = "shell.run" -> {"shell"}
    [] OTHER -> {"network"}

\* safe_mode_behavior is "deny".
DeniedInSafeMode == {"android.control", "shell.run"}

Admitted(tool, r) ==
  Needs(tool) \subseteq r.granted /\ ~(r.safe /\ tool \in DeniedInSafeMode)

\* Its handler takes the arguments the manifest declares: read_text(relative_path)
\* is called with path, and so fails whatever the file.
TakesItsArguments(tool) == tool # "filesystem.read"

\* validate_android_action
PolicyRefuses(a) ==
  a.action \in {"tap", "swipe", "type"} \/ (a.action = "open" /\ a.package \in Commerce)

\* _build_command: an action it does not know, or with another number of arguments,
\* raises; only "open" takes a package.
Buildable == {"tap", "swipe", "type", "open"} \cup {Navigation[i] : i \in DOMAIN Navigation} \cup ModeBActions

Builds(a) ==
  /\ a.action \in Buildable /\ a.text # "malformed"
  /\ a.package \in IF a.action = "open" THEN AllowedPackages ELSE {None}

\* perform, up to the command.
Performs(a) ==
  /\ android /\ adb
  /\ a.action \in ModeBActions => modeB
  /\ ~PolicyRefuses(a) /\ Builds(a)
  /\ a.text # "blocked"

Asked(step) == [action |-> step.action, package |-> step.package, text |-> "fine"]

\* The tool it is sent by, and what the caller of the tool has been granted.
Command(tool, what, package, r) ==
  [by |-> tool, what |-> what, package |-> package, granted |-> r.granted, safe |-> r.safe]

\* A handler of the API that needs no tool.
Endpoint(what, package) == Command(None, what, package, [granted |-> {}, safe |-> FALSE])

(***************************************************************************)
(* A plan is run.                                                           *)
(***************************************************************************)
Requests ==
  [goal : Goals, auto : BOOLEAN, granted : Grants, safe : BOOLEAN, max : MaxSteps]

\* save_plan; the id is a new one.
Stored(id, r, steps, executed) ==
  Cut(Append(plans, [id |-> id, safe |-> r.safe, steps |-> steps, executed |-> executed]))

\* append_timeline
Told(status) == Cut(Append(timelines, [plan |-> plan.id, step |-> plan.next, status |-> status]))

\* Mutated form: the plan is saved before its steps are run.
RequestSaved(r) ==
  /\ Idle /\ started < MaxPlans
  /\ started' = started + 1
  /\ plans' = Stored(started', r, Built(r), r.auto)
  /\ plan' = IF r.auto THEN [id |-> started', request |-> r, steps |-> Built(r), next |-> 1] ELSE plan
  /\ UNCHANGED <<settings, snapshot, timelines, device, lost>>

\* POST /api/agent/plan
Request(r) ==
  /\ Idle /\ started < MaxPlans
  /\ started' = started + 1
  /\ IF r.auto
       THEN /\ plan' = [id |-> started', request |-> r, steps |-> Built(r), next |-> 1]
            /\ UNCHANGED plans
       ELSE /\ plans' = Stored(started', r, Built(r), FALSE)
            /\ UNCHANGED plan
  /\ UNCHANGED <<settings, snapshot, timelines, device, lost>>

Current == plan.steps[plan.next]
Running == ~Idle /\ plan.next <= Len(plan.steps)

\* What the step sends to the device, and whether its handler gets there.
Sends ==
  CASE Current.tool = "android.control" ->
         IF Performs(Asked(Current))
           THEN {Command("android.control", Current.action, Current.package, plan.request)} ELSE {}
    [] Current.tool = "android.accessibility_dump" ->
         IF android /\ adb
           THEN {Command("android.accessibility_dump", "dump", None, plan.request)} ELSE {}
    [] OTHER -> {}
Sent == IF Sends = {} THEN {command} ELSE Sends
Gets ==
  /\ Admitted(Current.tool, plan.request) /\ TakesItsArguments(Current.tool)
  /\ Current.tool \in {"android.control", "android.accessibility_dump"} => Sends # {}

Skip ==
  /\ Running /\ Current.tool = None
  /\ plan' = [plan EXCEPT !.next = @ + 1]
  /\ UNCHANGED <<settings, snapshot, started, records, device, lost>>

Done == IF Current.tool = "android.control" THEN <<plan.id>> ELSE <<>>

\* Mutated form: the record is written before the status of the step is.
StepCompletesLate ==
  /\ Running /\ Current.tool # None /\ Gets
  /\ command' \in Sent /\ effects' = effects \o Done
  /\ plan' = [plan EXCEPT !.steps[plan.next].status = "completed", !.next = @ + 1]
  /\ timelines' = Told(Current.status)
  /\ UNCHANGED <<settings, snapshot, started, plans, abandoned, lost>>

StepCompletes ==
  /\ Running /\ Current.tool # None /\ Gets
  /\ command' \in Sent
  /\ effects' = effects \o Done
  /\ plan' = [plan EXCEPT !.steps[plan.next].status = "completed", !.next = @ + 1]
  /\ timelines' = Told("completed")
  /\ UNCHANGED <<settings, snapshot, started, plans, abandoned, lost>>

\* What is left of a plan whose step has failed: the error of a result has no model_dump,
\* so that run() raises before the timeline, the event and the plan are stored.
Raise ==
  /\ plan' = NoPlan
  /\ lost' = lost \cup {plan.id}
  /\ UNCHANGED <<settings, snapshot, started, records>>

\* The tool is refused, or its handler fails: before the command or after it.
StepFails ==
  /\ Running /\ Current.tool # None
  /\ \/ UNCHANGED <<command, effects>>
     \/ Gets /\ command' \in Sent /\ effects' \in {effects, effects \o Done}
  /\ Raise
  /\ UNCHANGED abandoned

\* Mutated form: a step that has timed out is tried again.
StepTimesOutAgain ==
  /\ Running /\ Current.tool # None /\ Gets
  /\ command' \in Sent
  /\ abandoned' = IF Current.tool = "android.control" THEN abandoned \cup {plan.id} ELSE abandoned
  /\ UNCHANGED <<settings, snapshot, plan, started, records, effects, lost>>

\* Ten seconds are over: the thread of the tool goes on.
StepTimesOut ==
  /\ Running /\ Current.tool # None /\ Gets
  /\ command' \in Sent
  /\ abandoned' = IF Current.tool = "android.control" THEN abandoned \cup {plan.id} ELSE abandoned
  /\ Raise
  /\ UNCHANGED effects

\* The abandoned command is done, or comes to nothing.
Land(id) ==
  /\ abandoned' = abandoned \ {id}
  /\ effects' \in {effects, Append(effects, id)}
  /\ UNCHANGED <<settings, snapshot, plan, started, records, command, lost>>

Finish ==
  /\ ~Idle /\ ~Running
  /\ plans' = Stored(plan.id, plan.request, plan.steps, TRUE)
  /\ plan' = NoPlan
  /\ UNCHANGED <<settings, snapshot, started, timelines, device, lost>>

(***************************************************************************)
(* The rest of the API that meets the device.                               *)
(***************************************************************************)

\* The app a request names, or its dump shows most of.
Apps == Package \cup {None}

\* POST /api/android/perception: ingest; a dump that cannot be parsed changes nothing.
Ingest(app) ==
  /\ Idle /\ snapshot' = app
  /\ UNCHANGED <<settings, plan, started, records, device, lost>>

\* POST /api/android/action, and /api/android/mode-b/action
Act(a) ==
  /\ Idle /\ Performs(a)
  /\ command' = Endpoint(a.action, a.package)
  /\ UNCHANGED <<settings, snapshot, plan, started, records, abandoned, effects, lost>>

\* Mutated form: the thermal service is not thought of as mode B.
AnyMode(category) == category = "thermal"

\* Diagnostics that need no mode B: none.
FreeOfModeB(category) == FALSE

\* POST /api/android/diagnostics/{category}: the command is sent before a filter is looked at.
Diagnose(category, package) ==
  /\ Idle /\ android /\ adb
  /\ modeB \/ FreeOfModeB(category)
  /\ package \in IF category = "process-memory" THEN AllowedPackages ELSE {None}
  /\ command' = Endpoint(category, package)
  /\ UNCHANGED <<settings, snapshot, plan, started, records, abandoned, effects, lost>>

\* GET /api/android/mode-b/state: five files are read, each for itself.
ReadModeB ==
  /\ Idle /\ modeB
  /\ command' = Endpoint("state files", None)
  /\ UNCHANGED <<settings, snapshot, plan, started, records, abandoned, effects, lost>>

\* POST /api/tools/execute.  A thread that has timed out may send at any time, beside a
\* plan too.
Callers == [granted : Grants, safe : BOOLEAN]

CallControl(a, r) ==
  /\ Admitted("android.control", r) /\ Performs(a)
  /\ command' = Command("android.control", a.action, a.package, r)
  /\ UNCHANGED <<settings, snapshot, plan, started, records, abandoned, effects, lost>>

CallDump(r) ==
  /\ Admitted("android.accessibility_dump", r) /\ android /\ adb
  /\ command' = Command("android.accessibility_dump", "dump", None, r)
  /\ UNCHANGED <<settings, snapshot, plan, started, records, abandoned, effects, lost>>

\* Any program, adb with any arguments among them; only the text of the command is looked at.
RunShell(a, r) ==
  /\ shell /\ Admitted("shell.run", r) /\ a.text # "blocked"
  /\ command' = Command("shell.run", a.action, a.package, r)
  /\ UNCHANGED <<settings, snapshot, plan, started, records, abandoned, effects, lost>>

\* The server is killed, and its threads.
Kill ==
  /\ Kills
  /\ ~Idle \/ abandoned # {}
  /\ plan' = NoPlan /\ abandoned' = {}
  /\ lost' = IF Idle THEN lost ELSE lost \cup {plan.id}
  /\ UNCHANGED <<settings, snapshot, started, records, effects, command>>

PlansNext ==
  \/ \E r \in Requests : Request(r)
  \/ Skip \/ StepCompletes \/ StepFails \/ StepTimesOut \/ Finish
  \/ \E id \in abandoned : Land(id)
  \/ \E app \in Apps : Ingest(app)
  \/ \E a \in Actions : Act(a)
  \/ \E c \in Diagnostics, p \in Package \cup {None} : Diagnose(c, p)
  \/ ReadModeB
  \/ \E r \in Callers : CallDump(r)
  \/ \E a \in Actions, r \in Callers : CallControl(a, r) \/ RunShell(a, r)
  \/ Kill

PlansSpec == PlansInit /\ [][PlansNext]_planVars

(***************************************************************************)
(* Properties.                                                              *)
(***************************************************************************)
AStep == [tool : {None, "android.control", "git.status", "filesystem.read", "github.search",
                  "web.search", "android.accessibility_dump"},
          action : {None, "open"} \cup {Navigation[i] : i \in DOMAIN Navigation},
          package : Package \cup {None}, status : {"planned", "completed"}]

\* A log that may have been cut.
Full(s) == MaxLogEntries # 0 /\ Len(s) >= MaxLogEntries

\* Types and bounds.  The stored plans are in the order they were asked for, and every plan
\* that was asked for is one of: stored, lost, under way, or older than all of a full store.
PlansTypeOK ==
  /\ settings \in BOOLEAN \X BOOLEAN \X BOOLEAN \X BOOLEAN
  /\ snapshot \in Package \cup {None, NoSnapshot}
  /\ Idle \/ (plan.request \in Requests /\ plan.steps \in Seq(AStep) /\ plan.next \in 1..Len(plan.steps) + 1)
  /\ abandoned \subseteq lost
  /\ MaxLogEntries # 0 => Len(plans) <= MaxLogEntries /\ Len(timelines) <= MaxLogEntries
  /\ \A i, j \in DOMAIN plans : i < j => plans[i].id < plans[j].id
  /\ LET kept == {plans[i].id : i \in DOMAIN plans}
         known == (kept \cup lost \cup {plan.id}) \ {0} IN
     /\ known \subseteq 1..started
     /\ \A n \in 1..started \ known : Full(plans) /\ n < plans[1].id
     /\ kept \cap lost = {} /\ plan.id \notin kept \cup lost

\* Step k of plan id comes before what the record tells of.
Before(id, k, entry) == id < entry.plan \/ (id = entry.plan /\ k < entry.step)

\* A stored plan and the timeline tell the same of every step of it.  Records are in the
\* order of plans and steps; those about a stored plan are of its steps with a tool and have
\* their status; a step with a tool of an executed plan has a record unless a full timeline
\* begins after it, as it is cut by records and plans.json by plans; and a plan that was
\* only asked for has none and nothing done.
StoredPlansTellTheTruth ==
  /\ \A i, j \in DOMAIN timelines : i < j => Before(timelines[i].plan, timelines[i].step, timelines[j])
  /\ \A k \in DOMAIN plans :
       LET p == plans[k]
           tools == {i \in DOMAIN p.steps : p.steps[i].tool # None}
           told == {i \in DOMAIN timelines : timelines[i].plan = p.id} IN
       /\ \A i \in told :
            /\ timelines[i].step \in tools /\ p.executed
            /\ timelines[i].status = p.steps[timelines[i].step].status
       /\ p.executed =>
            \A n \in tools :
              \/ \E i \in told : timelines[i].step = n
              \/ Full(timelines) /\ Before(p.id, n, timelines[1])
       /\ ~p.executed => \A n \in tools : p.steps[n].status = "planned"

\* The device does what plans asked for once, and in the order of the plans but for those
\* that were lost: an abandoned command may be done after those of later plans.
EffectsFollowPlans ==
  /\ \A i, j \in DOMAIN effects :
       i < j => effects[i] < effects[j] \/ (effects[j] < effects[i] /\ effects[j] \in lost)
  /\ \A k \in DOMAIN plans :
       plans[k].executed /\ (\E i \in DOMAIN plans[k].steps : plans[k].steps[i].tool = "android.control")
         => \E i \in DOMAIN effects : effects[i] = plans[k].id

\* A command that reaches the device by the API was sent by a tool whose permissions the
\* caller has been granted, or by an endpoint; a caller in safe mode gets the read-only dump
\* at most.  Unless shell.run sends it, it is none of the direct inputs, names allowlisted
\* packages only and opens no shop, reads what mode B reads in mode B only, and is sent with
\* control enabled.  Of all this shell.run has the first only, outside mode A.
CommandsAreGated ==
  LET c == command IN
  c # NoCommand =>
    /\ c.by # None => Needs(c.by) \subseteq c.granted
    /\ c.safe => c.what = "dump" /\ c.by = "android.accessibility_dump"
    /\ c.by = "shell.run" => shell
    /\ c.by # "shell.run" =>
         /\ c.what \notin {"tap", "swipe", "type"}
         /\ c.package \in AllowedPackages \cup {None} /\ (c.what = "open" => c.package \notin Commerce)
         /\ c.what \in ModeBActions \cup Diagnostics \cup {"state files"} => modeB
         /\ c.what # "state files" => android /\ adb

\* docs/architecture.md:56: "Generated plans are now also persisted as explicit
\* operator-visible records instead of being transient response objects only."
PlansAreKept == lost = {}
=============================================================================
