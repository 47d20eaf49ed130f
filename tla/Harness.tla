-------------------------------- MODULE Harness --------------------------------
(***************************************************************************)
(* The SWE-agent comparison on APPS: scripts/run_sweagent_apps.py drives   *)
(* `sweagent run` over the samples one after the other, each in a git      *)
(* workspace that it prepares afresh, and applies the patch that the agent *)
(* left under --out; scripts/evaluate_apps.py then runs the tests on the   *)
(* solutions it finds in the workspaces.  Invocations with different --out *)
(* share the workspaces, those with the same --out share its trajs/, and   *)
(* a driver or a judge is killed anywhere.  One driver runs at a time, as  *)
(* the measurement wants it; a judge may run next to it.                   *)
(*                                                                         *)
(* A solution is known by where it comes from: the number of the           *)
(* invocation whose agent wrote the patch, or what preparing left.         *)
(***************************************************************************)
EXTENDS Integers, Sequences, FiniteSetsExt, SequencesExt

CONSTANTS
  Out,              \* --out directories
  Instance,         \* numbers of the samples, in the order of load_samples
  Tested,           \* those that come with tests
  MaxInvocations,   \* bound: invocations of the driver
  MaxSamples,       \* bound: samples that an invocation and a config.json name together
  MaxReports        \* bound: runs that are judged

\* Samples are taken in the order of their numbers.
ASSUME HarnessAssumption == Instance \subseteq Nat

VARIABLES
  driver,      \* the driver's stage, --out, samples to go, and the current record
  invocations, \* of the driver so far; the last is the one that runs
  workspace,   \* session-<id>: its solution.py, and the invocation that prepared it last
  config,      \* <out>/config.json: the samples it stands for, {} before
  trace,       \* <out>/trace.jsonl; NoTrace before
  patch,       \* <out>/trajs/<id>/<id>.patch: the invocation that left it, 0 before
  orphans,     \* agents that run on after their driver was killed
  judge,       \* evaluate_apps.py: its run, records to go, and verdicts
  report,      \* <out>/apps_eval.json, NoReport before
  users        \* ghost: the invocations with this --out

harnessVars == <<driver, invocations, workspace, config, trace, patch, orphans, judge,
                 report, users>>

Absent == -1
Emptied == -2   \* write_text was stopped between open and write
Base == 0
NoTrace == <<[id |-> 0]>>
NoReport == <<>>
NoDriver == [stage |-> "none"]
NoJudge == [run |-> "none"]

\* The sample under way: load_samples gives the same order every time.
Id == Min(driver.todo)
Now == invocations
At(stage) == driver.stage = stage

\* A line of the trace, and the invocation that wrote it.
Line(success, applied) ==
  [id |-> Id, success |-> success, applied |-> applied, by |-> Now]

\* The record is appended and flushed; the next sample is taken up.
NextSample(line) ==
  /\ trace' = [trace EXCEPT ![driver.out] = Append(@, line)]
  /\ driver' = [stage |-> "prepare", out |-> driver.out, todo |-> driver.todo \ {Id}]

-------------------------------------------------------------------------------
(* run_sweagent_apps.py *)

\* main up to config.json; the trace of an earlier invocation is still there.
Invoke(r, samples) ==
  /\ driver = NoDriver /\ invocations < MaxInvocations
  /\ \A q \in Out : Cardinality(config[q]) + Cardinality(samples) <= MaxSamples
  /\ invocations' = invocations + 1
  /\ config' = [config EXCEPT ![r] = samples]
  /\ driver' = [stage |-> "config", out |-> r, todo |-> samples]
  /\ users' = [users EXCEPT ![r] = @ \cup {invocations'}]
  /\ UNCHANGED <<workspace, trace, patch, orphans, judge, report>>

\* The trace is opened anew.
OpenTrace ==
  /\ At("config")
  /\ trace' = [trace EXCEPT ![driver.out] = <<>>]
  /\ driver' = [driver EXCEPT !.stage = "prepare"]
  /\ UNCHANGED <<invocations, workspace, config, patch, orphans, judge, report, users>>

Leaves(solution) ==
  workspace' = [workspace EXCEPT ![Id] = [solution |-> solution, by |-> Now]]

\* Fault: prepare_workspace is called without reset.
PrepareKept ==
  /\ At("prepare") /\ driver.todo # {}
  /\ Leaves(IF workspace[Id].solution = Absent THEN Base ELSE workspace[Id].solution)
  /\ driver' = [driver EXCEPT !.stage = "agent"]
  /\ UNCHANGED <<invocations, config, trace, patch, orphans, judge, report, users>>

\* prepare_git_workspace: always from nothing, then git init, add and commit.
Prepare ==
  /\ At("prepare") /\ driver.todo # {}
  /\ Leaves(Base)
  /\ driver' = [driver EXCEPT !.stage = "agent"]
  /\ UNCHANGED <<invocations, config, trace, patch, orphans, judge, report, users>>

\* What a preparation leaves that stops half-way: nothing done yet, wiped, or written.
HalfPrepared ==
  \E solution \in {workspace[Id].solution, Absent, Emptied, Base} : Leaves(solution)

\* It raises; the error is of stage "clone".
PrepareFails ==
  /\ At("prepare") /\ driver.todo # {}
  /\ HalfPrepared
  /\ NextSample(Line(FALSE, FALSE))
  /\ UNCHANGED <<invocations, config, patch, orphans, judge, report, users>>

\* subprocess.run of build_sweagent_cmd: it succeeds, fails or is stopped at
\* --task-timeout-s; in each case it may have left its patch, which overwrites an older one.
AgentEnds(success, wrote) ==
  /\ At("agent")
  /\ patch' = IF wrote THEN [patch EXCEPT ![driver.out][Id] = Now] ELSE patch
  /\ driver' = [stage |-> "apply", out |-> driver.out, todo |-> driver.todo,
                success |-> success]
  /\ UNCHANGED <<invocations, workspace, config, trace, orphans, judge, report, users>>

\* find_patch and apply_patch, after a failure and a timeout too; git apply may refuse.
Applies(ok) ==
  /\ At("apply") /\ (patch[driver.out][Id] = 0 => ~ok)
  /\ workspace' = IF ok THEN [workspace EXCEPT ![Id].solution = patch[driver.out][Id]]
                  ELSE workspace
  /\ driver' = [stage |-> "record", out |-> driver.out, todo |-> driver.todo,
                success |-> driver.success, applied |-> ok]
  /\ UNCHANGED <<invocations, config, trace, patch, orphans, judge, report, users>>

Record ==
  /\ At("record")
  /\ NextSample(Line(driver.success, driver.applied))
  /\ UNCHANGED <<invocations, workspace, config, patch, orphans, judge, report, users>>

Done ==
  /\ At("prepare") /\ driver.todo = {}
  /\ driver' = NoDriver
  /\ UNCHANGED <<invocations, workspace, config, trace, patch, orphans, judge, report, users>>

\* The driver is killed; an agent under way goes on.
Killed ==
  /\ driver # NoDriver
  /\ driver' = NoDriver
  /\ orphans' = IF At("agent") THEN orphans \cup {[out |-> driver.out, id |-> Id, by |-> Now]}
                ELSE orphans
  /\ IF At("prepare") /\ driver.todo # {} THEN HalfPrepared ELSE UNCHANGED workspace
  /\ UNCHANGED <<invocations, config, trace, patch, judge, report, users>>

OrphanEnds(o, wrote) ==
  /\ orphans' = orphans \ {o}
  /\ patch' = IF wrote THEN [patch EXCEPT ![o.out][o.id] = o.by] ELSE patch
  /\ UNCHANGED <<driver, invocations, workspace, config, trace, judge, report, users>>

-------------------------------------------------------------------------------
(* evaluate_apps.py *)

\* config.json and the trace are read once, at the start.
JudgeBegins(r) ==
  /\ Cardinality({q \in Out : report[q] # NoReport}) < MaxReports
  /\ judge = NoJudge /\ config[r] # {} /\ trace[r] # NoTrace
  /\ judge' = [run |-> r, samples |-> config[r], queue |-> trace[r], found |-> NoReport]
  /\ UNCHANGED <<driver, invocations, workspace, config, trace, patch, orphans, report, users>>

\* evaluate_instance: the solution that is there by now, whose tests pass or not.
Verdicts(rec) ==
  IF rec.id \notin judge.samples THEN {"not_in_sample_set"}
  ELSE IF workspace[rec.id].solution = Absent THEN {"no_solution"}
  ELSE IF rec.id \notin Tested THEN {"no_tests"}
  ELSE {"resolved", "unresolved"}

\* One record, whatever its error; what is judged is noted with the verdict.
JudgeOne(verdict) ==
  /\ judge # NoJudge /\ judge.queue # <<>>
  /\ LET rec == Head(judge.queue) IN
       /\ verdict \in Verdicts(rec)
       /\ judge' = [judge EXCEPT !.queue = Tail(@), !.found = Append(@,
            [rec |-> rec, verdict |-> verdict, of |-> workspace[rec.id]])]
  /\ UNCHANGED <<driver, invocations, workspace, config, trace, patch, orphans, report, users>>

JudgeEnds ==
  /\ judge # NoJudge /\ judge.queue = <<>>
  /\ report' = [report EXCEPT ![judge.run] = judge.found]
  /\ judge' = NoJudge
  /\ UNCHANGED <<driver, invocations, workspace, config, trace, patch, orphans, users>>

JudgeKilled ==
  /\ judge # NoJudge /\ judge' = NoJudge
  /\ UNCHANGED <<driver, invocations, workspace, config, trace, patch, orphans, report, users>>

-------------------------------------------------------------------------------
HarnessInit ==
  /\ driver = NoDriver /\ invocations = 0 /\ orphans = {} /\ judge = NoJudge
  /\ workspace = [i \in Instance |-> [solution |-> Absent, by |-> 0]]
  /\ config = [r \in Out |-> {}]
  /\ trace = [r \in Out |-> NoTrace]
  /\ patch = [r \in Out |-> [i \in Instance |-> 0]]
  /\ report = [r \in Out |-> NoReport]
  /\ users = [r \in Out |-> {}]

HarnessNext ==
  \/ \E r \in Out, samples \in (SUBSET Instance) \ {{}} : Invoke(r, samples)
  \/ OpenTrace \/ Prepare \/ PrepareFails
  \/ \E success, wrote \in BOOLEAN : AgentEnds(success, wrote)
  \/ \E ok \in BOOLEAN : Applies(ok)
  \/ Record \/ Done \/ Killed
  \/ \E o \in orphans, wrote \in BOOLEAN : OrphanEnds(o, wrote)
  \/ \E r \in Out : JudgeBegins(r)
  \/ \E v \in {"not_in_sample_set", "no_solution", "no_tests", "resolved", "unresolved"} :
       JudgeOne(v)
  \/ JudgeEnds \/ JudgeKilled

HarnessSpec == HarnessInit /\ [][HarnessNext]_harnessVars

-------------------------------------------------------------------------------
(* Properties *)

\* What resolve_rate_http_ok counts.
ResolvedHttpOk(r) ==
  {v \in ToSet(report[r]) : v.verdict = "resolved" /\ v.rec.success}

\* A report is about one invocation, each of its samples once.  A solution it counts as
\* resolved by an agent that succeeded is what that run left in the workspace, unless
\* another invocation prepared the workspace since: a patch left under this --out where
\* the trace says that one was applied, the invocation's own if it was the first there,
\* and otherwise the file that the task starts with, never an older solution.
ReportIsOfItsRun ==
  \A r \in Out :
    /\ \A m, n \in DOMAIN report[r] :
         /\ report[r][m].rec.by = report[r][n].rec.by
         /\ report[r][m].rec.id = report[r][n].rec.id => m = n
    /\ \A v \in ResolvedHttpOk(r) :
         v.of.by = v.rec.by =>
           /\ IF v.rec.applied THEN v.of.solution \in users[r] ELSE v.of.solution = Base
           /\ v.rec.applied /\ (\A u \in users[r] : v.rec.by <= u) =>
                v.of.solution = v.rec.by
===============================================================================
