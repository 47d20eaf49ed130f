------------------------------- MODULE Campaign -------------------------------
(***************************************************************************)
(* Successive and overlapping invocations of `testbed pre-clone` and       *)
(* `testbed run` for one sample set (workload, split, seed, num_samples):  *)
(* the workspace manifest that pre_clone_run writes and run consumes, and  *)
(* the directories they prepare and hand to agents (src/testbed/runner.py).*)
(*                                                                         *)
(* _directory_for names the directories of one invocation with fresh uuids *)
(* or, with --reset-workspace, always alike.  A generation stands for the  *)
(* names of one invocation, one directory per task: 0 for the fixed names, *)
(* 1, 2, ... for the uuids.  What preparing one directory involves is in   *)
(* Workspace; here it succeeds or fails as a whole.  The sample set is a   *)
(* function of the key, so a manifest always covers it.                    *)
(***************************************************************************)
EXTENDS Integers

CONSTANTS
  Task,            \* the sampled instances
  Proc,            \* processes an operator may have running at once
  MaxGeneration,   \* bound: how many sets of uuid names are ever drawn
  Overlap          \* whether pre-clone may be run while another process is

ASSUME CampaignAssumption ==
  /\ MaxGeneration \in Nat
  /\ Overlap \in BOOLEAN

VARIABLES
  manifest,    \* the file: NoFile, Corrupt, or the generation and mode it names
  drawn,       \* generations drawn so far
  disk,        \* disk[g][t]: the directory of task t in generation g
  pc,          \* "idle", "preclone", "write", "consume", "inline", "tasks"
  flag,        \* --reset-workspace of each process
  plan,        \* the generation each process uses: its `directories`
  todo,        \* tasks it has not prepared (in "preclone", "inline") or started yet
  working      \* tasks of a run that are prepared and about to get their agent

vars == <<manifest, drawn, disk, pc, flag, plan, todo, working>>

Generation == 0..MaxGeneration

Names(reset, generation) == [reset |-> reset, generation |-> generation]
NoFile == Names(FALSE, -1)
Corrupt == Names(FALSE, -2)
\* Fault: a corrupt manifest is taken for a sound one.
UsableUnparsed(reset) == manifest # NoFile /\ manifest.reset = reset

\* Fault: a manifest written for the other mode is taken.
UsableAnyMode(reset) == manifest.generation >= 0

Usable(reset) == manifest.generation >= 0 /\ manifest.reset = reset

Runs == {p \in Proc : pc[p] \in {"consume", "inline", "tasks"}}
Preclones == {p \in Proc : pc[p] \in {"preclone", "write"}}

-------------------------------------------------------------------------------
Begin(p, label, reset, generation) ==
  /\ pc' = [pc EXCEPT ![p] = label]
  /\ flag' = [flag EXCEPT ![p] = reset]
  /\ plan' = [plan EXCEPT ![p] = generation]
  /\ todo' = [todo EXCEPT ![p] = Task]
  /\ working' = [working EXCEPT ![p] = {}]

\* _directory_for on every sample.
BeginOnNewNames(p, label, reset) ==
  \/ reset /\ Begin(p, label, reset, 0) /\ UNCHANGED drawn
  \/ /\ ~reset /\ drawn < MaxGeneration
     /\ drawn' = drawn + 1
     /\ Begin(p, label, reset, drawn')

Goto(p, label) ==
  /\ pc' = [pc EXCEPT ![p] = label]
  /\ UNCHANGED <<drawn, flag, plan, todo, working>>

\* The process ends, and what it remembers with it.
Exit(p) ==
  /\ pc' = [pc EXCEPT ![p] = "idle"]
  /\ flag' = [flag EXCEPT ![p] = FALSE]
  /\ plan' = [plan EXCEPT ![p] = 0]
  /\ todo' = [todo EXCEPT ![p] = {}]
  /\ working' = [working EXCEPT ![p] = {}]
  /\ UNCHANGED drawn

\* wl.prepare: a no-op on a directory that exists unless resetting.
Prepared(p, t) ==
  LET old == disk[plan[p]][t]
  IN  disk' = [disk EXCEPT ![plan[p]][t] =
                 IF flag[p] \/ old = "absent" THEN "ready" ELSE old]

NotPrepared(p, t) ==
  /\ flag[p] \/ disk[plan[p]][t] = "absent"
  /\ disk' \in {disk, [disk EXCEPT ![plan[p]][t] = "absent"]}

-------------------------------------------------------------------------------
Init ==
  /\ manifest = NoFile
  /\ drawn = 0
  /\ disk = [g \in Generation |-> [t \in Task |-> "absent"]]
  /\ pc = [p \in Proc |-> "idle"]
  /\ flag = [p \in Proc |-> FALSE]
  /\ plan = [p \in Proc |-> 0]
  /\ todo = [p \in Proc |-> {}]
  /\ working = [p \in Proc |-> {}]

\* pre_clone_run up to prepare_workspaces: resume from the manifest if it is sound
\* and for the same mode, else assign names.
BeginPreclone(p) ==
  /\ pc[p] = "idle"
  /\ Overlap \/ \A q \in Proc : pc[q] = "idle"
  /\ \E reset \in BOOLEAN :
       \/ /\ Usable(reset)
          /\ Begin(p, "preclone", reset, manifest.generation)
          /\ UNCHANGED drawn
       \/ ~Usable(reset) /\ BeginOnNewNames(p, "preclone", reset)
  /\ UNCHANGED <<manifest, disk>>

\* prepare_workspaces, for one sample; failures are collected, not fatal.
PrepareOne(p, t) ==
  /\ pc[p] \in {"preclone", "inline"}
  /\ t \in todo[p]
  /\ Prepared(p, t) \/ NotPrepared(p, t)
  /\ todo' = [todo EXCEPT ![p] = @ \ {t}]
  /\ UNCHANGED <<manifest, drawn, pc, flag, plan, working>>

\* manifest.write_text truncates the file, then writes it.
OpenManifest(p) ==
  /\ pc[p] = "preclone"
  /\ todo[p] = {}
  /\ manifest' = Corrupt
  /\ Goto(p, "write")
  /\ UNCHANGED disk

WriteManifest(p) ==
  /\ pc[p] = "write"
  /\ manifest' = Names(flag[p], plan[p])
  /\ Exit(p)
  /\ UNCHANGED disk

-------------------------------------------------------------------------------
\* run(): take the directories of a usable manifest, else prepare fresh ones inline;
\* --no-pre-clone-workspaces ignores the manifest and prepares nothing up front.
BeginRun(p) ==
  /\ pc[p] = "idle"
  /\ Overlap \/ Preclones = {}
  /\ \E reset \in BOOLEAN :
       \/ /\ Usable(reset)
          /\ Begin(p, "consume", reset, manifest.generation)
          /\ UNCHANGED drawn
       \/ ~Usable(reset) /\ BeginOnNewNames(p, "inline", reset)
       \/ BeginOnNewNames(p, "tasks", reset)
  /\ UNCHANGED <<manifest, disk>>

\* Fault: the manifest is left for the next run.
ConsumeKeeping(p) ==
  /\ pc[p] = "consume"
  /\ Goto(p, "tasks")
  /\ UNCHANGED <<manifest, disk>>

\* Fault: manifest.unlink(missing_ok=True).
ConsumeMissingOk(p) ==
  /\ pc[p] = "consume"
  /\ Goto(p, "tasks")
  /\ manifest' = NoFile
  /\ UNCHANGED disk

\* manifest.unlink() raises if another run got there first.
Consume(p) ==
  /\ pc[p] = "consume"
  /\ \/ manifest # NoFile /\ Goto(p, "tasks")
     \/ manifest = NoFile /\ Exit(p)
  /\ manifest' = NoFile
  /\ UNCHANGED disk

InlineDone(p) ==
  /\ pc[p] = "inline"
  /\ todo[p] = {}
  /\ pc' = [pc EXCEPT ![p] = "tasks"]
  /\ todo' = [todo EXCEPT ![p] = Task]
  /\ UNCHANGED <<manifest, drawn, disk, flag, plan, working>>

\* _run_one prepares its directory again before it talks to OpenCode.
StartTask(p, t) ==
  /\ pc[p] = "tasks"
  /\ t \in todo[p]
  /\ todo' = [todo EXCEPT ![p] = @ \ {t}]
  /\ \/ Prepared(p, t) /\ working' = [working EXCEPT ![p] = @ \cup {t}]
     \/ NotPrepared(p, t) /\ UNCHANGED working
  /\ UNCHANGED <<manifest, drawn, pc, flag, plan>>

\* The agent works in the directory, over what an earlier agent left if it did.
AgentWorks(p, t) ==
  /\ pc[p] = "tasks"
  /\ t \in working[p]
  /\ working' = [working EXCEPT ![p] = @ \ {t}]
  /\ disk' = [disk EXCEPT ![plan[p]][t] =
                IF @ \in {"used", "reused"} THEN "reused" ELSE "used"]
  /\ UNCHANGED <<manifest, drawn, pc, flag, plan, todo>>

EndRun(p) ==
  /\ pc[p] = "tasks"
  /\ todo[p] = {} /\ working[p] = {}
  /\ Exit(p)
  /\ UNCHANGED <<manifest, disk>>

Kill(p) ==
  /\ pc[p] # "idle"
  /\ Exit(p)
  /\ UNCHANGED <<manifest, disk>>

Next == \E p \in Proc :
  \/ BeginPreclone(p) \/ OpenManifest(p) \/ WriteManifest(p)
  \/ BeginRun(p) \/ Consume(p) \/ InlineDone(p) \/ EndRun(p)
  \/ \E t \in Task : PrepareOne(p, t) \/ StartTask(p, t) \/ AgentWorks(p, t)
  \/ Kill(p)

Spec == Init /\ [][Next]_vars

-------------------------------------------------------------------------------
(* Properties *)

TypeOK ==
  /\ manifest \in {NoFile, Corrupt} \cup [reset : BOOLEAN, generation : Generation]
  /\ drawn \in 0..MaxGeneration
  /\ disk \in [Generation -> [Task -> {"absent", "ready", "used", "reused"}]]
  /\ pc \in [Proc -> {"idle", "preclone", "write", "consume", "inline", "tasks"}]
  /\ flag \in [Proc -> BOOLEAN]
  /\ plan \in [Proc -> Generation]
  /\ todo \in [Proc -> SUBSET Task]
  /\ working \in [Proc -> SUBSET Task]

\* runner.py, run(): the manifest is "single-use: a later run must NOT silently reuse
\* dirty non-reset workspaces".  No agent ever starts over what another one left in a
\* uuid-named directory, through any sequence of invocations and kills.
NoSilentReuse == \A g \in 1..MaxGeneration, t \in Task : disk[g][t] # "reused"

\* A manifest is consumed by one run: two runs that both read it never both start
\* tasks on the uuid-named directories it lists.
OneConsumer ==
  \A p, q \in Proc :
    /\ pc[p] = "tasks" /\ pc[q] = "tasks"
    /\ plan[p] = plan[q] /\ plan[p] # 0
    => p = q

\* Re-running pre-clone works on the directories the manifest already names, so it
\* orphans none of them, and the manifest never names one that was not prepared for
\* its mode.
ResumesInPlace ==
  /\ manifest.generation >= 0 => (manifest.reset <=> manifest.generation = 0)
  /\ \A p \in Preclones : Usable(flag[p]) => plan[p] = manifest.generation
===============================================================================
