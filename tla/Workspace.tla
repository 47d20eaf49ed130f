------------------------------ MODULE Workspace ------------------------------
(***************************************************************************)
(* The life of one SWE-bench workspace directory: _pre_clone and the git   *)
(* subprocesses it awaits (src/testbed/runner.py), called again and again  *)
(* by pre-clone passes and runs, any of which may be killed between or in  *)
(* the middle of its steps, and the agent loops that work in the directory *)
(* afterwards, which may outlive the run that started them.                *)
(*                                                                         *)
(* The directory is abstracted to what git's answers depend on:            *)
(*   absent   the path does not exist                                      *)
(*   broken   it exists and `git rev-parse --git-dir` rejects it           *)
(*   hollow   rev-parse accepts it but the clone never got its objects     *)
(*   repo     a complete clone                                             *)
(* The workspace root is taken to lie outside any other git work tree.     *)
(***************************************************************************)
EXTENDS Integers

CONSTANT Retries         \* attempts of a network operation

ASSUME RetriesAssumption == Retries \in Nat \ {0}

Residue == {"edits", "files", "nested"}   \* changed tracked files, untracked
                                          \* files, untracked git repositories

VARIABLES
  reset,       \* --reset-workspace; fixed, as the two modes name directories apart
  pc,          \* the await _pre_clone is at: "idle" when it is not running
  attempts,    \* failed clone attempts of this call
  outcome,     \* how the last call ended: "none", "ok", "error", "killed"
  dir,
  head,        \* the commit checked out: "base" (base_commit) or "other"
  residue,     \* what the work tree holds beyond that commit
  agent,       \* an agent loop works in the directory
  touched      \* it wrote since the last call began

disk == <<dir, head, residue>>
vars == <<reset, pc, attempts, outcome, dir, head, residue, agent, touched>>

Accepted == dir \in {"hollow", "repo"}    \* _is_valid_repo

Goto(label) == pc' = label /\ UNCHANGED outcome
End(result) == pc' = "idle" /\ outcome' = result

Becomes(d, h, r) == dir' = d /\ head' = h /\ residue' = r

-------------------------------------------------------------------------------
(* What git or rmtree leaves behind when it stops half way.                  *)

InterruptedClone == \E d \in {"absent", "broken", "hollow", "repo"} : \E r \in SUBSET {"edits"} :
  Becomes(d, "other", IF d = "repo" THEN r ELSE {})

InterruptedCheckout == \E h \in {head, "base"} : Becomes(dir, h, residue \cup {"edits"})

InterruptedClean == \E kept \in SUBSET residue :
  Becomes(dir, head, kept \cup (residue \cap {"edits", "nested"}))

InterruptedRemoval ==
  \/ \E d \in {"absent", "broken"} : Becomes(d, "other", {})
  \/ /\ Accepted
     /\ \E d \in {"hollow", dir}, kept \in SUBSET residue : Becomes(d, head, kept \cup {"edits"})

-------------------------------------------------------------------------------
Init ==
  /\ reset \in BOOLEAN
  /\ pc = "idle"
  /\ attempts = 0
  /\ outcome = "none"
  /\ dir = "absent" /\ head = "other" /\ residue = {}
  /\ agent = FALSE
  /\ touched = FALSE

\* Called by prepare_workspaces before the first request, and again by _run_one.
Call ==
  /\ pc = "idle"
  /\ pc' = IF dir = "absent" THEN "clone" ELSE "probe"
  /\ attempts' = 0
  /\ outcome' = "none"
  /\ touched' = FALSE
  /\ UNCHANGED <<reset, disk, agent>>

\* Fault: every call resets the directory, whatever the flag.
ProbeIgnoringFlag ==
  /\ pc = "probe"
  /\ \/ Accepted /\ Goto("reset")
     \/ ~Accepted /\ Goto("remove")
  /\ UNCHANGED <<reset, attempts, disk, agent, touched>>

Probe ==
  /\ pc = "probe"
  /\ \/ Accepted /\ ~reset /\ End("ok")
     \/ Accepted /\ reset /\ Goto("reset")
     \/ ~Accepted /\ Goto("remove")
  /\ UNCHANGED <<reset, attempts, disk, agent, touched>>

\* Fault: the untracked files are not cleaned.
ResetWithoutClean ==
  /\ pc = "reset" /\ dir = "repo"
  /\ Becomes("repo", "base", residue \ {"edits"})
  /\ End("ok")
  /\ UNCHANGED <<reset, attempts, agent, touched>>

\* git reset --hard <base_commit>
ResetSucceeds ==
  /\ pc = "reset" /\ dir = "repo"
  /\ Becomes("repo", "base", residue \ {"edits"})
  /\ Goto("clean")
  /\ UNCHANGED <<reset, attempts, agent, touched>>

\* Fault: a failed reset is an error instead of a reason to clone again.
ResetFailureRaised ==
  /\ pc = "reset"
  /\ UNCHANGED disk \/ (dir = "repo" /\ InterruptedCheckout)
  /\ End("error")
  /\ UNCHANGED <<reset, attempts, agent, touched>>

\* Missing objects, a corrupt index, a stale index.lock: fall through to rmtree.
ResetFails ==
  /\ pc = "reset"
  /\ UNCHANGED disk \/ (dir = "repo" /\ InterruptedCheckout)
  /\ Goto("remove")
  /\ UNCHANGED <<reset, attempts, agent, touched>>

\* git clean -fdx leaves untracked repositories alone, and says so to nobody.
CleanSucceeds ==
  /\ pc = "clean"
  /\ Becomes(dir, head, residue \ {"files"})
  /\ End("ok")
  /\ UNCHANGED <<reset, attempts, agent, touched>>

CleanFails ==
  /\ pc = "clean"
  /\ InterruptedClean
  /\ Goto("remove")
  /\ UNCHANGED <<reset, attempts, agent, touched>>

RemoveSucceeds ==
  /\ pc = "remove"
  /\ Becomes("absent", "other", {})
  /\ Goto("clone")
  /\ UNCHANGED <<reset, attempts, agent, touched>>

RemoveRaises ==
  /\ pc = "remove"
  /\ InterruptedRemoval
  /\ End("error")
  /\ UNCHANGED <<reset, attempts, agent, touched>>

CloneSucceeds ==
  /\ pc = "clone" /\ dir = "absent"
  /\ Becomes("repo", "other", {})
  /\ Goto("checkout")
  /\ UNCHANGED <<reset, attempts, agent, touched>>

\* Fault: one attempt too many.
CloneFailsOnceMore ==
  /\ pc = "clone"
  /\ UNCHANGED disk \/ (dir = "absent" /\ InterruptedClone)
  /\ attempts' = attempts + 1
  /\ IF attempts < Retries THEN Goto("clone") ELSE End("error")
  /\ UNCHANGED <<reset, agent, touched>>

\* A clone that exits by itself removes what it created, one that is killed does
\* not, and no clone goes into a directory that exists.
CloneFails ==
  /\ pc = "clone"
  /\ UNCHANGED disk \/ (dir = "absent" /\ InterruptedClone)
  /\ attempts' = attempts + 1
  /\ IF attempts' < Retries THEN Goto("clone") ELSE End("error")
  /\ UNCHANGED <<reset, agent, touched>>

CheckoutSucceeds ==
  /\ pc = "checkout"
  /\ Becomes(dir, "base", residue)
  /\ End("ok")
  /\ UNCHANGED <<reset, attempts, agent, touched>>

CheckoutFails ==
  /\ pc = "checkout"
  /\ UNCHANGED disk \/ InterruptedCheckout
  /\ End("error")
  /\ UNCHANGED <<reset, attempts, agent, touched>>

\* The process dies, or the task is cancelled and its git subprocess with it.
Kill ==
  /\ pc # "idle"
  /\ \/ UNCHANGED disk
     \/ pc = "reset" /\ dir = "repo" /\ InterruptedCheckout
     \/ pc = "clean" /\ InterruptedClean
     \/ pc = "remove" /\ InterruptedRemoval
     \/ pc = "clone" /\ dir = "absent" /\ InterruptedClone
     \/ pc = "checkout" /\ InterruptedCheckout
  /\ End("killed")
  /\ UNCHANGED <<reset, attempts, agent, touched>>

-------------------------------------------------------------------------------
(* The agent loop of the task, on the OpenCode server.                       *)

AgentBegins ==
  /\ pc = "idle" /\ outcome = "ok"
  /\ ~agent
  /\ agent' = TRUE
  /\ UNCHANGED <<reset, pc, attempts, outcome, disk, touched>>

\* It edits, creates files and repositories, commits or checks out; in a directory
\* that was removed under it, its files make one that is no repository.
AgentWrites ==
  /\ agent
  /\ touched' = TRUE
  /\ \/ Accepted /\ \E r \in Residue, h \in {head, "other"} : Becomes(dir, h, residue \cup {r})
     \/ ~Accepted /\ Becomes("broken", "other", {})
  /\ UNCHANGED <<reset, pc, attempts, outcome, agent>>

\* The run that started the agent need not wait for it (see Runner, Timeout).
AgentEnds ==
  /\ agent
  /\ agent' = FALSE
  /\ UNCHANGED <<reset, pc, attempts, outcome, disk, touched>>

Next ==
  \/ Call \/ Probe
  \/ ResetSucceeds \/ ResetFails \/ CleanSucceeds \/ CleanFails
  \/ RemoveSucceeds \/ RemoveRaises
  \/ CloneSucceeds \/ CloneFails \/ CheckoutSucceeds \/ CheckoutFails
  \/ Kill
  \/ AgentBegins \/ AgentWrites \/ AgentEnds

(***************************************************************************)
(* The operator keeps calling, agents end, and neither git, the disk nor   *)
(* the network fails for ever: a step tried again and again gets through.  *)
(***************************************************************************)
Fairness ==
  /\ WF_vars(Call) /\ WF_vars(AgentEnds)
  /\ SF_vars(Probe) /\ SF_vars(ResetSucceeds) /\ SF_vars(CleanSucceeds)
  /\ SF_vars(RemoveSucceeds) /\ SF_vars(CloneSucceeds) /\ SF_vars(CheckoutSucceeds)
  /\ SF_vars(ResetSucceeds \/ ResetFails) /\ SF_vars(CloneSucceeds \/ CloneFails)

Spec == Init /\ [][Next]_vars
FairSpec == Spec /\ Fairness

-------------------------------------------------------------------------------
(* Properties *)

TypeOK ==
  /\ reset \in BOOLEAN
  /\ pc \in {"idle", "probe", "reset", "clean", "remove", "clone", "checkout"}
  /\ attempts \in 0..Retries
  /\ outcome \in {"none", "ok", "error", "killed"}
  /\ dir \in {"absent", "broken", "hollow", "repo"}
  /\ head \in {"base", "other"}
  /\ residue \subseteq Residue
  /\ agent \in BOOLEAN
  /\ touched \in BOOLEAN

\* With --reset-workspace a call that returns leaves the complete repository at
\* base_commit without edits or untracked files, whatever earlier calls, kills and
\* agents did to the directory, unless a surviving agent wrote to it meanwhile.
ResetReproduces ==
  reset /\ outcome = "ok" /\ ~touched =>
    dir = "repo" /\ head = "base" /\ residue \subseteq {"nested"}

\* Without --reset-workspace nothing an agent left behind is ever destroyed, by
\* any number of later calls, failures and kills ("an existing valid dest is
\* reused untouched").
ArtifactsPreserved == [][~reset => residue \subseteq residue']_vars

\* No debris wedges a resetting workspace: whatever state it is left in, it is
\* eventually prepared again.
AlwaysRecovers == reset => []<>(outcome = "ok")

\* runner.py, _pre_clone: "A broken checkout (interrupted clone, half-written .git)
\* is detected via `git rev-parse --git-dir` ... and nuked + re-cloned in BOTH modes."
InterruptedCloneDetected == outcome = "ok" /\ ~touched => dir = "repo"

\* runner.py, _pre_clone: "Prepare <dest> at <repo>@<base_commit>. Fail-fast": where
\* nothing is killed and no agent ever worked, a call that returns leaves base_commit
\* checked out.
PreparedAtBase ==
  [](~agent /\ outcome # "killed") =>
    [](outcome = "ok" /\ dir = "repo" => head = "base")

\* runner.py, _pre_clone: "With reset=True, an existing valid checkout is wiped back
\* to base_commit ... otherwise prior agent-loop artifacts leak in."
WipedBack == reset /\ outcome = "ok" /\ ~touched => residue = {}
===============================================================================
