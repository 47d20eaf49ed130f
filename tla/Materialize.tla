------------------------------ MODULE Materialize ------------------------------
(***************************************************************************)
(* The life of one workspace directory of the workloads without a          *)
(* repository: prepare_workspace of src/testbed/apps.py (PROBLEM.md, then  *)
(* solution.py) and of src/testbed/terminalbench.py (TASK.md), called      *)
(* again and again by pre-clone passes and runs, and the agents that work  *)
(* in the directory, which may outlive the run that started them.  The     *)
(* function awaits nothing, but it is killed, or a file operation raises,  *)
(* anywhere; write_text empties a file before it fills it.                 *)
(***************************************************************************)
EXTENDS Sequences, SequencesExt

VARIABLES
  workload,    \* "apps" or "terminalbench"
  wipe,        \* --reset-workspace; fixed, as the two modes name directories apart
  at,          \* the statement: "out", "look", "rmtree", "mkdir", "open", "fill"
  writing,     \* the task files the call has yet to write, the current first
  result,      \* how the last call ended: "none", "ok", "error"
  dest,        \* "absent", "file" (no directory) or "directory"
  content,     \* of each task file: "none", "cut" (emptied), "given" or "agent"
  clutter,     \* the directory has other files of an agent's
  worker,      \* an agent loop works in the directory
  meddled,     \* it wrote since the last call began
  halfway,     \* ghost: the last call that came to the files stopped over them
  deleted      \* ghost: an agent removed a task file since the directory was wiped

callVars == <<at, writing, result>>
placeVars == <<dest, content, clutter>>
filesVars == <<workload, wipe, callVars, placeVars, worker, meddled, halfway, deleted>>

TaskFiles == IF workload = "apps" THEN <<"PROBLEM.md", "solution.py">> ELSE <<"TASK.md">>
Marker == Head(TaskFiles)
Files == ToSet(TaskFiles)
Nowhere == [f \in Files |-> "none"]

FilesInit ==
  /\ workload \in {"apps", "terminalbench"} /\ wipe \in BOOLEAN
  /\ at = "out" /\ writing = <<>> /\ result = "none"
  /\ dest \in {"absent", "file"} /\ content = Nowhere /\ clutter = FALSE
  /\ worker = FALSE /\ meddled = FALSE /\ halfway = FALSE /\ deleted = FALSE

Return(how) == at' = "out" /\ writing' = <<>> /\ result' = how

Enter ==
  /\ at = "out"
  /\ at' = "look" /\ writing' = TaskFiles /\ result' = "none"
  /\ meddled' = FALSE
  /\ UNCHANGED <<workload, wipe, placeVars, worker, halfway, deleted>>

\* Fault: the marker is looked for before the flag.
LookForMarkerFirst ==
  /\ at = "look"
  /\ \/ dest = "directory" /\ content[Marker] # "none" /\ Return("ok") /\ UNCHANGED dest
     \/ /\ dest = "directory" /\ content[Marker] = "none"
        /\ at' = (IF wipe THEN "rmtree" ELSE "mkdir")
        /\ UNCHANGED <<dest, writing, result>>
     \/ dest # "directory" /\ dest' = "absent" /\ at' = "mkdir" /\ UNCHANGED <<writing, result>>
  /\ UNCHANGED <<workload, wipe, content, clutter, worker, meddled, halfway, deleted>>

\* What is there: a file is unlinked, a directory wiped, taken as it is if it has the
\* marker, or written to again.
Look ==
  /\ at = "look"
  /\ \/ dest = "directory" /\ ~wipe /\ content[Marker] # "none" /\ Return("ok") /\ UNCHANGED dest
     \/ /\ dest = "directory" /\ (wipe \/ content[Marker] = "none")
        /\ at' = (IF wipe THEN "rmtree" ELSE "mkdir")
        /\ UNCHANGED <<dest, writing, result>>
     \/ dest # "directory" /\ dest' = "absent" /\ at' = "mkdir" /\ UNCHANGED <<writing, result>>
  /\ UNCHANGED <<workload, wipe, content, clutter, worker, meddled, halfway, deleted>>

Rmtree ==
  /\ at = "rmtree"
  /\ dest' = "absent" /\ content' = Nowhere /\ clutter' = FALSE
  /\ at' = "mkdir" /\ deleted' = FALSE
  /\ UNCHANGED <<workload, wipe, writing, result, worker, meddled, halfway>>

\* parents=True, exist_ok=True
Mkdir ==
  /\ at = "mkdir"
  /\ dest' = "directory" /\ at' = "open" /\ halfway' = FALSE
  /\ UNCHANGED <<workload, wipe, writing, result, content, clutter, worker, meddled, deleted>>

\* write_text of the next task file: it is emptied, and filled.
Open ==
  /\ at = "open" /\ dest = "directory"
  /\ content' = [content EXCEPT ![Head(writing)] = "cut"]
  /\ at' = "fill"
  /\ UNCHANGED <<workload, wipe, writing, result, dest, clutter, worker, meddled, halfway, deleted>>

\* What is written to a file that was removed since is lost.
Fill ==
  /\ at = "fill"
  /\ content' = [content EXCEPT ![Head(writing)] = IF @ = "none" THEN "none" ELSE "given"]
  /\ IF Len(writing) = 1 THEN Return("ok")
     ELSE at' = "open" /\ writing' = Tail(writing) /\ UNCHANGED result
  /\ UNCHANGED <<workload, wipe, dest, clutter, worker, meddled, halfway, deleted>>

\* A file operation raises, or the process is killed; rmtree may have removed anything.
Breaks ==
  /\ at # "out"
  /\ Return("error")
  /\ halfway' = (halfway \/ at \in {"rmtree", "open", "fill"})
  /\ \/ UNCHANGED <<content, clutter>>
     \/ /\ at = "rmtree" /\ clutter' \in {clutter, FALSE}
        /\ content' \in {c \in [Files -> {"none", "cut", "given", "agent"}] :
                           \A f \in Files : c[f] \in {content[f], "none"}}
  /\ UNCHANGED <<workload, wipe, dest, worker, meddled, deleted>>

-------------------------------------------------------------------------------
(* The agent loop of the task, on the OpenCode server.                       *)

WorkerBegins ==
  /\ at = "out" /\ result = "ok" /\ ~worker
  /\ worker' = TRUE
  /\ UNCHANGED <<workload, wipe, callVars, placeVars, meddled, halfway, deleted>>

WorkerEnds ==
  /\ worker /\ worker' = FALSE
  /\ UNCHANGED <<workload, wipe, callVars, placeVars, meddled, halfway, deleted>>

\* It writes, removes and creates files; in a directory that was removed under it, its
\* files make a new one.
WorkerWrites ==
  /\ worker /\ meddled' = TRUE /\ dest' = "directory"
  /\ \/ \E f \in Files, c \in {"none", "agent"} :
          /\ content' = [content EXCEPT ![f] = c]
          /\ deleted' = (deleted \/ c = "none")
          /\ UNCHANGED clutter
     \/ clutter' = TRUE /\ UNCHANGED <<content, deleted>>
  /\ UNCHANGED <<workload, wipe, callVars, worker, halfway>>

FilesNext ==
  \/ Enter \/ Look \/ Rmtree \/ Mkdir \/ Open \/ Fill \/ Breaks
  \/ WorkerBegins \/ WorkerEnds \/ WorkerWrites

FilesSpec == FilesInit /\ [][FilesNext]_filesVars

-------------------------------------------------------------------------------
(* Properties *)

TaskFilesGiven ==
  result = "ok" =>
    /\ wipe /\ ~meddled => content = [f \in Files |-> "given"] /\ ~clutter
    /\ ~halfway /\ ~deleted => \A f \in Files : content[f] \in {"given", "agent"}

AgentFilesKept ==
  /\ \A f \in Files : content[f] = "agent" => content'[f] = "agent"
  /\ clutter => clutter'

\* A call that returns leaves what the task gives: with --reset-workspace these files and
\* nothing else, whatever calls, failures and agents came before, unless an agent wrote
\* meanwhile; without it every task file, unless a call stopped over them before, behind
\* the marker that later calls go by, or an agent removed one.  And without
\* --reset-workspace no later call destroys anything an agent left, unless an agent
\* removed a task file, and with it the marker.
MaterializesTask ==
  [][/\ TaskFilesGiven'
     /\ ~wipe /\ ~deleted /\ ~deleted' => AgentFilesKept]_filesVars
===============================================================================
