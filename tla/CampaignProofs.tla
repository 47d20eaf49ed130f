---------------------------- MODULE CampaignProofs ----------------------------
(***************************************************************************)
(* Both ways to give a task its directory.  First prepare_workspace of the *)
(* workloads without a repository, which leaves what the task gives        *)
(* (MaterializesTask), for calls, failures and agents in any order.        *)
(*                                                                         *)
(* That argument follows the marker, the first file that is written.       *)
(* Without --reset-workspace and without deletions the marker is there     *)
(* before anything else and stays (MarkerFirst), so that a call that does  *)
(* write finds an empty directory without an agent (Untouched).  With it   *)
(* the directory is wiped before it is written to (Wiped).                 *)
(*                                                                         *)
(* Then the manifest protocol for any sample set, any number of processes  *)
(* and any number of generations, as long as pre-clone runs alone          *)
(* (~Overlap; with Overlap the claims are false, as a run of TLC shows).   *)
(***************************************************************************)
EXTENDS Campaign, Materialize, TLAPS

-------------------------------------------------------------------------------
(* Workspaces without a repository *)

FilesTyped ==
  /\ workload \in {"apps", "terminalbench"} /\ wipe \in BOOLEAN
  /\ at \in {"out", "look", "rmtree", "mkdir", "open", "fill"}
  /\ result \in {"none", "ok", "error"}
  /\ dest \in {"absent", "file", "directory"}
  /\ content \in [Files -> {"none", "cut", "given", "agent"}]
  /\ clutter \in BOOLEAN /\ worker \in BOOLEAN /\ meddled \in BOOLEAN
  /\ halfway \in BOOLEAN /\ deleted \in BOOLEAN

\* The files yet to write are all of them, or all but the marker.
InTurn ==
  \/ at = "out" /\ writing = <<>>
  \/ at \in {"look", "rmtree", "mkdir"} /\ writing = TaskFiles
  \/ at \in {"open", "fill"} /\ writing = TaskFiles
  \/ at \in {"open", "fill"} /\ workload = "apps" /\ writing = <<"solution.py">>

Pending == IF writing = TaskFiles THEN Files ELSE Files \ {Marker}
Written == Files \ Pending
InPlace(f) == content[f] \in {"given", "agent"}

\* A directory that is not there has no files.
Absence == dest # "directory" => content = Nowhere /\ ~clutter

\* Only calls that wipe remove a directory; a call at work has not ended, nor stopped.
CallModes ==
  /\ at = "rmtree" => wipe
  /\ at # "out" => result = "none"
  /\ at \in {"open", "fill"} => ~halfway

\* Without a reset and without deletions: before the marker there is nothing, and
\* nobody; and a call only writes when there is no marker.
MarkerFirst ==
  ~wipe /\ ~deleted =>
    /\ content[Marker] = "none" => content = Nowhere /\ ~clutter /\ ~worker /\ result # "ok"
    /\ at = "mkdir" => content[Marker] = "none"
Untouched ==
  ~wipe /\ ~deleted /\ at \in {"open", "fill"} => ~worker /\ \A f \in Files : content[f] # "agent"

\* A call that was not stopped over the files, and no agent's deletion.
Sound ==
  ~halfway /\ ~deleted =>
    /\ at \in {"open", "fill"} => \A f \in Written : InPlace(f)
    /\ at = "fill" => content[Head(writing)] # "none"
    /\ ~wipe /\ at \in {"out", "look"} /\ content[Marker] # "none" => \A f \in Files : InPlace(f)

\* A call that wipes, while no agent writes.
Wiped ==
  wipe /\ ~meddled =>
    /\ at = "mkdir" => content = Nowhere /\ ~clutter
    /\ at \in {"open", "fill"} => ~clutter /\ \A f \in Written : content[f] = "given"
    /\ at = "fill" => content[Head(writing)] = "cut"

FilesInv ==
  /\ FilesTyped /\ InTurn /\ Absence /\ CallModes /\ MarkerFirst /\ Untouched /\ Sound /\ Wiped
  /\ TaskFilesGiven

-------------------------------------------------------------------------------
(* The files of a task *)

LEMMA TaskFilesAre ==
  ASSUME workload \in {"apps", "terminalbench"}
  PROVE  /\ workload = "apps" => /\ TaskFiles = <<"PROBLEM.md", "solution.py">>
                                 /\ Files = {"PROBLEM.md", "solution.py"}
                                 /\ Marker = "PROBLEM.md"
         /\ workload # "apps" => /\ TaskFiles = <<"TASK.md">>
                                 /\ Files = {"TASK.md"} /\ Marker = "TASK.md"
         /\ Marker \in Files
  BY DEF TaskFiles, Files, Marker, ToSet

\* Which file is the current one, and which are left after it.
LEMMA CurrentFile ==
  ASSUME FilesTyped, InTurn, at \in {"open", "fill"}
  PROVE  /\ Head(writing) \in Pending /\ Pending \subseteq Files
         /\ writing = TaskFiles <=> Head(writing) = Marker
         /\ Len(writing) = 1 => Pending = {Head(writing)}
         /\ Len(writing) # 1 =>
              /\ Tail(writing) = <<"solution.py">> /\ workload = "apps"
              /\ writing = TaskFiles /\ Tail(writing) # TaskFiles
              /\ Files \ {Marker} = Pending \ {Head(writing)}
  <1>1. workload \in {"apps", "terminalbench"}
    BY DEF FilesTyped
  <1>2. CASE workload = "apps" /\ writing = TaskFiles
    <2>1. writing = <<"PROBLEM.md", "solution.py">> /\ Files = {"PROBLEM.md", "solution.py"}
          /\ Marker = "PROBLEM.md" /\ Pending = Files
      BY <1>1, <1>2, TaskFilesAre DEF Pending
    <2>2. Head(writing) = "PROBLEM.md" /\ Tail(writing) = <<"solution.py">> /\ Len(writing) = 2
      BY <2>1
    <2>3. Tail(writing) # TaskFiles
      <3>1. Tail(writing)[1] # TaskFiles[1]
        BY <1>2, <2>1, <2>2
      <3>2. QED
        BY <3>1
    <2>4. QED
      BY <1>2, <2>1, <2>2, <2>3
  <1>3. CASE workload = "apps" /\ writing # TaskFiles
    <2>1. writing = <<"solution.py">> /\ Files = {"PROBLEM.md", "solution.py"}
          /\ Marker = "PROBLEM.md" /\ Pending = {"solution.py"}
      BY <1>1, <1>3, TaskFilesAre DEF InTurn, Pending
    <2>2. Head(writing) = "solution.py" /\ Len(writing) = 1
      BY <2>1
    <2>3. QED
      BY <1>3, <2>1, <2>2
  <1>4. CASE workload # "apps"
    <2>1. writing = <<"TASK.md">> /\ Files = {"TASK.md"} /\ writing = TaskFiles
          /\ Marker = "TASK.md" /\ Pending = Files
      BY <1>1, <1>4, TaskFilesAre DEF InTurn, Pending
    <2>2. Head(writing) = "TASK.md" /\ Len(writing) = 1
      BY <2>1
    <2>3. QED
      BY <2>1, <2>2
  <1>5. QED
    BY <1>2, <1>3, <1>4

\* The workload does not change, nor do the names that hang on it.
LEMMA NamesStay ==
  ASSUME workload' = workload
  PROVE  /\ TaskFiles' = TaskFiles /\ Files' = Files /\ Marker' = Marker
         /\ Nowhere' = Nowhere
  BY DEF TaskFiles, Files, Marker, Nowhere

LEMMA NowhereIs ==
  Nowhere \in [Files -> {"none", "cut", "given", "agent"}] /\ \A f \in Files : Nowhere[f] = "none"
  BY DEF Nowhere

LEMMA InitFilesInv == FilesInit => FilesInv
  <1> SUFFICES ASSUME FilesInit PROVE FilesInv
    OBVIOUS
  <1>1. FilesTyped
    BY NowhereIs DEF FilesInit, FilesTyped
  <1>2. InTurn /\ Absence /\ CallModes /\ TaskFilesGiven
    BY DEF FilesInit, InTurn, Absence, CallModes, TaskFilesGiven
  <1>3. MarkerFirst /\ Untouched /\ Wiped
    BY DEF FilesInit, MarkerFirst, Untouched, Wiped
  <1>4. Sound
    BY <1>1, NowhereIs, TaskFilesAre DEF FilesInit, Sound, FilesTyped
  <1>5. QED
    BY <1>1, <1>2, <1>3, <1>4 DEF FilesInv

-------------------------------------------------------------------------------
(* One lemma per statement of the call *)

LEMMA EnterStep == FilesInv /\ Enter => FilesInv'
  <1> SUFFICES ASSUME FilesInv, Enter PROVE FilesInv'
    OBVIOUS
  <1> USE NamesStay DEF FilesInv, Enter, placeVars
  <1>1. FilesTyped' /\ InTurn' /\ Absence' /\ CallModes' /\ TaskFilesGiven'
    BY DEF FilesTyped, InTurn, Absence, CallModes, TaskFilesGiven
  <1>2. MarkerFirst' /\ Untouched' /\ Wiped'
    BY DEF MarkerFirst, Untouched, Wiped
  <1>3. Sound'
    BY DEF Sound, InPlace
  <1>4. QED
    BY <1>1, <1>2, <1>3

LEMMA LookStep == FilesInv /\ Look => FilesInv'
  <1> SUFFICES ASSUME FilesInv, Look PROVE FilesInv'
    OBVIOUS
  <1> USE NamesStay DEF FilesInv, Look, Return
  <1>0. FilesTyped /\ Marker \in Files
    BY TaskFilesAre DEF FilesTyped
  <1>1. FilesTyped' /\ InTurn' /\ Absence' /\ CallModes'
    BY DEF FilesTyped, InTurn, Absence, CallModes
  <1>2. Untouched' /\ MarkerFirst'
    BY <1>0, NowhereIs DEF MarkerFirst, Untouched, Absence
  <1>3. Wiped'
    BY DEF Wiped, Absence
  <1>4. Sound'
    BY DEF Sound, InPlace
  <1>5. TaskFilesGiven'
    BY DEF TaskFilesGiven, CallModes, Sound, InPlace
  <1>6. QED
    BY <1>1, <1>2, <1>3, <1>4, <1>5

LEMMA RmtreeStep == FilesInv /\ Rmtree => FilesInv'
  <1> SUFFICES ASSUME FilesInv, Rmtree PROVE FilesInv'
    OBVIOUS
  <1> USE NamesStay DEF FilesInv, Rmtree
  <1>1. FilesTyped' /\ InTurn' /\ Absence' /\ CallModes' /\ TaskFilesGiven'
    BY NowhereIs DEF FilesTyped, InTurn, Absence, CallModes, TaskFilesGiven
  <1>2. MarkerFirst' /\ Untouched' /\ Wiped' /\ Sound'
    BY DEF MarkerFirst, Untouched, Wiped, Sound, CallModes
  <1>3. QED
    BY <1>1, <1>2

LEMMA MkdirStep == FilesInv /\ Mkdir => FilesInv'
  <1> SUFFICES ASSUME FilesInv, Mkdir PROVE FilesInv'
    OBVIOUS
  <1> USE NamesStay DEF FilesInv, Mkdir
  <1>1. FilesTyped' /\ InTurn' /\ Absence' /\ CallModes' /\ TaskFilesGiven'
    BY DEF FilesTyped, InTurn, Absence, CallModes, TaskFilesGiven
  <1>2. writing = TaskFiles
    BY DEF InTurn
  <1>3. Written' = {}
    BY <1>2 DEF Written, Pending
  <1>4. MarkerFirst'
    BY DEF MarkerFirst
  <1>5. Untouched'
    BY NowhereIs DEF MarkerFirst, Untouched
  <1>6. Wiped' /\ Sound'
    BY <1>3 DEF Wiped, Sound
  <1>7. QED
    BY <1>1, <1>4, <1>5, <1>6

LEMMA OpenStep == FilesInv /\ Open => FilesInv'
  <1> SUFFICES ASSUME FilesInv, Open PROVE FilesInv'
    OBVIOUS
  <1> DEFINE h == Head(writing)
  <1>1. /\ workload' = workload /\ writing' = writing /\ at' = "fill" /\ at = "open"
        /\ content' = [content EXCEPT ![h] = "cut"]
        /\ UNCHANGED <<wipe, result, dest, clutter, worker, meddled, halfway, deleted>>
    BY DEF Open
  <1>2. /\ h \in Pending /\ Pending \subseteq Files
        /\ writing = TaskFiles <=> h = Marker
    BY <1>1, CurrentFile DEF FilesInv
  <1> HIDE DEF h
  <1>3. /\ content \in [Files -> {"none", "cut", "given", "agent"}]
        /\ content'[h] = "cut" /\ \A f \in Files : f # h => content'[f] = content[f]
    BY <1>1, <1>2 DEF FilesInv, FilesTyped
  <1>4. Files' = Files /\ TaskFiles' = TaskFiles /\ Marker' = Marker /\ Nowhere' = Nowhere
        /\ Pending' = Pending /\ Written' = Written /\ Head(writing)' = h
    BY <1>1, NamesStay DEF Pending, Written, h
  <1>5. FilesTyped'
    <2>1. content' \in [Files -> {"none", "cut", "given", "agent"}]
      BY <1>1, <1>3
    <2>2. QED
      BY <1>1, <1>4, <2>1 DEF FilesInv, FilesTyped
  <1>6. InTurn' /\ CallModes' /\ Absence' /\ TaskFilesGiven'
    BY <1>1, <1>4 DEF FilesInv, InTurn, CallModes, Absence, TaskFilesGiven, Open
  <1>7. MarkerFirst'
    <2>1. CASE h = Marker
      BY <1>1, <1>3, <1>4, <2>1 DEF MarkerFirst
    <2>2. CASE h # Marker
      <3>1. Marker \in Files /\ Marker \in Written
        BY <1>1, <1>2, <2>2, TaskFilesAre DEF Written, Pending, FilesInv, FilesTyped
      <3>2. content'[Marker] = content[Marker]
        BY <1>3, <2>2, <3>1
      <3>3. ~wipe /\ ~deleted => content[Marker] # "none"
        BY <1>1, <1>2, <2>2, <3>1, NowhereIs DEF FilesInv, CallModes, Sound, InPlace
      <3>4. QED
        BY <1>1, <1>4, <3>2, <3>3 DEF MarkerFirst
    <2>3. QED
      BY <2>1, <2>2
  <1>8. Untouched'
    BY <1>1, <1>3, <1>4 DEF FilesInv, Untouched
  <1>9. Sound' /\ Wiped'
    <2>1. \A f \in Written : f \in Files /\ f # h
      BY <1>2 DEF Written
    <2>2. QED
      BY <1>1, <1>3, <1>4, <2>1 DEF FilesInv, Sound, Wiped, InPlace
  <1>10. QED
    BY <1>5, <1>6, <1>7, <1>8, <1>9 DEF FilesInv

LEMMA FillStep == FilesInv /\ Fill => FilesInv'
  <1> SUFFICES ASSUME FilesInv, Fill PROVE FilesInv'
    OBVIOUS
  <1> DEFINE h == Head(writing)
  <1>1. /\ workload' = workload /\ at = "fill" /\ result = "none" /\ ~halfway
        /\ content' = [content EXCEPT ![h] = IF @ = "none" THEN "none" ELSE "given"]
        /\ UNCHANGED <<wipe, dest, clutter, worker, meddled, halfway, deleted>>
    BY DEF Fill, FilesInv, CallModes
  <1>2. /\ h \in Pending /\ Pending \subseteq Files
        /\ Len(writing) = 1 => Pending = {h}
        /\ Len(writing) # 1 =>
             /\ Tail(writing) = <<"solution.py">> /\ workload = "apps"
             /\ writing = TaskFiles /\ Tail(writing) # TaskFiles
             /\ Files \ {Marker} = Pending \ {h}
    BY <1>1, CurrentFile DEF FilesInv
  <1>3. /\ ~deleted => content[h] # "none"
        /\ ~deleted => \A f \in Written : InPlace(f)
        /\ wipe /\ ~meddled => ~clutter /\ content[h] = "cut" /\ \A f \in Written : content[f] = "given"
    BY <1>1 DEF FilesInv, Sound, Wiped
  <1>4. Files' = Files /\ TaskFiles' = TaskFiles /\ Marker' = Marker /\ Nowhere' = Nowhere
    BY <1>1, NamesStay
  <1> HIDE DEF h
  <1>5. /\ content' \in [Files -> {"none", "cut", "given", "agent"}]
        /\ content'[h] = IF content[h] = "none" THEN "none" ELSE "given"
        /\ \A f \in Files : f # h => content'[f] = content[f]
    BY <1>1, <1>2 DEF FilesInv, FilesTyped
  <1>6. /\ ~deleted => \A f \in Written \cup {h} : InPlace(f)'
        /\ wipe /\ ~meddled => \A f \in Written \cup {h} : content'[f] = "given"
    BY <1>2, <1>3, <1>5 DEF InPlace, Written
  <1>7. CASE Len(writing) = 1
    <2>1. at' = "out" /\ writing' = <<>> /\ result' = "ok"
      BY <1>7 DEF Fill, Return
    <2>2. Written \cup {h} = Files
      BY <1>2, <1>7 DEF Written
    <2>3. FilesTyped' /\ InTurn' /\ CallModes'
      BY <1>1, <1>4, <1>5, <2>1 DEF FilesInv, FilesTyped, InTurn, CallModes
    <2>4. Absence'
      BY <1>1, <1>2, <1>4, <1>5, NowhereIs DEF FilesInv, Absence
    <2>5. Marker \in Files
      BY TaskFilesAre DEF FilesInv, FilesTyped
    <2>6. MarkerFirst' /\ Untouched' /\ Wiped'
      BY <1>1, <1>4, <1>6, <2>1, <2>2, <2>5 DEF MarkerFirst, Untouched, Wiped, InPlace
    <2>7. Sound'
      BY <1>1, <1>4, <1>6, <2>1, <2>2 DEF Sound
    <2>8. TaskFilesGiven'
      <3>1. wipe /\ ~meddled => content' = [f \in Files |-> "given"]
        BY <1>5, <1>6, <2>2
      <3>2. QED
        BY <1>1, <1>3, <1>4, <1>6, <2>2, <3>1 DEF TaskFilesGiven, InPlace
    <2>9. QED
      BY <2>3, <2>4, <2>6, <2>7, <2>8 DEF FilesInv
  <1>8. CASE Len(writing) # 1
    <2>1. at' = "open" /\ writing' = Tail(writing) /\ result' = result
      BY <1>8 DEF Fill
    <2>2. Written' = Written \cup {h} /\ Marker \in Written'
      <3>1. Pending' = Pending \ {h}
        BY <1>2, <1>4, <1>8, <2>1 DEF Pending
      <3>2. Marker \in Files /\ Pending' = Files \ {Marker}
        BY <1>2, <1>8, <3>1, TaskFilesAre DEF FilesInv, FilesTyped
      <3>3. QED
        BY <1>2, <1>4, <3>1, <3>2 DEF Written
    <2>3. FilesTyped' /\ InTurn' /\ CallModes' /\ TaskFilesGiven'
      BY <1>1, <1>2, <1>4, <1>5, <1>8, <2>1 DEF FilesInv, FilesTyped, InTurn, CallModes, TaskFilesGiven
    <2>4. Absence'
      BY <1>1, <1>2, <1>4, <1>5, NowhereIs DEF FilesInv, Absence
    <2>5. MarkerFirst'
      BY <1>1, <1>4, <1>6, <2>1, <2>2 DEF MarkerFirst, InPlace
    <2>6. Untouched'
      BY <1>1, <1>2, <1>4, <1>5, <2>1 DEF FilesInv, Untouched
    <2>7. Sound' /\ Wiped'
      BY <1>1, <1>3, <1>6, <2>1, <2>2 DEF Sound, Wiped
    <2>8. QED
      BY <2>3, <2>4, <2>5, <2>6, <2>7 DEF FilesInv
  <1>9. QED
    BY <1>7, <1>8

LEMMA BreaksStep == FilesInv /\ Breaks => FilesInv'
  <1> SUFFICES ASSUME FilesInv, Breaks PROVE FilesInv'
    OBVIOUS
  <1> USE NamesStay DEF FilesInv, Breaks, Return
  <1>1. FilesTyped'
    <2>1. halfway' \in BOOLEAN /\ clutter' \in BOOLEAN
      BY DEF FilesTyped
    <2>2. QED
      BY <2>1 DEF FilesTyped
  <1>2. InTurn' /\ CallModes' /\ TaskFilesGiven' /\ Wiped' /\ Untouched'
    BY DEF InTurn, CallModes, TaskFilesGiven, Wiped, Untouched
  <1>3. Absence'
    <2>1. CASE UNCHANGED <<content, clutter>>
      BY <2>1 DEF Absence
    <2>2. CASE content' \in [Files -> {"none", "cut", "given", "agent"}]
               /\ (\A f \in Files : content'[f] \in {content[f], "none"})
               /\ clutter' \in {clutter, FALSE}
      <3>1. dest # "directory" => \A f \in Files : content'[f] = "none"
        BY <2>2, NowhereIs DEF Absence
      <3>2. dest # "directory" => content' = Nowhere /\ ~clutter'
        BY <2>2, <3>1 DEF Absence, Nowhere
      <3>3. QED
        BY <3>2 DEF Absence
    <2>3. QED
      BY <2>1, <2>2
  <1>4. MarkerFirst'
    BY DEF MarkerFirst, CallModes
  <1>5. Sound'
    <2>1. CASE at \in {"look", "mkdir"}
      <3>1. UNCHANGED content /\ at' = "out" /\ (~halfway' => ~halfway)
        BY <2>1
      <3>2. ~halfway /\ ~deleted /\ ~wipe /\ content[Marker] # "none" =>
              \A f \in Files : InPlace(f)
        BY <2>1 DEF Sound, MarkerFirst
      <3>3. QED
        BY <3>1, <3>2 DEF Sound, InPlace
    <2>2. CASE at \in {"rmtree", "open", "fill"}
      BY <2>2 DEF Sound
    <2>3. QED
      BY <2>1, <2>2 DEF FilesTyped
  <1>6. QED
    BY <1>1, <1>2, <1>3, <1>4, <1>5

-------------------------------------------------------------------------------
(* The agents *)

LEMMA WorkerBeginsStep == FilesInv /\ WorkerBegins => FilesInv'
  <1> SUFFICES ASSUME FilesInv, WorkerBegins PROVE FilesInv'
    OBVIOUS
  <1> USE NamesStay DEF FilesInv, WorkerBegins, callVars, placeVars
  <1>1. FilesTyped' /\ InTurn' /\ Absence' /\ CallModes' /\ TaskFilesGiven'
    BY DEF FilesTyped, InTurn, Absence, CallModes, TaskFilesGiven
  <1>2. MarkerFirst' /\ Untouched' /\ Wiped'
    BY DEF MarkerFirst, Untouched, Wiped
  <1>3. Sound'
    BY DEF Sound, InPlace
  <1>4. QED
    BY <1>1, <1>2, <1>3

\* Nothing but whether an agent works changes.
LEMMA WorkerEndsStep ==
  ASSUME FilesInv, worker' = worker \/ worker' = FALSE,
         UNCHANGED <<workload, wipe, callVars, placeVars, meddled, halfway, deleted>>
  PROVE  FilesInv'
  <1> USE NamesStay DEF FilesInv, callVars, placeVars
  <1>1. FilesTyped'
    <2>1. worker' \in BOOLEAN
      BY Zenon DEF FilesTyped
    <2>2. QED
      BY <2>1 DEF FilesTyped
  <1>2. InTurn' /\ Absence' /\ CallModes' /\ TaskFilesGiven'
    BY DEF InTurn, Absence, CallModes, TaskFilesGiven
  <1>3. Pending' = Pending /\ Written' = Written
    BY DEF Pending, Written
  <1>4. MarkerFirst' /\ Untouched'
    BY DEF MarkerFirst, Untouched
  <1>5. Wiped' /\ Sound'
    BY <1>3 DEF Wiped, Sound, InPlace
  <1>6. QED
    BY <1>1, <1>2, <1>4, <1>5

LEMMA WorkerWritesStep == FilesInv /\ WorkerWrites => FilesInv'
  <1> SUFFICES ASSUME FilesInv, WorkerWrites PROVE FilesInv'
    OBVIOUS
  <1>1. /\ worker /\ meddled' = TRUE /\ dest' = "directory"
        /\ UNCHANGED <<workload, wipe, at, writing, result, worker, halfway>>
    BY DEF WorkerWrites, callVars
  <1>2. /\ content' \in [Files -> {"none", "cut", "given", "agent"}]
        /\ clutter' \in BOOLEAN /\ deleted' \in BOOLEAN /\ (~deleted' => ~deleted)
        /\ ~deleted' => \A f \in Files : content'[f] \in {content[f], "agent"}
    <2> USE DEF FilesInv, FilesTyped
    <2>1. CASE clutter' = TRUE /\ UNCHANGED <<content, deleted>>
      BY <2>1
    <2>2. ASSUME NEW f \in Files, NEW c \in {"none", "agent"},
                 content' = [content EXCEPT ![f] = c], deleted' = (deleted \/ c = "none"),
                 UNCHANGED clutter
          PROVE  /\ content' \in [Files -> {"none", "cut", "given", "agent"}]
                 /\ clutter' \in BOOLEAN /\ deleted' \in BOOLEAN /\ (~deleted' => ~deleted)
                 /\ ~deleted' => \A g \in Files : content'[g] \in {content[g], "agent"}
      BY <2>2
    <2>3. QED
      BY <2>1, <2>2 DEF WorkerWrites
  <1>3. Files' = Files /\ TaskFiles' = TaskFiles /\ Marker' = Marker /\ Nowhere' = Nowhere
        /\ Pending' = Pending /\ Written' = Written /\ Marker \in Files
    BY <1>1, NamesStay, TaskFilesAre DEF Pending, Written, FilesInv, FilesTyped
  <1>4. FilesTyped' /\ InTurn' /\ CallModes' /\ Absence' /\ Wiped'
    BY <1>1, <1>2, <1>3 DEF FilesInv, FilesTyped, InTurn, CallModes, Absence, Wiped
  <1>5. MarkerFirst' /\ Untouched'
    BY <1>1, <1>2, <1>3 DEF FilesInv, MarkerFirst, Untouched
  <1>6. TaskFilesGiven'
    BY <1>1, <1>2, <1>3 DEF FilesInv, TaskFilesGiven
  <1>7. Sound'
    <2>1. at \in {"open", "fill"} => Head(writing) \in Files
      BY CurrentFile DEF FilesInv
    <2>2. \A f \in Written : f \in Files
      BY DEF Written
    <2>3. ~wipe /\ ~deleted => content[Marker] # "none"
      BY <1>1 DEF FilesInv, MarkerFirst
    <2>4. QED
      BY <1>1, <1>2, <1>3, <2>1, <2>2, <2>3 DEF FilesInv, Sound, InPlace
  <1>8. QED
    BY <1>4, <1>5, <1>6, <1>7 DEF FilesInv

LEMMA NextKeepsFilesInv == FilesInv /\ [FilesNext]_filesVars => FilesInv'
  <1>1. FilesInv /\ UNCHANGED filesVars => FilesInv'
    BY WorkerEndsStep DEF filesVars
  <1>2. FilesInv /\ WorkerEnds => FilesInv'
    BY WorkerEndsStep DEF WorkerEnds
  <1>3. QED
    BY <1>1, <1>2, EnterStep, LookStep, RmtreeStep, MkdirStep, OpenStep, FillStep, BreaksStep,
       WorkerBeginsStep, WorkerWritesStep DEF FilesNext

-------------------------------------------------------------------------------
(* What follows *)

\* Without a reset and without deletions no statement writes over an agent's file.
LEMMA AgentsKeepTheirFiles ==
  FilesInv /\ FilesNext /\ ~wipe /\ ~deleted /\ ~deleted' => AgentFilesKept
  <1> SUFFICES ASSUME FilesInv, FilesNext, ~wipe, ~deleted, ~deleted' PROVE AgentFilesKept
    OBVIOUS
  <1> USE DEF AgentFilesKept
  <1>1. CASE Open \/ Fill
    <2>1. at \in {"open", "fill"} /\ \A f \in Files : content[f] # "agent"
      BY <1>1 DEF Open, Fill, FilesInv, Untouched
    <2>2. QED
      BY <1>1, <2>1 DEF Open, Fill
  <1>2. CASE WorkerWrites
    <2>1. CASE UNCHANGED <<content, deleted>> /\ clutter' = TRUE
      BY <2>1
    <2>2. ASSUME NEW f \in Files, NEW c \in {"none", "agent"},
                 content' = [content EXCEPT ![f] = c], deleted' = (deleted \/ c = "none"),
                 UNCHANGED clutter
          PROVE  AgentFilesKept
      <3>1. c = "agent" /\ content \in [Files -> {"none", "cut", "given", "agent"}]
        BY <2>2 DEF FilesInv, FilesTyped
      <3>2. QED
        BY <2>2, <3>1
    <2>3. QED
      BY <1>2, <2>1, <2>2 DEF WorkerWrites
  <1>3. ~Rmtree
    BY DEF Rmtree, FilesInv, CallModes
  <1>4. CASE Breaks
    <2>1. at # "rmtree"
      BY DEF FilesInv, CallModes
    <2>2. UNCHANGED <<content, clutter>>
      BY <1>4, <2>1, Zenon DEF Breaks
    <2>3. QED
      BY <2>2
  <1>5. CASE Enter \/ Look \/ Mkdir \/ WorkerBegins \/ WorkerEnds
    BY <1>5 DEF Enter, Look, Mkdir, WorkerBegins, WorkerEnds, placeVars
  <1>6. QED
    BY <1>1, <1>2, <1>3, <1>4, <1>5 DEF FilesNext

\* prepare_workspace returns with what the task gives in the directory, and destroys
\* nothing of an agent's without --reset-workspace, whatever came before.
THEOREM TaskIsMaterialized == FilesSpec => MaterializesTask
  <1>1. FilesInv /\ [FilesNext]_filesVars =>
          [/\ TaskFilesGiven'
           /\ ~wipe /\ ~deleted /\ ~deleted' => AgentFilesKept]_filesVars
    BY NextKeepsFilesInv, AgentsKeepTheirFiles DEF FilesInv
  <1>2. QED
    BY <1>1, InitFilesInv, NextKeepsFilesInv, PTL DEF FilesSpec, MaterializesTask

-------------------------------------------------------------------------------
(* The manifest *)

USE CampaignAssumption

(* Type correctness *)

LEMMA BeginType ==
  ASSUME TypeOK, NEW p \in Proc, NEW label \in {"preclone", "consume", "inline", "tasks"},
         NEW reset \in BOOLEAN, NEW generation \in Generation,
         Begin(p, label, reset, generation)
  PROVE  /\ pc' \in [Proc -> {"idle", "preclone", "write", "consume", "inline", "tasks"}]
         /\ flag' \in [Proc -> BOOLEAN]
         /\ plan' \in [Proc -> Generation]
         /\ todo' \in [Proc -> SUBSET Task]
         /\ working' \in [Proc -> SUBSET Task]
  BY DEF TypeOK, Begin

LEMMA BeginOnNewNamesType ==
  ASSUME TypeOK, NEW p \in Proc, NEW label \in {"preclone", "inline", "tasks"},
         NEW reset \in BOOLEAN, BeginOnNewNames(p, label, reset), UNCHANGED <<manifest, disk>>
  PROVE  TypeOK'
  <1>1. CASE reset /\ Begin(p, label, reset, 0) /\ UNCHANGED drawn
    <2>1. 0 \in Generation
      BY DEF Generation
    <2>2. /\ pc' \in [Proc -> {"idle", "preclone", "write", "consume", "inline", "tasks"}]
          /\ flag' \in [Proc -> BOOLEAN]
          /\ plan' \in [Proc -> Generation]
          /\ todo' \in [Proc -> SUBSET Task]
          /\ working' \in [Proc -> SUBSET Task]
      BY <1>1, <2>1, BeginType
    <2>3. QED
      BY <1>1, <2>2 DEF TypeOK
  <1>2. CASE drawn < MaxGeneration /\ drawn' = drawn + 1 /\ Begin(p, label, reset, drawn')
    <2>1. drawn' \in Generation /\ drawn' \in 0..MaxGeneration
      BY <1>2 DEF Generation, TypeOK
    <2>2. QED
      BY <1>2, <2>1, BeginType DEF TypeOK
  <1>3. QED
    BY <1>1, <1>2 DEF BeginOnNewNames

LEMMA ExitType ==
  ASSUME TypeOK, NEW p \in Proc, Exit(p)
  PROVE  /\ drawn' \in 0..MaxGeneration
         /\ pc' \in [Proc -> {"idle", "preclone", "write", "consume", "inline", "tasks"}]
         /\ flag' \in [Proc -> BOOLEAN]
         /\ plan' \in [Proc -> Generation]
         /\ todo' \in [Proc -> SUBSET Task]
         /\ working' \in [Proc -> SUBSET Task]
  <1>1. 0 \in Generation
    BY DEF Generation
  <1>2. QED
    BY <1>1 DEF TypeOK, Exit

\* A usable manifest names a generation and the mode it is asked for.
LEMMA UsableNames ==
  ASSUME TypeOK, NEW reset \in BOOLEAN, Usable(reset)
  PROVE  manifest.generation \in Generation /\ manifest = Names(reset, manifest.generation)
  BY DEF TypeOK, Usable, NoFile, Corrupt, Names, Generation

\* Preparing one directory, done or failed.
Handles(p, t) == Prepared(p, t) \/ NotPrepared(p, t)

LEMMA HandlesEffect ==
  ASSUME TypeOK, NEW p \in Proc, NEW t \in Task, Handles(p, t)
  PROVE  /\ disk' \in [Generation -> [Task -> {"absent", "ready", "used", "reused"}]]
         /\ \A g \in Generation, u \in Task : disk'[g][u] \in {"absent", "ready", disk[g][u]}
  <1>1. ASSUME NEW v \in {"absent", "ready", disk[plan[p]][t]},
               disk' = [disk EXCEPT ![plan[p]][t] = v]
        PROVE  /\ disk' \in [Generation -> [Task -> {"absent", "ready", "used", "reused"}]]
               /\ \A g \in Generation, u \in Task : disk'[g][u] \in {"absent", "ready", disk[g][u]}
    <2>1. plan[p] \in Generation /\ v \in {"absent", "ready", "used", "reused"}
      BY DEF TypeOK
    <2>2. QED
      BY <1>1, <2>1 DEF TypeOK
  <1>2. CASE Prepared(p, t)
    <2>1. CASE flag[p] \/ disk[plan[p]][t] = "absent"
      BY <1>1, <1>2, <2>1 DEF Prepared
    <2>2. CASE ~(flag[p] \/ disk[plan[p]][t] = "absent")
      BY <1>1, <1>2, <2>2 DEF Prepared
    <2>3. QED
      BY <2>1, <2>2
  <1>3. CASE disk' = disk
    BY <1>3 DEF TypeOK
  <1>4. CASE disk' = [disk EXCEPT ![plan[p]][t] = "absent"]
    BY <1>1, <1>4
  <1>5. QED
    BY <1>2, <1>3, <1>4 DEF Handles, NotPrepared

LEMMA NextType == TypeOK /\ [Next]_vars => TypeOK'
  <1> SUFFICES ASSUME TypeOK, [Next]_vars
               PROVE  TypeOK'
    OBVIOUS
  <1>1. ASSUME NEW p \in Proc, BeginPreclone(p) PROVE TypeOK'
    <2>1. PICK reset \in BOOLEAN :
            \/ /\ Usable(reset)
               /\ Begin(p, "preclone", reset, manifest.generation)
               /\ UNCHANGED drawn
            \/ ~Usable(reset) /\ BeginOnNewNames(p, "preclone", reset)
      BY <1>1 DEF BeginPreclone
    <2>2. QED
      BY <1>1, <2>1, BeginType, BeginOnNewNamesType, UsableNames DEF BeginPreclone, TypeOK
  <1>2. ASSUME NEW p \in Proc, NEW t \in Task, PrepareOne(p, t) PROVE TypeOK'
    <2>1. disk' \in [Generation -> [Task -> {"absent", "ready", "used", "reused"}]]
      BY <1>2, HandlesEffect DEF PrepareOne, Handles
    <2>2. QED
      BY <1>2, <2>1 DEF PrepareOne, TypeOK
  <1>3. ASSUME NEW p \in Proc, OpenManifest(p) PROVE TypeOK'
    BY <1>3 DEF OpenManifest, Goto, TypeOK
  <1>4. ASSUME NEW p \in Proc, WriteManifest(p) PROVE TypeOK'
    <2>1. manifest' \in [reset : BOOLEAN, generation : Generation]
      BY <1>4 DEF WriteManifest, Names, TypeOK
    <2>2. QED
      BY <1>4, <2>1, ExitType DEF WriteManifest, TypeOK
  <1>5. ASSUME NEW p \in Proc, BeginRun(p) PROVE TypeOK'
    <2>1. PICK reset \in BOOLEAN :
            \/ /\ Usable(reset)
               /\ Begin(p, "consume", reset, manifest.generation)
               /\ UNCHANGED drawn
            \/ ~Usable(reset) /\ BeginOnNewNames(p, "inline", reset)
            \/ BeginOnNewNames(p, "tasks", reset)
      BY <1>5 DEF BeginRun
    <2>2. QED
      BY <1>5, <2>1, BeginType, BeginOnNewNamesType, UsableNames DEF BeginRun, TypeOK
  <1>6. ASSUME NEW p \in Proc, Consume(p) PROVE TypeOK'
    BY <1>6, ExitType DEF Consume, Goto, TypeOK
  <1>7. ASSUME NEW p \in Proc, InlineDone(p) PROVE TypeOK'
    BY <1>7 DEF InlineDone, TypeOK
  <1>8. ASSUME NEW p \in Proc, NEW t \in Task, StartTask(p, t) PROVE TypeOK'
    <2>1. disk' \in [Generation -> [Task -> {"absent", "ready", "used", "reused"}]]
      BY <1>8, HandlesEffect DEF StartTask, Handles
    <2>2. working' \in [Proc -> SUBSET Task]
      BY <1>8 DEF StartTask, TypeOK
    <2>3. QED
      BY <1>8, <2>1, <2>2 DEF StartTask, TypeOK
  <1>9. ASSUME NEW p \in Proc, NEW t \in Task, AgentWorks(p, t) PROVE TypeOK'
    BY <1>9 DEF AgentWorks, TypeOK
  <1>10. ASSUME NEW p \in Proc, EndRun(p) PROVE TypeOK'
    BY <1>10, ExitType DEF EndRun, TypeOK
  <1>11. ASSUME NEW p \in Proc, Kill(p) PROVE TypeOK'
    BY <1>11, ExitType DEF Kill, TypeOK
  <1>12. CASE UNCHANGED vars
    BY <1>12 DEF vars, TypeOK
  <1>13. QED
    BY <1>1, <1>2, <1>3, <1>4, <1>5, <1>6, <1>7, <1>8, <1>9, <1>10, <1>11, <1>12 DEF Next

LEMMA InitType == Init => TypeOK
  <1> SUFFICES ASSUME Init PROVE TypeOK
    OBVIOUS
  <1>1. 0 \in Generation /\ drawn \in 0..MaxGeneration
    BY DEF Init, Generation
  <1>2. QED
    BY <1>1 DEF Init, TypeOK

\* Every state of the file, the directories and the processes is well typed.
THEOREM CampaignTypeCorrect == Spec => []TypeOK
  BY InitType, NextType, PTL DEF Spec

-------------------------------------------------------------------------------
(* Who may use a generation of directories.                                  *)

Active == {p \in Proc : pc[p] \in {"inline", "tasks"}}    \* runs that own their names

Clean(g) == \A t \in Task : disk[g][t] \in {"absent", "ready"}

\* Pre-clone runs alone.
Exclusive == \A p \in Preclones, q \in Proc : q # p => pc[q] = "idle"

\* The two modes never share a name.
Modes == \A p \in Proc : pc[p] # "idle" => (flag[p] <=> plan[p] = 0)

\* Generations are drawn in order, and the directories of one to come are absent.
InOrder ==
  /\ manifest.generation <= drawn
  /\ \A p \in Proc : plan[p] <= drawn
  /\ \A g \in Generation : drawn < g => Clean(g)

\* What the manifest lists is clean and belongs to nobody yet.
Listed == manifest.generation > 0 =>
  /\ Clean(manifest.generation)
  /\ \A p \in Active : plan[p] # manifest.generation

\* What a run read is still what the manifest says, or the manifest is gone.
ReadManifest == \A p \in Proc :
  pc[p] = "consume" => manifest = NoFile \/ manifest = Names(flag[p], plan[p])

\* Uuid-named directories that are still being prepared are clean.
Preparing == \A p \in Proc :
  pc[p] \in {"preclone", "write", "inline"} /\ plan[p] > 0 => Clean(plan[p])

\* A run has its uuid names for itself.
Owned == \A p, q \in Active : plan[p] = plan[q] /\ plan[p] > 0 => p = q

\* A run starts one agent in a directory.
OneAgentEach == \A p \in Proc :
  /\ pc[p] # "tasks" => working[p] = {}
  /\ pc[p] = "tasks" =>
       /\ todo[p] \cap working[p] = {}
       /\ plan[p] > 0 => \A t \in todo[p] \cup working[p] : disk[plan[p]][t] \in {"absent", "ready"}

Safe == Exclusive /\ Modes /\ InOrder /\ Listed /\ ReadManifest /\ Preparing
        /\ Owned /\ OneAgentEach /\ NoSilentReuse /\ ResumesInPlace

Protocol == TypeOK /\ Safe

-------------------------------------------------------------------------------
(* Facts the steps share *)

LEMMA Numbers ==
  ASSUME TypeOK
  PROVE  /\ drawn \in Nat /\ MaxGeneration \in Nat
         /\ manifest.generation \in Int
         /\ manifest.generation >= 0 => manifest.generation \in Generation
         /\ \A p \in Proc : plan[p] \in Generation
         /\ \A g \in Generation : g \in Nat
         /\ \A g \in 1..MaxGeneration : g \in Generation /\ g > 0
  BY DEF TypeOK, Generation, NoFile, Corrupt, Names

LEMMA NamesFields ==
  ASSUME NEW reset, NEW generation
  PROVE  /\ Names(reset, generation).reset = reset
         /\ Names(reset, generation).generation = generation
  BY DEF Names

LEMMA NoFileFields == NoFile.generation = -1 /\ Corrupt.generation = -2
  BY DEF NoFile, Corrupt, Names

\* Preparing a directory never makes it dirty.
LEMMA HandlesKeepsClean ==
  ASSUME TypeOK, NEW p \in Proc, NEW t \in Task, Handles(p, t)
  PROVE  /\ \A g \in Generation, u \in Task :
              disk[g][u] \in {"absent", "ready"} => disk'[g][u] \in {"absent", "ready"}
         /\ NoSilentReuse => NoSilentReuse'
  <1>1. \A g \in Generation, u \in Task : disk'[g][u] \in {"absent", "ready", disk[g][u]}
    BY HandlesEffect
  <1>2. 1..MaxGeneration \subseteq Generation
    BY DEF Generation
  <1>3. QED
    BY <1>1, <1>2 DEF NoSilentReuse

-------------------------------------------------------------------------------
(* Beginning *)

\* The names a process draws are those of the fixed generation, or new.
LEMMA NewNames ==
  ASSUME TypeOK, NEW p \in Proc, NEW label, NEW reset \in BOOLEAN,
         BeginOnNewNames(p, label, reset)
  PROVE  \E g \in Generation :
           /\ Begin(p, label, reset, g)
           /\ reset <=> g = 0
           /\ \/ g = 0 /\ drawn' = drawn
              \/ g > drawn /\ drawn' = g
  <1>1. CASE reset /\ Begin(p, label, reset, 0) /\ UNCHANGED drawn
    <2>1. 0 \in Generation
      BY DEF Generation
    <2>2. QED
      BY <1>1, <2>1
  <1>2. CASE ~reset /\ drawn < MaxGeneration /\ drawn' = drawn + 1 /\ Begin(p, label, reset, drawn')
    <2>1. drawn' \in Generation /\ drawn' > drawn /\ drawn' # 0
      BY <1>2 DEF TypeOK, Generation
    <2>2. QED
      BY <1>2, <2>1
  <1>3. QED
    BY <1>1, <1>2 DEF BeginOnNewNames

LEMMA BeginOnNewNamesIsSafe ==
  ASSUME Protocol, NEW p \in Proc, NEW label \in {"preclone", "inline", "tasks"},
         NEW reset \in BOOLEAN, BeginOnNewNames(p, label, reset),
         pc[p] = "idle", UNCHANGED <<manifest, disk>>,
         label = "preclone" => ~Usable(reset) /\ \A q \in Proc : pc[q] = "idle",
         label # "preclone" => Preclones = {}
  PROVE  Safe'
  <1> USE DEF Protocol
  <1>1. PICK g \in Generation :
          /\ Begin(p, label, reset, g)
          /\ reset <=> g = 0
          /\ \/ g = 0 /\ drawn' = drawn
             \/ g > drawn /\ drawn' = g
    BY NewNames
  <1>2. /\ drawn <= drawn' /\ drawn' \in Nat /\ drawn \in Nat /\ g <= drawn' /\ g \in Nat
        /\ g > 0 => /\ g > drawn /\ Clean(g)
                    /\ manifest.generation # g
                    /\ \A q \in Proc : plan[q] # g
    BY <1>1, Numbers DEF Safe, InOrder
  <1>3. /\ pc'[p] = label /\ flag'[p] = reset /\ plan'[p] = g
        /\ todo'[p] = Task /\ working'[p] = {}
        /\ \A q \in Proc \ {p} : /\ pc'[q] = pc[q] /\ flag'[q] = flag[q] /\ plan'[q] = plan[q]
                                 /\ todo'[q] = todo[q] /\ working'[q] = working[q]
        /\ manifest' = manifest /\ disk' = disk
    BY <1>1 DEF TypeOK, Begin
  <1>4. Exclusive'
    BY <1>3 DEF Safe, Exclusive, Preclones
  <1>5. Modes'
    BY <1>1, <1>3 DEF Safe, Modes
  <1>6. InOrder'
    <2>1. manifest'.generation <= drawn'
      BY <1>2, <1>3, Numbers DEF Safe, InOrder
    <2>2. ASSUME NEW q \in Proc PROVE plan'[q] <= drawn'
      <3>1. plan[q] <= drawn /\ plan[q] \in Nat
        BY Numbers DEF Safe, InOrder
      <3>2. QED
        BY <1>2, <1>3, <3>1
    <2>3. ASSUME NEW h \in Generation, drawn' < h PROVE drawn < h
      <3>1. h \in Int
        BY DEF Generation
      <3>2. QED
        BY <1>2, <2>3, <3>1
    <2>4. QED
      BY <1>3, <2>1, <2>2, <2>3 DEF Safe, InOrder, Clean
  <1>7. Listed'
    BY <1>2, <1>3 DEF Safe, Listed, Active, Clean
  <1>8. ReadManifest'
    BY <1>3 DEF Safe, ReadManifest
  <1>9. Preparing'
    BY <1>2, <1>3 DEF Safe, Preparing, Clean
  <1>10. Owned'
    BY <1>2, <1>3 DEF Safe, Owned, Active
  <1>11. OneAgentEach'
    BY <1>2, <1>3 DEF Safe, OneAgentEach, Clean
  <1>12. NoSilentReuse'
    BY <1>3 DEF Safe, NoSilentReuse
  <1>13. ResumesInPlace'
    BY <1>3 DEF Safe, ResumesInPlace, Preclones, Usable
  <1>14. QED
    BY <1>4, <1>5, <1>6, <1>7, <1>8, <1>9, <1>10, <1>11, <1>12, <1>13 DEF Safe

LEMMA BeginOnManifestIsSafe ==
  ASSUME Protocol, NEW p \in Proc, NEW label \in {"preclone", "consume"},
         NEW reset \in BOOLEAN, Usable(reset), Begin(p, label, reset, manifest.generation),
         pc[p] = "idle", UNCHANGED <<manifest, disk, drawn>>,
         label = "preclone" => \A q \in Proc : pc[q] = "idle",
         label # "preclone" => Preclones = {}
  PROVE  Safe'
  <1> USE DEF Protocol
  <1>1. manifest.generation \in Generation /\ manifest = Names(reset, manifest.generation)
    BY UsableNames
  <1>2. /\ pc'[p] = label /\ flag'[p] = reset /\ plan'[p] = manifest.generation
        /\ todo'[p] = Task /\ working'[p] = {}
        /\ \A q \in Proc \ {p} : /\ pc'[q] = pc[q] /\ flag'[q] = flag[q] /\ plan'[q] = plan[q]
                                 /\ todo'[q] = todo[q] /\ working'[q] = working[q]
        /\ manifest' = manifest /\ disk' = disk /\ drawn' = drawn
    BY <1>1 DEF TypeOK, Begin
  <1>3. reset <=> manifest.generation = 0
    BY DEF Safe, ResumesInPlace, Usable
  <1>4. Exclusive'
    BY <1>2 DEF Safe, Exclusive, Preclones
  <1>5. Modes'
    BY <1>2, <1>3 DEF Safe, Modes
  <1>6. InOrder'
    BY <1>2 DEF Safe, InOrder, Clean
  <1>7. Listed'
    BY <1>2 DEF Safe, Listed, Active, Clean
  <1>8. ReadManifest'
    BY <1>1, <1>2 DEF Safe, ReadManifest
  <1>9. Preparing'
    BY <1>2 DEF Safe, Preparing, Listed, Clean
  <1>10. Owned'
    BY <1>2 DEF Safe, Owned, Active
  <1>11. OneAgentEach'
    BY <1>2 DEF Safe, OneAgentEach
  <1>12. NoSilentReuse'
    BY <1>2 DEF Safe, NoSilentReuse
  <1>13. ResumesInPlace'
    BY <1>2 DEF Safe, ResumesInPlace, Preclones, Usable
  <1>14. QED
    BY <1>4, <1>5, <1>6, <1>7, <1>8, <1>9, <1>10, <1>11, <1>12, <1>13 DEF Safe

-------------------------------------------------------------------------------
(* Ending, and the steps on the file *)

LEMMA ExitIsSafe ==
  ASSUME Protocol, NEW p \in Proc, Exit(p), UNCHANGED <<manifest, disk>>
  PROVE  Safe'
  <1> USE DEF Protocol
  <1>1. /\ pc'[p] = "idle" /\ plan'[p] = 0 /\ working'[p] = {}
        /\ \A q \in Proc \ {p} : /\ pc'[q] = pc[q] /\ flag'[q] = flag[q] /\ plan'[q] = plan[q]
                                 /\ todo'[q] = todo[q] /\ working'[q] = working[q]
        /\ manifest' = manifest /\ disk' = disk /\ drawn' = drawn /\ drawn >= 0
    BY DEF TypeOK, Exit
  <1>4. Exclusive'
    BY <1>1 DEF Safe, Exclusive, Preclones
  <1>5. Modes'
    BY <1>1 DEF Safe, Modes
  <1>6. InOrder'
    BY <1>1 DEF Safe, InOrder, Clean
  <1>7. Listed'
    BY <1>1 DEF Safe, Listed, Active, Clean
  <1>8. ReadManifest'
    BY <1>1 DEF Safe, ReadManifest
  <1>9. Preparing'
    BY <1>1 DEF Safe, Preparing, Clean
  <1>10. Owned'
    BY <1>1 DEF Safe, Owned, Active
  <1>11. OneAgentEach'
    BY <1>1 DEF Safe, OneAgentEach
  <1>12. NoSilentReuse'
    BY <1>1 DEF Safe, NoSilentReuse
  <1>13. ResumesInPlace'
    BY <1>1 DEF Safe, ResumesInPlace, Preclones, Usable
  <1>14. QED
    BY <1>4, <1>5, <1>6, <1>7, <1>8, <1>9, <1>10, <1>11, <1>12, <1>13 DEF Safe

LEMMA OpenManifestIsSafe ==
  ASSUME Protocol, NEW p \in Proc, OpenManifest(p)
  PROVE  Safe'
  <1> USE DEF Protocol
  <1>1. /\ pc[p] = "preclone" /\ pc'[p] = "write"
        /\ \A q \in Proc \ {p} : pc'[q] = pc[q]
        /\ flag' = flag /\ plan' = plan /\ todo' = todo /\ working' = working
        /\ manifest' = Corrupt /\ disk' = disk /\ drawn' = drawn
    BY DEF TypeOK, OpenManifest, Goto
  <1>2. manifest'.generation = -2 /\ drawn \in Nat
    BY <1>1, NoFileFields, Numbers
  <1>3. \A q \in Proc : pc'[q] # "consume"
    BY <1>1 DEF Safe, Exclusive, Preclones
  <1>4. Exclusive'
    BY <1>1, <1>2, <1>3 DEF Safe, Exclusive, Preclones
  <1>5. Modes'
    BY <1>1, <1>2, <1>3 DEF Safe, Modes
  <1>6. InOrder'
    BY <1>1, <1>2, <1>3 DEF Safe, InOrder, Clean
  <1>7. Listed'
    BY <1>1, <1>2, <1>3 DEF Safe, Listed, Active, Clean
  <1>8. ReadManifest'
    BY <1>1, <1>2, <1>3 DEF Safe, ReadManifest
  <1>9. Preparing'
    BY <1>1, <1>2, <1>3 DEF Safe, Preparing, Clean
  <1>10. Owned'
    BY <1>1, <1>2, <1>3 DEF Safe, Owned, Active
  <1>11. OneAgentEach'
    BY <1>1, <1>2, <1>3 DEF Safe, OneAgentEach
  <1>12. NoSilentReuse'
    BY <1>1, <1>2, <1>3 DEF Safe, NoSilentReuse
  <1>13. ResumesInPlace'
    BY <1>1, <1>2, <1>3 DEF Safe, ResumesInPlace, Preclones, Usable
  <1>14. QED
    BY <1>4, <1>5, <1>6, <1>7, <1>8, <1>9, <1>10, <1>11, <1>12, <1>13 DEF Safe

LEMMA WriteManifestIsSafe ==
  ASSUME Protocol, NEW p \in Proc, WriteManifest(p)
  PROVE  Safe'
  <1> USE DEF Protocol
  <1>1. /\ pc'[p] = "idle" /\ plan'[p] = 0 /\ working'[p] = {}
        /\ \A q \in Proc \ {p} : /\ pc'[q] = pc[q] /\ flag'[q] = flag[q] /\ plan'[q] = plan[q]
                                 /\ todo'[q] = todo[q] /\ working'[q] = working[q]
        /\ disk' = disk /\ drawn' = drawn /\ drawn >= 0 /\ pc[p] = "write"
    BY DEF TypeOK, WriteManifest, Exit
  <1>2. manifest'.generation = plan[p] /\ manifest'.reset = flag[p] /\ plan[p] \in Generation
    BY NamesFields, Numbers DEF WriteManifest
  <1>3. \A q \in Proc : pc'[q] = "idle"
    BY <1>1 DEF Safe, Exclusive, Preclones
  <1>4. Exclusive'
    BY <1>1, <1>2, <1>3 DEF Safe, Exclusive, Preclones
  <1>5. Modes'
    BY <1>1, <1>2, <1>3 DEF Safe, Modes
  <1>6. InOrder'
    BY <1>1, <1>2, <1>3 DEF Safe, InOrder, Clean
  <1>7. Listed'
    BY <1>1, <1>2, <1>3 DEF Safe, Listed, Active, Clean, Preparing
  <1>8. ReadManifest'
    BY <1>1, <1>2, <1>3 DEF Safe, ReadManifest
  <1>9. Preparing'
    BY <1>1, <1>2, <1>3 DEF Safe, Preparing, Clean
  <1>10. Owned'
    BY <1>1, <1>2, <1>3 DEF Safe, Owned, Active
  <1>11. OneAgentEach'
    BY <1>1, <1>2, <1>3 DEF Safe, OneAgentEach
  <1>12. NoSilentReuse'
    BY <1>1, <1>2, <1>3 DEF Safe, NoSilentReuse
  <1>13. ResumesInPlace'
    BY <1>1, <1>2, <1>3 DEF Safe, ResumesInPlace, Preclones, Usable, Modes
  <1>14. QED
    BY <1>4, <1>5, <1>6, <1>7, <1>8, <1>9, <1>10, <1>11, <1>12, <1>13 DEF Safe

LEMMA ConsumeIsSafe ==
  ASSUME Protocol, NEW p \in Proc, Consume(p)
  PROVE  Safe'
  <1> USE DEF Protocol
  <1>1. CASE manifest = NoFile
    <2>1. Exit(p) /\ UNCHANGED <<manifest, disk>>
      BY <1>1 DEF Consume
    <2>2. QED
      BY <2>1, ExitIsSafe
  <1>2. CASE manifest # NoFile
    <2>1. /\ pc[p] = "consume" /\ pc'[p] = "tasks"
          /\ \A q \in Proc \ {p} : pc'[q] = pc[q]
          /\ flag' = flag /\ plan' = plan /\ todo' = todo /\ working' = working
          /\ manifest' = NoFile /\ disk' = disk /\ drawn' = drawn
      BY <1>2 DEF TypeOK, Consume, Goto
    <2>2. manifest'.generation = -1 /\ drawn \in Nat /\ todo[p] \subseteq Task
      BY <2>1, NoFileFields, Numbers DEF TypeOK
    <2>3. manifest.generation = plan[p]
      BY <1>2, <2>1, NamesFields DEF Safe, ReadManifest
    <2>4. Exclusive'
      BY <2>1, <2>2, <2>3 DEF Safe, Exclusive, Preclones
    <2>5. Modes'
      BY <2>1, <2>2, <2>3 DEF Safe, Modes
    <2>6. InOrder'
      BY <2>1, <2>2, <2>3 DEF Safe, InOrder, Clean
    <2>7. Listed'
      BY <2>1, <2>2, <2>3 DEF Safe, Listed, Active, Clean
    <2>8. ReadManifest'
      BY <2>1, <2>2, <2>3 DEF Safe, ReadManifest
    <2>9. Preparing'
      BY <2>1, <2>2, <2>3 DEF Safe, Preparing, Clean
    <2>10. Owned'
      BY <2>1, <2>2, <2>3 DEF Safe, Owned, Active, Listed
    <2>11. OneAgentEach'
      BY <2>1, <2>2, <2>3 DEF Safe, OneAgentEach, Listed, Clean
    <2>12. NoSilentReuse'
      BY <2>1, <2>2, <2>3 DEF Safe, NoSilentReuse
    <2>13. ResumesInPlace'
      BY <2>1, <2>2, <2>3 DEF Safe, ResumesInPlace, Preclones, Usable
    <2>14. QED
      BY <2>4, <2>5, <2>6, <2>7, <2>8, <2>9, <2>10, <2>11, <2>12, <2>13 DEF Safe
  <1>3. QED
    BY <1>1, <1>2

-------------------------------------------------------------------------------
(* Preparing and working *)

LEMMA PrepareOneIsSafe ==
  ASSUME Protocol, NEW p \in Proc, NEW t \in Task, PrepareOne(p, t)
  PROVE  Safe'
  <1> USE DEF Protocol
  <1>1. /\ pc[p] # "tasks" /\ \A q \in Proc \ {p} : todo'[q] = todo[q]
        /\ pc' = pc /\ flag' = flag /\ plan' = plan /\ working' = working
        /\ manifest' = manifest /\ drawn' = drawn
    BY DEF TypeOK, PrepareOne
  <1>2. /\ \A g \in Generation, u \in Task :
             disk[g][u] \in {"absent", "ready"} => disk'[g][u] \in {"absent", "ready"}
        /\ NoSilentReuse => NoSilentReuse'
    BY HandlesKeepsClean DEF PrepareOne, Handles
  <1>3. /\ \A q \in Proc : plan[q] \in Generation /\ todo[q] \subseteq Task /\ working[q] \subseteq Task
        /\ manifest.generation > 0 => manifest.generation \in Generation
    BY Numbers DEF TypeOK
  <1>4. Exclusive'
    BY <1>1, <1>2, <1>3 DEF Safe, Exclusive, Preclones
  <1>5. Modes'
    BY <1>1, <1>2, <1>3 DEF Safe, Modes
  <1>6. InOrder'
    BY <1>1, <1>2, <1>3 DEF Safe, InOrder, Clean
  <1>7. Listed'
    BY <1>1, <1>2, <1>3 DEF Safe, Listed, Active, Clean
  <1>8. ReadManifest'
    BY <1>1, <1>2, <1>3 DEF Safe, ReadManifest
  <1>9. Preparing'
    BY <1>1, <1>2, <1>3 DEF Safe, Preparing, Clean
  <1>10. Owned'
    BY <1>1, <1>2, <1>3 DEF Safe, Owned, Active
  <1>11. OneAgentEach'
    BY <1>1, <1>2, <1>3 DEF Safe, OneAgentEach
  <1>12. NoSilentReuse'
    BY <1>1, <1>2, <1>3 DEF Safe, NoSilentReuse
  <1>13. ResumesInPlace'
    BY <1>1, <1>2, <1>3 DEF Safe, ResumesInPlace, Preclones, Usable
  <1>14. QED
    BY <1>4, <1>5, <1>6, <1>7, <1>8, <1>9, <1>10, <1>11, <1>12, <1>13 DEF Safe

LEMMA InlineDoneIsSafe ==
  ASSUME Protocol, NEW p \in Proc, InlineDone(p)
  PROVE  Safe'
  <1> USE DEF Protocol
  <1>1. /\ pc[p] = "inline" /\ pc'[p] = "tasks" /\ todo'[p] = Task
        /\ \A q \in Proc \ {p} : pc'[q] = pc[q] /\ todo'[q] = todo[q]
        /\ flag' = flag /\ plan' = plan /\ working' = working
        /\ manifest' = manifest /\ disk' = disk /\ drawn' = drawn
    BY DEF TypeOK, InlineDone
  <1>4. Exclusive'
    BY <1>1 DEF Safe, Exclusive, Preclones
  <1>5. Modes'
    BY <1>1 DEF Safe, Modes
  <1>6. InOrder'
    BY <1>1 DEF Safe, InOrder, Clean
  <1>7. Listed'
    BY <1>1 DEF Safe, Listed, Active, Clean
  <1>8. ReadManifest'
    BY <1>1 DEF Safe, ReadManifest
  <1>9. Preparing'
    BY <1>1 DEF Safe, Preparing, Clean
  <1>10. Owned'
    BY <1>1 DEF Safe, Owned, Active
  <1>11. OneAgentEach'
    BY <1>1 DEF Safe, OneAgentEach, Preparing, Clean
  <1>12. NoSilentReuse'
    BY <1>1 DEF Safe, NoSilentReuse
  <1>13. ResumesInPlace'
    BY <1>1 DEF Safe, ResumesInPlace, Preclones, Usable
  <1>14. QED
    BY <1>4, <1>5, <1>6, <1>7, <1>8, <1>9, <1>10, <1>11, <1>12, <1>13 DEF Safe

LEMMA StartTaskIsSafe ==
  ASSUME Protocol, NEW p \in Proc, NEW t \in Task, StartTask(p, t)
  PROVE  Safe'
  <1> USE DEF Protocol
  <1>1. /\ pc[p] = "tasks" /\ t \in todo[p] /\ todo'[p] = todo[p] \ {t}
        /\ working'[p] \subseteq working[p] \cup {t}
        /\ \A q \in Proc \ {p} : todo'[q] = todo[q] /\ working'[q] = working[q]
        /\ pc' = pc /\ flag' = flag /\ plan' = plan
        /\ manifest' = manifest /\ drawn' = drawn
    BY DEF TypeOK, StartTask
  <1>2. /\ \A g \in Generation, u \in Task :
             disk[g][u] \in {"absent", "ready"} => disk'[g][u] \in {"absent", "ready"}
        /\ NoSilentReuse => NoSilentReuse'
    BY HandlesKeepsClean DEF StartTask, Handles
  <1>3. /\ \A q \in Proc : plan[q] \in Generation /\ todo[q] \subseteq Task /\ working[q] \subseteq Task
        /\ manifest.generation > 0 => manifest.generation \in Generation
    BY Numbers DEF TypeOK
  <1>4. Exclusive'
    BY <1>1, <1>2, <1>3 DEF Safe, Exclusive, Preclones
  <1>5. Modes'
    BY <1>1, <1>2, <1>3 DEF Safe, Modes
  <1>6. InOrder'
    BY <1>1, <1>2, <1>3 DEF Safe, InOrder, Clean
  <1>7. Listed'
    BY <1>1, <1>2, <1>3 DEF Safe, Listed, Active, Clean
  <1>8. ReadManifest'
    BY <1>1, <1>2, <1>3 DEF Safe, ReadManifest
  <1>9. Preparing'
    BY <1>1, <1>2, <1>3 DEF Safe, Preparing, Clean
  <1>10. Owned'
    BY <1>1, <1>2, <1>3 DEF Safe, Owned, Active
  <1>11. OneAgentEach'
    BY <1>1, <1>2, <1>3 DEF Safe, OneAgentEach
  <1>12. NoSilentReuse'
    BY <1>1, <1>2, <1>3 DEF Safe, NoSilentReuse
  <1>13. ResumesInPlace'
    BY <1>1, <1>2, <1>3 DEF Safe, ResumesInPlace, Preclones, Usable
  <1>14. QED
    BY <1>4, <1>5, <1>6, <1>7, <1>8, <1>9, <1>10, <1>11, <1>12, <1>13 DEF Safe

\* An agent dirties one directory, which is its run's alone if a uuid names it.
LEMMA AgentWorksIsSafe ==
  ASSUME Protocol, NEW p \in Proc, NEW t \in Task, AgentWorks(p, t)
  PROVE  Safe'
  <1> USE DEF Protocol
  <1>1. /\ pc[p] = "tasks" /\ t \in working[p] /\ working'[p] = working[p] \ {t}
        /\ \A q \in Proc \ {p} : working'[q] = working[q]
        /\ pc' = pc /\ flag' = flag /\ plan' = plan /\ todo' = todo
        /\ manifest' = manifest /\ drawn' = drawn
    BY DEF TypeOK, AgentWorks
  <1>2. \A g \in Generation, u \in Task :
          /\ g # plan[p] \/ u # t => disk'[g][u] = disk[g][u]
          /\ disk[g][u] \in {"absent", "ready"} => disk'[g][u] # "reused"
    BY DEF TypeOK, AgentWorks
  <1>3. /\ \A q \in Proc : plan[q] \in Generation /\ plan[q] \in Nat
                           /\ todo[q] \subseteq Task /\ working[q] \subseteq Task
        /\ manifest.generation > 0 => manifest.generation \in Generation
        /\ \A g \in 1..MaxGeneration : g \in Generation /\ g > 0
        /\ drawn \in Nat /\ plan[p] <= drawn
    BY Numbers DEF TypeOK, Safe, InOrder
  <1>4. Exclusive'
    BY <1>1, <1>2, <1>3 DEF Safe, Exclusive, Preclones
  <1>5. Modes'
    BY <1>1, <1>2, <1>3 DEF Safe, Modes
  <1>6. InOrder'
    BY <1>1, <1>2, <1>3 DEF Safe, InOrder, Clean
  <1>7. Listed'
    BY <1>1, <1>2, <1>3 DEF Safe, Listed, Active, Clean, Owned
  <1>8. ReadManifest'
    BY <1>1, <1>2, <1>3 DEF Safe, ReadManifest
  <1>9. Preparing'
    BY <1>1, <1>2, <1>3 DEF Safe, Preparing, Clean, Exclusive, Preclones, Owned, Active
  <1>10. Owned'
    BY <1>1, <1>2, <1>3 DEF Safe, Owned, Active
  <1>11. OneAgentEach'
    BY <1>1, <1>2, <1>3 DEF Safe, OneAgentEach, Owned, Active
  <1>12. NoSilentReuse'
    BY <1>1, <1>2, <1>3 DEF Safe, NoSilentReuse, OneAgentEach
  <1>13. ResumesInPlace'
    BY <1>1, <1>2, <1>3 DEF Safe, ResumesInPlace, Preclones, Usable
  <1>14. QED
    BY <1>4, <1>5, <1>6, <1>7, <1>8, <1>9, <1>10, <1>11, <1>12, <1>13 DEF Safe

-------------------------------------------------------------------------------
LEMMA NextIsSafe ==
  ASSUME ~Overlap, Protocol, [Next]_vars
  PROVE  Safe'
  <1>1. ASSUME NEW p \in Proc, BeginPreclone(p) PROVE Safe'
    <2>1. pc[p] = "idle" /\ (\A q \in Proc : pc[q] = "idle") /\ UNCHANGED <<manifest, disk>>
      BY <1>1 DEF BeginPreclone
    <2>2. PICK reset \in BOOLEAN :
            \/ /\ Usable(reset)
               /\ Begin(p, "preclone", reset, manifest.generation)
               /\ UNCHANGED drawn
            \/ ~Usable(reset) /\ BeginOnNewNames(p, "preclone", reset)
      BY <1>1 DEF BeginPreclone
    <2>3. QED
      BY <2>1, <2>2, BeginOnManifestIsSafe, BeginOnNewNamesIsSafe
  <1>2. ASSUME NEW p \in Proc, BeginRun(p) PROVE Safe'
    <2>1. pc[p] = "idle" /\ Preclones = {} /\ UNCHANGED <<manifest, disk>>
      BY <1>2 DEF BeginRun
    <2>2. PICK reset \in BOOLEAN :
            \/ /\ Usable(reset)
               /\ Begin(p, "consume", reset, manifest.generation)
               /\ UNCHANGED drawn
            \/ ~Usable(reset) /\ BeginOnNewNames(p, "inline", reset)
            \/ BeginOnNewNames(p, "tasks", reset)
      BY <1>2 DEF BeginRun
    <2>3. QED
      BY <2>1, <2>2, BeginOnManifestIsSafe, BeginOnNewNamesIsSafe
  <1>3. ASSUME NEW p \in Proc, EndRun(p) \/ Kill(p) PROVE Safe'
    BY <1>3, ExitIsSafe DEF EndRun, Kill
  <1>4. CASE UNCHANGED vars
    BY <1>4 DEF Protocol, Safe, vars, Exclusive, Preclones, Modes, InOrder, Clean, Listed, Active,
                ReadManifest, Preparing, Owned, OneAgentEach, NoSilentReuse, ResumesInPlace, Usable
  <1>5. QED
    BY <1>1, <1>2, <1>3, <1>4, OpenManifestIsSafe, WriteManifestIsSafe, ConsumeIsSafe,
       InlineDoneIsSafe, PrepareOneIsSafe, StartTaskIsSafe, AgentWorksIsSafe DEF Next

LEMMA InitIsSafe == Init => Safe
  <1> SUFFICES ASSUME Init PROVE Safe
    OBVIOUS
  <1>1. manifest.generation = -1 /\ drawn = 0
    BY NoFileFields DEF Init
  <1>2. \A p \in Proc : pc[p] = "idle" /\ plan[p] = 0 /\ working[p] = {}
    BY DEF Init
  <1>3. \A g \in Generation : Clean(g)
    BY DEF Init, Clean
  <1>4. NoSilentReuse
    BY DEF Init, NoSilentReuse, Generation
  <1>5. QED
    BY <1>1, <1>2, <1>3, <1>4 DEF Safe, Exclusive, Preclones, Modes, InOrder, Listed, Active,
       ReadManifest, Preparing, Owned, OneAgentEach, ResumesInPlace, Usable

LEMMA ProtocolInvariant ==
  ASSUME ~Overlap
  PROVE  Spec => []Protocol
  <1>1. Init => Protocol
    BY InitType, InitIsSafe DEF Protocol
  <1>2. Protocol /\ [Next]_vars => Protocol'
    BY NextType, NextIsSafe DEF Protocol
  <1>3. QED
    BY <1>1, <1>2, PTL DEF Spec

\* As long as pre-clone runs alone, no agent ever starts over what another one left
\* in a uuid-named directory.
THEOREM DirtyDirectoriesAreNotReused ==
  ASSUME ~Overlap
  PROVE  Spec => []NoSilentReuse
  <1>1. Protocol => NoSilentReuse
    BY DEF Protocol, Safe
  <1>2. QED
    BY <1>1, ProtocolInvariant, PTL

\* Under the same assumption a manifest has one consumer.
THEOREM ManifestHasOneConsumer ==
  ASSUME ~Overlap
  PROVE  Spec => []OneConsumer
  <1>1. Protocol => OneConsumer
    BY Numbers DEF Protocol, Safe, Owned, Active, OneConsumer
  <1>2. QED
    BY <1>1, ProtocolInvariant, PTL

\* Under the same assumption a repeated pre-clone orphans no directory.
THEOREM PrecloneResumesInPlace ==
  ASSUME ~Overlap
  PROVE  Spec => []ResumesInPlace
  <1>1. Protocol => ResumesInPlace
    BY DEF Protocol, Safe
  <1>2. QED
    BY <1>1, ProtocolInvariant, PTL
===============================================================================
