-------------------------------- MODULE Sampler --------------------------------
(***************************************************************************)
(* scripts/monitor_resources.py, the process of component "monitor": it    *)
(* reads the pidfiles that testbed.sh writes and removes meanwhile, and    *)
(* samples the process trees they name.  A psutil object remembers when    *)
(* its process was started, so it notices that a number changed hands      *)
(* (is_running), and it measures CPU time since its own previous reading,  *)
(* so it has to be kept from sample to sample; watch and kin are those     *)
(* caches, _procs and _children.                                           *)
(***************************************************************************)
EXTENDS Lifecycle

VARIABLES
  sampler,    \* the group whose leader is the sampling process, or NoPid
  watch,      \* _procs: for each name Nobody, or the number, whether that process
              \* still runs, and whose process it is
  kin,        \* _children: the numbers for which the rest of the group is cached
  stage       \* "loop" (the while condition), "refreshed"

samplerVars == <<sampler, watch, kin, stage>>
allVars == <<vars, samplerVars>>

Nobody == [pid |-> NoPid, runs |-> FALSE, owner |-> NoOne]
Watched == {c \in Component : watch[c] # Nobody}

\* The sampling process is gone, and what it remembers with it.
Reset ==
  /\ sampler' = NoPid
  /\ watch' = [c \in Component |-> Nobody]
  /\ kin' = {} /\ stage' = "loop"

SamplerInit ==
  /\ sampler = NoPid
  /\ watch = [c \in Component |-> Nobody]
  /\ kin = {} /\ stage = "loop"

AllInit == Init /\ SamplerInit

\* main: CpuSampler's first _refresh_pids is that of the first sample.
StartSampling ==
  \E p \in Pid :
    /\ sampler = NoPid /\ who[p] = "monitor" /\ leader[p]
    /\ sampler' = p
    /\ UNCHANGED <<vars, watch, kin, stage>>

\* Fault: an entry is only looked up again when the number in the file changes.
LookedOnce(c) ==
  LET p == pidfile[c] IN
  IF p = NoPid THEN Nobody
  ELSE IF watch[c].pid = p THEN watch[c]
  ELSE IF leader[p] THEN [pid |-> p, runs |-> TRUE, owner |-> who[p]]
  ELSE watch[c]

\* _refresh_pids: the entry of name c after its pidfile was read.  A process that is
\* gone already leaves the entry as it was.
Looked(c) ==
  LET p == pidfile[c] IN
  IF p = NoPid THEN Nobody
  ELSE IF watch[c].pid = p /\ watch[c].runs THEN watch[c]
  ELSE IF leader[p] THEN [pid |-> p, runs |-> TRUE, owner |-> who[p]]
  ELSE watch[c]

\* run_sampler looks at the flag that a TERM sets only between two samples.
AnotherSample == sampler # NoPid /\ stage = "loop" /\ signal[sampler] = 0

\* Fault: the children of an entry that is dropped stay in the cache.
RefreshKeepingKin ==
  /\ AnotherSample
  /\ watch' = [c \in Component |-> Looked(c)]
  /\ stage' = "refreshed"
  /\ UNCHANGED <<vars, sampler, kin>>

Refresh ==
  /\ AnotherSample
  /\ watch' = [c \in Component |-> Looked(c)]
  /\ kin' = kin \ {watch[c].pid : c \in {d \in Watched : watch'[d] # watch[d]}}
  /\ stage' = "refreshed"
  /\ UNCHANGED <<vars, sampler>>

\* The rest of sample: a process that no longer runs is dropped with its children, one
\* that runs is measured with its tree, whose members are cached.
Measure ==
  /\ stage = "refreshed"
  /\ LET gone == {c \in Watched : ~watch[c].runs}
         roots == {watch[c].pid : c \in Watched \ gone}
     IN  /\ watch' = [c \in Component |-> IF c \in gone THEN Nobody ELSE watch[c]]
         /\ kin' = (kin \ {watch[c].pid : c \in gone}) \cup {p \in roots : rest[p]}
  /\ stage' = "loop"
  /\ UNCHANGED <<vars, sampler>>

\* A step of the testbed as the sampler's objects see it: a process they stand for
\* ends, perhaps the sampler itself.
Observe ==
  IF sampler # NoPid /\ ~leader'[sampler] THEN Reset
  ELSE /\ watch' = [c \in Component |->
            [watch[c] EXCEPT !.runs = @ /\ leader'[watch[c].pid]]]
       /\ UNCHANGED <<sampler, kin, stage>>

SamplerNext ==
  \/ Next /\ Observe
  \/ StartSampling \/ Refresh \/ Measure

SamplerSpec == AllInit /\ [][SamplerNext]_allVars

-------------------------------------------------------------------------------
(* Properties *)

SamplerTypeOK ==
  /\ sampler \in Pid \cup {NoPid}
  /\ watch \in [Component -> [pid : Pid \cup {NoPid}, runs : BOOLEAN,
                              owner : Component \cup {NoOne}]]
  /\ kin \subseteq Pid
  /\ stage \in {"loop", "refreshed"}

TypesOK == TypeOK /\ SamplerTypeOK

\* No sample misses a component that runs and is in its pidfile, nor takes another
\* process for it: a component restarted under its old number has to be looked up anew,
\* or its CPU time would be missing until the entry is dropped.
MeasuresWhatRuns ==
  [][stage' = "refreshed" /\ stage = "loop" =>
       \A c \in Component :
         LET p == pidfile[c] IN
         p # NoPid /\ leader[p] => watch'[c] = [pid |-> p, runs |-> TRUE, owner |-> who[p]]]_allVars

\* A tree is cached only while its root is watched, however often components are
\* restarted under a new number or the same: no child of a dead process is kept.
CachesFollowWatch ==
  kin \subseteq {watch[c].pid : c \in Watched}
===============================================================================
