------------------------------- MODULE Lifecycle -------------------------------
(***************************************************************************)
(* deploy/testbed.sh: the components of a testbed as process groups, the   *)
(* pidfiles that are all the script remembers of them, and invocations of  *)
(* its up and down verbs, which may overlap and be interrupted.            *)
(*                                                                         *)
(* A component is started with setsid, so its first process leads a group  *)
(* of the same number.  Of a group only two parts matter: its leader, the  *)
(* process the pidfile names, and the rest, which may outlive it and which *)
(* holds the component's port.  The kernel does not hand out a number      *)
(* while a group of that number has members.                               *)
(***************************************************************************)
EXTENDS Launch

CONSTANTS
  Pid,             \* process numbers, integers from 1
  Script,          \* invocations that may be at work at once, integers
  Workers,         \* the names of the workers of all Configs
  Services,        \* what up_all starts after the workers, in that order
  Others,          \* components that up and down only handle by name
  Configs,         \* a sequence: contents of testbed.yaml and the environment
  Edits,           \* pairs of indices of Configs: the edits an operator may make
  MaxInvocations,  \* bound: invocations in a behaviour
  MaxForks,        \* bound: components that up is called for in a behaviour
  MaxFaults,       \* bound: unprompted exits and interrupted invocations
  MaxPolls         \* bound: rounds of kill_pgid's wait (20 in the code)

ServiceNames == {Services[i] : i \in DOMAIN Services}
Component == Workers \cup ServiceNames \cup Others

NoPid == 0
NoOne == "nobody"

ASSUME LifecycleAssumption ==
  /\ IsFiniteSet(Pid) /\ Pid = 1..Cardinality(Pid) /\ MaxForks <= Cardinality(Pid)
  /\ Script \subseteq Nat
  /\ IsSequence(Services) /\ IsSequence(Configs)
  /\ \A e \in DOMAIN Configs : \A role \in Role : IsSequence(List(Configs[e], role))
  /\ \A e \in DOMAIN Configs : \A i, j \in DOMAIN Ranked(Configs[e]) :
       Ranked(Configs[e])[i].worker.name = Ranked(Configs[e])[j].worker.name => i = j
  /\ IsFiniteSet(Workers) /\ NoOne \notin Component
  /\ Workers = UNION {{Ranked(Configs[e])[i].worker.name : i \in DOMAIN Ranked(Configs[e])} :
                        e \in DOMAIN Configs}
  /\ Workers \cap ServiceNames = {} /\ Others \cap (Workers \cup ServiceNames) = {}
  /\ {MaxInvocations, MaxForks, MaxFaults, MaxPolls} \subseteq Nat
  /\ MaxPolls > 0

\* The numbers of a configuration are integers (Junk and Absent included), and a toggle
\* of the file is a boolean or not there.
ASSUME ConfigsAssumption ==
  \A e \in DOMAIN Configs :
    /\ {Configs[e].nixl.yaml, Configs[e].nixl.env, Configs[e].base.yaml,
        Configs[e].base.env} \subseteq Int
    /\ \A i \in DOMAIN Ranked(Configs[e]) :
         {Ranked(Configs[e])[i].worker.tp, Ranked(Configs[e])[i].worker.dp} \subseteq Int
    /\ Configs[e].toggle.yaml \in {"true", "false", Missing}

VARIABLES
  edition,     \* what testbed.yaml and the environment say: an index of Configs
  who,         \* who[p]: the component group p is, NoOne for a free number
  leader,      \* whether the leader of group p runs
  rest,        \* whether other processes of group p run
  byRoot,      \* whether group p was started with sudo
  under,       \* the edition group p was started under
  signal,      \* strongest signal group p was sent: 0, 1 (TERM) or 2 (KILL)
  port,        \* port[c]: the group that listens on a service's port
  pidfile,     \* pidfile[c]: the recorded number, NoPid without a file
  rootLog,     \* components whose log file belongs to root
  pc,          \* "idle", "up", "forked", "down", "wait"
  verb,        \* "all" (up all), "up" or "down"
  todo,        \* the components an invocation has yet to handle, the current first
  sudo,        \* whether it runs as root
  seen,        \* the number it forked or read from the pidfile
  polls,       \* rounds it has waited for seen
  blemish,     \* blemish[c]: what happened to c that the script is no match for
  invocations, forks, faults

procVars == <<who, leader, rest, byRoot, under, signal, port>>
scriptVars == <<pc, verb, todo, sudo, seen, polls>>
countVars == <<invocations, forks, faults>>
vars == <<edition, procVars, pidfile, rootLog, scriptVars, blemish, countVars>>

NoEdition == 0
Contents == Configs
config == Contents[edition]
RankTable == <<>> \o [e \in DOMAIN Contents |-> Ranked(Contents[e])]
WorkersNow == RankTable[edition]
Cause == {"crashed", "interrupted", "overlap", "privilege", "mistaken"}

Current(o) == Head(todo[o])
Busy(o) == pc[o] # "idle"
At(c) == {o \in Script : Busy(o) /\ todo[o] # <<>> /\ Current(o) = c}
Free(p) == who[p] = NoOne
Named(p) == \E c \in Component : pidfile[c] = p

\* The numbers the kernel may hand out: one that a stale pidfile names, or one that
\* nobody remembers (they are all alike, so the least).  It goes round all numbers
\* before it comes back to one, which takes longer than a wait of kill_pgid.
Available(p) ==
  /\ Free(p) /\ \A o \in Script : pc[o] = "wait" => seen[o] # p
  /\ ~Named(p) => \A q \in Pid : q < p => ~Free(q) \/ Named(q)

\* `kill -0 <pid>` as seen by invocation o: only root sees a process of root.
Sees(o, p) == p # NoPid /\ leader[p] /\ (byRoot[p] => sudo[o])
Signals(o, p, s) ==
  IF byRoot[p] /\ ~sudo[o] THEN signal
  ELSE [signal EXCEPT ![p] = IF @ < s THEN s ELSE @]

Blame(c, cause) == [blemish EXCEPT ![c] = @ \cup {cause}]

-------------------------------------------------------------------------------
(* Invocations *)

\* The rank a worker has in the current configuration, -1 when it is not in it.
RankOf(c) ==
  LET ranks == {i \in DOMAIN WorkersNow : WorkersNow[i].worker.name = c}
  IN  IF ranks = {} THEN -1 ELSE (CHOOSE i \in ranks : TRUE) - 1

WorkersInOrder == [i \in DOMAIN WorkersNow |-> WorkersNow[i].worker.name]

\* The workers the pattern vllm-*.pid finds pidfiles of, in one order of names.
WorkerFiles ==
  LET found == {c \in Workers : pidfile[c] # NoPid}
  IN  CHOOSE s \in [1..Cardinality(found) -> found] : {s[i] : i \in DOMAIN s} = found

Alone == {<<c>> : c \in ServiceNames \cup Others}
UpTargets == Alone \cup {WorkersInOrder}

\* down_all goes through the services in the reverse order.  (The pidfiles of the workers
\* are listed here when the invocation begins, in the code when it comes to them.)
DownTargets ==
  LET files == WorkerFiles
      backwards == [i \in DOMAIN Services |-> Services[Len(Services) + 1 - i]]
  IN  Alone \cup {backwards \o files, files}

Overlapped(targets) ==
  IF targets = <<>> \/ At(Head(targets)) = {} THEN blemish ELSE Blame(Head(targets), "overlap")

Phase(v) == IF v = "down" THEN "down" ELSE "up"

Begin(o, v, targets, root) ==
  /\ pc[o] = "idle" /\ targets # <<>> /\ \A q \in Script : q < o => Busy(q)
  /\ invocations < MaxInvocations
  /\ forks' = forks + (IF v = "down" THEN 0 ELSE Len(targets)) /\ forks' <= MaxForks
  /\ root => \A i \in DOMAIN targets : targets[i] \in Others
  /\ invocations' = invocations + 1
  /\ pc' = [pc EXCEPT ![o] = Phase(v)]
  /\ verb' = [verb EXCEPT ![o] = v]
  /\ todo' = [todo EXCEPT ![o] = targets]
  /\ sudo' = [sudo EXCEPT ![o] = root]
  /\ seen' = [seen EXCEPT ![o] = NoPid]
  /\ polls' = [polls EXCEPT ![o] = 0]
  /\ blemish' = Overlapped(targets)
  /\ UNCHANGED <<edition, procVars, pidfile, rootLog, faults>>

BeginUpAll(o) == Begin(o, "all", WorkersInOrder \o Services, FALSE)
BeginUp(o) == \E targets \in UpTargets, root \in BOOLEAN : Begin(o, "up", targets, root)
BeginDown(o) == \E targets \in DownTargets, root \in BOOLEAN : Begin(o, "down", targets, root)

\* The current component is done with: go on with the next one, or end.
Proceed(o) ==
  /\ todo' = [todo EXCEPT ![o] = Tail(@)]
  /\ pc' = [pc EXCEPT ![o] = IF Len(todo[o]) = 1 THEN "idle" ELSE Phase(verb[o])]
  /\ sudo' = [sudo EXCEPT ![o] = @ /\ Len(todo[o]) > 1]
  /\ seen' = [seen EXCEPT ![o] = NoPid]
  /\ polls' = [polls EXCEPT ![o] = 0]
  /\ UNCHANGED verb

\* A failing command under `set -e`, or an interrupt: the invocation ends.
Stop(o) ==
  /\ pc' = [pc EXCEPT ![o] = "idle"]
  /\ todo' = [todo EXCEPT ![o] = <<>>]
  /\ sudo' = [sudo EXCEPT ![o] = FALSE]
  /\ seen' = [seen EXCEPT ![o] = NoPid]
  /\ polls' = [polls EXCEPT ![o] = 0]
  /\ UNCHANGED verb

\* What the next component is blamed with when o moves on to it.
Meeting(o) == Overlapped(Tail(todo[o]))

-------------------------------------------------------------------------------
(* up: spawn_worker and spawn *)

\* A worker whose entry or settings spawn_worker refuses, or another component whose
\* starter returns early: its program is not there, or a setting of it cannot be used.
Invalid(c) ==
  LET i == RankOf(c) + 1
  IN  \/ i > 0 /\ Refused(config, WorkersNow[i].role, WorkersNow[i].worker)
      \/ c \in config.lacking

\* Fault: the failure of one worker does not end the loop over them.
RefuseAndGoOn(o) ==
  /\ pc[o] = "up"
  /\ Invalid(Current(o))
  /\ Proceed(o)
  /\ blemish' = Meeting(o)
  /\ UNCHANGED <<edition, procVars, pidfile, rootLog, countVars>>

Refuse(o) ==
  /\ pc[o] = "up"
  /\ \/ Invalid(Current(o))
     \/ ~Sees(o, pidfile[Current(o)]) /\ Current(o) \in rootLog /\ ~sudo[o]
  /\ Stop(o)
  /\ UNCHANGED <<edition, procVars, pidfile, rootLog, blemish, countVars>>

AlreadyRunning(o) ==
  /\ pc[o] = "up"
  /\ ~Invalid(Current(o))
  /\ Sees(o, pidfile[Current(o)])
  /\ Proceed(o)
  /\ blemish' = Meeting(o)
  /\ UNCHANGED <<edition, procVars, pidfile, rootLog, countVars>>

\* `setsid env ... &`: the child runs before the script records its number.
ForkUnlooked(o) ==
  /\ pc[o] = "up"
  /\ LET c == Current(o) IN
       /\ ~Invalid(c)
       /\ c \in rootLog => sudo[o]
       /\ \E p \in Pid :
            /\ Available(p)
            /\ who' = [who EXCEPT ![p] = c]
            /\ leader' = [leader EXCEPT ![p] = TRUE]
            /\ rest' = [rest EXCEPT ![p] = TRUE]
            /\ byRoot' = [byRoot EXCEPT ![p] = sudo[o]]
            /\ under' = [under EXCEPT ![p] = edition]
            /\ signal' = [signal EXCEPT ![p] = 0]
            /\ seen' = [seen EXCEPT ![o] = p]
       /\ rootLog' = IF sudo[o] THEN rootLog \cup {c} ELSE rootLog
  /\ pc' = [pc EXCEPT ![o] = "forked"]
  /\ UNCHANGED <<edition, port, pidfile, verb, todo, sudo, polls, blemish, countVars>>

Fork(o) == pc[o] = "up" /\ ~Sees(o, pidfile[Current(o)]) /\ ForkUnlooked(o)

Record(o) ==
  /\ pc[o] = "forked"
  /\ pidfile' = [pidfile EXCEPT ![Current(o)] = seen[o]]
  /\ Proceed(o)
  /\ blemish' = Meeting(o)
  /\ UNCHANGED <<edition, procVars, rootLog, countVars>>

-------------------------------------------------------------------------------
(* down: kill_pgid and kill_port *)

\* kill_pgid has returned: what holds the port of a service gets a TERM, too.
Backstop(o, s) ==
  LET c == Current(o) IN
  signal' = IF c \in ServiceNames /\ port[c] # NoPid
            THEN [s EXCEPT ![port[c]] = IF @ = 0 THEN 1 ELSE @] ELSE s

RemoveFile(o) == pidfile' = [pidfile EXCEPT ![Current(o)] = NoPid]

\* The pidfile is missing, or `kill -0` fails: for want of a process, or of the right
\* to signal it.
NotRunning(o) ==
  /\ pc[o] = "down"
  /\ LET c == Current(o) IN
       /\ ~Sees(o, pidfile[c])
       /\ blemish' = IF pidfile[c] # NoPid /\ leader[pidfile[c]]
                     THEN [Meeting(o) EXCEPT ![c] = @ \cup {"privilege"}] ELSE Meeting(o)
  /\ RemoveFile(o)
  /\ Backstop(o, signal)
  /\ Proceed(o)
  /\ UNCHANGED <<edition, who, leader, rest, byRoot, under, port, rootLog, countVars>>

Terminate(o) ==
  /\ pc[o] = "down"
  /\ Sees(o, pidfile[Current(o)])
  /\ signal' = Signals(o, pidfile[Current(o)], 1)
  /\ seen' = [seen EXCEPT ![o] = pidfile[Current(o)]]
  /\ pc' = [pc EXCEPT ![o] = "wait"]
  /\ blemish' = IF who[pidfile[Current(o)]] = Current(o) THEN blemish
                ELSE Blame(who[pidfile[Current(o)]], "mistaken")
  /\ UNCHANGED <<edition, who, leader, rest, byRoot, under, port, pidfile, rootLog, verb,
                 todo, sudo, polls, countVars>>

\* Fault: the script waits for as long as the leader runs.
PollForEver(o) ==
  /\ pc[o] = "wait" /\ Sees(o, seen[o])
  /\ polls' = [polls EXCEPT ![o] = 1 - @]
  /\ UNCHANGED <<edition, procVars, pidfile, rootLog, pc, verb, todo, sudo, seen, blemish,
                 countVars>>

\* Fault: one round too many.
PollOnceMore(o) ==
  /\ pc[o] = "wait" /\ Sees(o, seen[o]) /\ polls[o] <= MaxPolls
  /\ polls' = [polls EXCEPT ![o] = @ + 1]
  /\ UNCHANGED <<edition, procVars, pidfile, rootLog, pc, verb, todo, sudo, seen, blemish,
                 countVars>>

Poll(o) ==
  /\ pc[o] = "wait" /\ Sees(o, seen[o]) /\ polls[o] < MaxPolls
  /\ polls' = [polls EXCEPT ![o] = @ + 1]
  /\ UNCHANGED <<edition, procVars, pidfile, rootLog, pc, verb, todo, sudo, seen, blemish,
                 countVars>>

\* Fault: the file of a component that is gone stays.
StoppedKeepingFile(o) ==
  /\ pc[o] = "wait" /\ ~Sees(o, seen[o])
  /\ UNCHANGED pidfile
  /\ Backstop(o, signal)
  /\ Proceed(o)
  /\ blemish' = Meeting(o)
  /\ UNCHANGED <<edition, who, leader, rest, byRoot, under, port, rootLog, countVars>>

Stopped(o) ==
  /\ pc[o] = "wait" /\ ~Sees(o, seen[o])
  /\ RemoveFile(o)
  /\ Backstop(o, signal)
  /\ Proceed(o)
  /\ blemish' = Meeting(o)
  /\ UNCHANGED <<edition, who, leader, rest, byRoot, under, port, rootLog, countVars>>

GiveUp(o) ==
  /\ pc[o] = "wait" /\ Sees(o, seen[o]) /\ polls[o] = MaxPolls
  /\ RemoveFile(o)
  /\ Backstop(o, Signals(o, seen[o], 2))
  /\ Proceed(o)
  /\ blemish' = Meeting(o)
  /\ UNCHANGED <<edition, who, leader, rest, byRoot, under, port, rootLog, countVars>>

-------------------------------------------------------------------------------
(* What happens around the script *)

\* The invocation is interrupted; the components, in sessions of their own, are not.
Interrupt(o) ==
  /\ Busy(o) /\ faults < MaxFaults
  /\ blemish' = IF pc[o] \in {"forked", "wait"} THEN Blame(Current(o), "interrupted")
                ELSE blemish
  /\ Stop(o)
  /\ faults' = faults + 1
  /\ UNCHANGED <<edition, procVars, pidfile, rootLog, invocations, forks>>

\* Group p without the parts that exit; its number is free when nothing is left.
Shrink(p, leaderStays, restStays) ==
  /\ leader' = [leader EXCEPT ![p] = leaderStays]
  /\ rest' = [rest EXCEPT ![p] = restStays]
  /\ IF leaderStays \/ restStays THEN UNCHANGED <<who, byRoot, under, signal>>
     ELSE /\ who' = [who EXCEPT ![p] = NoOne]
          /\ byRoot' = [byRoot EXCEPT ![p] = FALSE]
          /\ under' = [under EXCEPT ![p] = NoEdition]
          /\ signal' = [signal EXCEPT ![p] = 0]
  /\ port' = [c \in DOMAIN port |-> IF port[c] = p /\ ~restStays THEN NoPid ELSE port[c]]

\* A process that was signalled exits, sooner or later or, after a TERM, not at all;
\* one that was not signalled may crash.
Unprompted(p) ==
  IF signal[p] > 0 THEN UNCHANGED <<faults, blemish>>
  ELSE /\ faults < MaxFaults /\ faults' = faults + 1
       /\ blemish' = Blame(who[p], "crashed")

LeaderExits(p) ==
  /\ leader[p]
  /\ \E restStays \in BOOLEAN : (restStays => rest[p]) /\ Shrink(p, FALSE, restStays)
  /\ Unprompted(p)
  /\ UNCHANGED <<edition, pidfile, rootLog, scriptVars, invocations, forks>>

RestExits(p) ==
  /\ rest[p]
  /\ Shrink(p, leader[p], FALSE)
  /\ Unprompted(p)
  /\ UNCHANGED <<edition, pidfile, rootLog, scriptVars, invocations, forks>>

\* A service listens on its port, or finds it taken and exits.
Listen(p) ==
  /\ rest[p] /\ who[p] \in ServiceNames /\ port[who[p]] = NoPid
  /\ port' = [port EXCEPT ![who[p]] = p]
  /\ UNCHANGED <<edition, who, leader, rest, byRoot, under, signal, pidfile, rootLog,
                 scriptVars, blemish, countVars>>

PortTaken(p) ==
  /\ rest[p] /\ who[p] \in ServiceNames /\ port[who[p]] \notin {NoPid, p}
  /\ Shrink(p, FALSE, FALSE)
  /\ blemish' = Blame(who[p], "crashed")
  /\ UNCHANGED <<edition, pidfile, rootLog, scriptVars, countVars>>

\* The operator edits testbed.yaml or the environment, between two invocations.
Edit ==
  /\ \A o \in Script : ~Busy(o)
  /\ edition' \in {e \in DOMAIN Configs : <<edition, e>> \in Edits}
  /\ UNCHANGED <<procVars, pidfile, rootLog, scriptVars, blemish, countVars>>

-------------------------------------------------------------------------------
Init ==
  /\ edition \in DOMAIN Configs
  /\ who = [p \in Pid |-> NoOne]
  /\ leader = [p \in Pid |-> FALSE]
  /\ rest = [p \in Pid |-> FALSE]
  /\ byRoot = [p \in Pid |-> FALSE]
  /\ under = [p \in Pid |-> NoEdition]
  /\ signal = [p \in Pid |-> 0]
  /\ port = [c \in ServiceNames |-> NoPid]
  /\ pidfile = [c \in Component |-> NoPid]
  /\ rootLog = {}
  /\ pc = [o \in Script |-> "idle"]
  /\ verb = [o \in Script |-> "up"]
  /\ todo = [o \in Script |-> <<>>]
  /\ sudo = [o \in Script |-> FALSE]
  /\ seen = [o \in Script |-> NoPid]
  /\ polls = [o \in Script |-> 0]
  /\ blemish = [c \in Component |-> {}]
  /\ invocations = 0 /\ forks = 0 /\ faults = 0

Step(o) ==
  \/ Refuse(o) \/ AlreadyRunning(o) \/ Fork(o) \/ Record(o)
  \/ NotRunning(o) \/ Terminate(o) \/ Poll(o) \/ Stopped(o) \/ GiveUp(o)

Next ==
  \/ \E o \in Script : BeginUpAll(o) \/ BeginUp(o) \/ BeginDown(o) \/ Step(o) \/ Interrupt(o)
  \/ \E p \in Pid : LeaderExits(p) \/ RestExits(p) \/ Listen(p) \/ PortTaken(p)
  \/ Edit

Spec == Init /\ [][Next]_vars
FairSpec == Spec /\ \A o \in Script : WF_vars(Step(o))

-------------------------------------------------------------------------------
(* Properties *)

TypeOK ==
  /\ edition \in DOMAIN Configs
  /\ who \in [Pid -> Component \cup {NoOne}]
  /\ leader \in [Pid -> BOOLEAN] /\ rest \in [Pid -> BOOLEAN]
  /\ byRoot \in [Pid -> BOOLEAN]
  /\ signal \in [Pid -> 0..2]
  /\ port \in [ServiceNames -> Pid \cup {NoPid}]
  /\ pidfile \in [Component -> Pid \cup {NoPid}]
  /\ under \in [Pid -> DOMAIN Configs \cup {NoEdition}]
  /\ rootLog \subseteq Component
  /\ pc \in [Script -> {"idle", "up", "forked", "down", "wait"}]
  /\ verb \in [Script -> {"all", "up", "down"}]
  /\ todo \in [Script -> Seq(Component)]
  /\ sudo \in [Script -> BOOLEAN]
  /\ seen \in [Script -> Pid \cup {NoPid}]
  /\ polls \in [Script -> 0..MaxPolls]
  /\ blemish \in [Component -> SUBSET Cause]

Recording(p) == \E o \in Script : pc[o] = "forked" /\ seen[o] = p

\* A running component that nobody killed is in its pidfile or about to be written
\* there, unless an invocation was interrupted over it, two invocations were at it at
\* once, or one looked for a process of root without being root: spawn and kill_pgid
\* lose a process in no other way, and never start a second one beside the first.
Tracked ==
  \A p \in Pid :
    leader[p] /\ signal[p] < 2 =>
      \/ pidfile[who[p]] = p
      \/ Recording(p)
      \/ blemish[who[p]] \cap {"interrupted", "overlap", "privilege"} # {}

\* kill_pgid trusts the number in the file.  It signals the group of another component
\* only if its own one ended behind the script's back, so that the file was left over
\* when the number was handed out again.
SparesOthers ==
  [][\A o \in Script, p \in Pid :
       pc[o] \in {"down", "wait"} /\ pc'[o] # pc[o] /\ seen'[o] = p =>
         who[p] = Current(o) \/ blemish[Current(o)] # {}]_vars

\* An up or down always ends, whatever the processes do with their signals.
Finishes == \A o \in Script : Busy(o) ~> ~Busy(o)

\* `up all` starts a service only when spawn_worker accepted every worker of the
\* configuration; the first refusal ends the invocation (set -e), with the workers of
\* lower rank left running.
StagesInOrder ==
  [][\A o \in Script :
       verb[o] = "all" /\ pc[o] = "up" /\ pc'[o] = "forked" /\ Current(o) \in ServiceNames =>
         \A i \in DOMAIN WorkersNow :
           ~Refused(config, WorkersNow[i].role, WorkersNow[i].worker)]_vars

\* The workers that run as the current configuration has them: no edit since they
\* were started.
Launched == {p \in Pid : leader[p] /\ who[p] \in Workers /\ under[p] = edition}
Line(p) ==
  LET w == WorkersNow[RankOf(who[p]) + 1]
  IN  CommandLine(config, w.role, w.worker, RankOf(who[p]))

\* The ports worker p takes: its metrics port, and one of the side channel per rank.
SidePorts(p) ==
  LET line == Line(p)
  IN  IF line.nixl = Absent THEN {}
      ELSE line.nixl..(line.nixl + line.parallel[1] * line.parallel[3] - 1)
PortsOf(p) == SidePorts(p) \cup ({Line(p).port} \ {Absent})

\* What testbed.sh leaves to whoever writes the file: no worker has more ranks than
\* there are side channel ports to a worker, and the metrics ports lie outside the range
\* of the side channels.
RangesApart(c) ==
  LET n == Len(Ranked(c))
      side == NumberInShell(c.nixl)
      metrics == NumberInShell(c.base)
  IN  /\ \A i \in DOMAIN Ranked(c) : Ranked(c)[i].worker.tp * Ranked(c)[i].worker.dp <= 100
      /\ metrics + n <= side \/ side + n * 100 <= metrics

\* load_workers counts ranks as up_workers does: unless the variable overrides the
\* file's port base, every worker is polled under its own name and role at the port
\* it was given, and workers of one configuration share no port.
PolledWhereItListens ==
  \A p \in Launched :
    /\ Scrapes(config) /\ config.base.env = Absent =>
         \E i \in DOMAIN Targets(config) :
           Targets(config)[i] = [worker |-> who[p], role |-> Line(p).mode, port |-> Line(p).port]
    /\ RangesApart(config) =>
         \A q \in Launched : who[p] # who[q] => PortsOf(p) \cap PortsOf(q) = {}

\* What config.json records of a worker is what the worker was started with, but for
\* three cases: a toggle the file sets to false, a variable that is set but empty, and
\* the spelling "t", which only pydantic takes for true.
RecordedAsLaunched ==
  \A p \in Launched : Valid(config) =>
    /\ \/ Recorded(config).toggle = Line(p).toggle
       \/ config.toggle.env = Missing /\ config.toggle.yaml = "false"
       \/ config.toggle.env = "t"
    /\ \/ Recorded(config).parser = Line(p).parser
       \/ Line(p).mode = "prefill" \/ config.parser.env = Empty
       \/ config.parser.yaml = Missing

\* testbed.yaml.example says of the toggles "true -> --enable-X; false ->
\* --no-enable-X", and testbed.sh that config.json must not record one value while the
\* workers run with the other.
TogglesAsDocumented ==
  \A p \in Launched :
    config.toggle.env = Missing /\ config.toggle.yaml = "false" => Line(p).toggle = "disable"
===============================================================================
