---------------------------- MODULE LifecycleProofs ----------------------------
(***************************************************************************)
(* Safety of Lifecycle for any components, configurations, invocations and *)
(* process numbers.                                                        *)
(*                                                                         *)
(* Whoever reads a pidfile relies on three things that no single line of   *)
(* testbed.sh establishes: that it is alone at the component, or the       *)
(* overlap is on record (OneEach); that the file names the one process of  *)
(* the component (Kept, Newest); and that this process was not signalled   *)
(* yet, so that its number was not handed out again (Stale, Fresh, Waited).*)
(* They only hold together, as Custody.  Every step of an invocation keeps *)
(* the processes (QuietStep) or drops a pidfile (RemovalStep), except for  *)
(* Fork, Record and Terminate, which have lemmas of their own.             *)
(*                                                                         *)
(* What runs is then followed to the readers of testbed.yaml, and in the   *)
(* last part to the sampler, whose entries that still "run" stand for the  *)
(* processes their numbers had when they were looked up (Entries).  That   *)
(* holds because a number changes hands only when its group is gone        *)
(* (LeadersStay), which is when psutil's objects stop running.             *)
(***************************************************************************)
EXTENDS Sampler, SequenceTheorems, FiniteSetTheorems, TLAPS

-------------------------------------------------------------------------------
(* What invocations go through *)

\* Numbers of processes differ from NoPid.
LEMMA PidsAreNumbers == \A p \in Pid : p \in Int /\ p # NoPid
  <1>1. Cardinality(Pid) \in Nat
    BY LifecycleAssumption, FS_CardinalityType
  <1>2. QED
    BY <1>1, LifecycleAssumption DEF NoPid

\* The ranked workers of a configuration are a sequence.
LEMMA RankedIsSequence ==
  ASSUME NEW e \in DOMAIN Configs
  PROVE  IsSequence(Ranked(Configs[e]))
  <1> DEFINE c == Configs[e]
             Tag(role) == [i \in DOMAIN List(c, role) |->
                             [role |-> role, worker |-> List(c, role)[i]]]
             S == UNION {{Tag(role)[i] : i \in DOMAIN List(c, role)} : role \in Role}
  <1>1. ASSUME NEW role \in Role PROVE Tag(role) \in Seq(S)
    <2>1. Len(List(c, role)) \in Nat /\ DOMAIN List(c, role) = 1..Len(List(c, role))
      BY LifecycleAssumption DEF IsSequence
    <2>2. \A i \in DOMAIN List(c, role) : Tag(role)[i] \in S
      OBVIOUS
    <2>3. QED
      BY <2>1, <2>2
  <1> HIDE DEF Tag, S
  <1>2. Ranked(c) = Tag("prefill") \o Tag("decode") \o Tag("agg")
    BY DEF Ranked, Tag
  <1>3. Ranked(c) \in Seq(S)
    BY <1>1, <1>2, ConcatProperties DEF Role
  <1>4. QED
    BY <1>3, SeqOfRange DEF IsSequence

LEMMA WorkersNowIsSequence ==
  ASSUME edition \in DOMAIN Configs
  PROVE  /\ WorkersNow = Ranked(Configs[edition])
         /\ Len(WorkersNow) \in Nat /\ DOMAIN WorkersNow = 1..Len(WorkersNow)
         /\ \A i \in DOMAIN WorkersNow : WorkersNow[i].worker.name \in Workers
  <1> DEFINE F == [e \in DOMAIN Configs |-> Ranked(Configs[e])]
             S == {F[e] : e \in DOMAIN Configs}
  <1>1. Len(Configs) \in Nat /\ DOMAIN Configs = 1..Len(Configs)
    BY LifecycleAssumption DEF IsSequence
  <1>2. F \in Seq(S)
    BY <1>1
  <1>3. RankTable = <<>> \o F
    BY DEF RankTable, Contents
  <1> HIDE DEF F, S
  <1>4. RankTable = F
    BY <1>2, <1>3, ConcatEmptySeq
  <1>5. WorkersNow = Ranked(Configs[edition])
    BY <1>4 DEF WorkersNow, F
  <1>6. WorkersNow \in Seq({WorkersNow[i] : i \in DOMAIN WorkersNow})
    BY <1>5, RankedIsSequence DEF IsSequence
  <1>7. Len(WorkersNow) \in Nat /\ DOMAIN WorkersNow = 1..Len(WorkersNow)
    BY <1>6
  <1>8. \A i \in DOMAIN WorkersNow : WorkersNow[i].worker.name \in Workers
    BY <1>5, LifecycleAssumption
  <1>9. QED
    BY <1>5, <1>7, <1>8

LEMMA WorkersInOrderIsSequence ==
  edition \in DOMAIN Configs => WorkersInOrder \in Seq(Workers)
  BY WorkersNowIsSequence DEF WorkersInOrder

LEMMA ServicesAreSequence == Services \in Seq(ServiceNames) /\ Len(Services) \in Nat
  BY LifecycleAssumption DEF IsSequence, ServiceNames

\* The pidfiles that down finds can be listed: they are finitely many.
LEMMA WorkerFilesIsSequence == WorkerFiles \in Seq(Workers)
  <1> DEFINE found == {c \in Workers : pidfile[c] # NoPid}
             n == Cardinality(found)
  <1>1. IsFiniteSet(found)
    BY LifecycleAssumption, FS_Subset
  <1>2. n \in Nat /\ ExistsBijection(1..n, found)
    BY <1>1, FS_CardinalityType
  <1>3. WorkerFiles = CHOOSE s \in [1..n -> found] : {s[i] : i \in DOMAIN s} = found
    BY DEF WorkerFiles
  <1>4. found \subseteq Workers
    OBVIOUS
  <1> HIDE DEF found, n
  <1>5. PICK f \in [1..n -> found] : \A c \in found : \E i \in 1..n : f[i] = c
    BY <1>2 DEF ExistsBijection, Bijection, Surjection
  <1>6. {f[i] : i \in DOMAIN f} = found
    BY <1>5
  <1>7. WorkerFiles \in [1..n -> found]
    BY <1>3, <1>6
  <1>8. QED
    BY <1>2, <1>4, <1>7

\* What up and down are called for are sequences of components.
LEMMA TargetsAreSequences ==
  edition \in DOMAIN Configs =>
    /\ WorkersInOrder \o Services \in Seq(Component)
    /\ UpTargets \subseteq Seq(Component)
    /\ DownTargets \subseteq Seq(Component)
  <1> SUFFICES ASSUME edition \in DOMAIN Configs
               PROVE  /\ WorkersInOrder \o Services \in Seq(Component)
                      /\ UpTargets \subseteq Seq(Component)
                      /\ DownTargets \subseteq Seq(Component)
    OBVIOUS
  <1> DEFINE backwards == [i \in DOMAIN Services |-> Services[Len(Services) + 1 - i]]
  <1>1. WorkersInOrder \in Seq(Component) /\ WorkerFiles \in Seq(Component)
    BY WorkersInOrderIsSequence, WorkerFilesIsSequence, SeqMonotonic DEF Component
  <1>2. Services \in Seq(Component)
    BY ServicesAreSequence, SeqMonotonic DEF Component
  <1>3. backwards \in Seq(Component)
    BY <1>2
  <1>4. Alone \subseteq Seq(Component)
    <2>1. \A c \in Component : <<c>> \in Seq(Component)
      OBVIOUS
    <2>2. QED
      BY <2>1 DEF Alone, Component
  <1> HIDE DEF backwards
  <1>5. WorkersInOrder \o Services \in Seq(Component)
    BY <1>1, <1>2, ConcatProperties
  <1>6. backwards \o WorkerFiles \in Seq(Component)
    BY <1>1, <1>3, ConcatProperties
  <1>7. DownTargets = Alone \cup {backwards \o WorkerFiles, WorkerFiles}
    BY DEF DownTargets, backwards
  <1>8. QED
    BY <1>1, <1>4, <1>5, <1>6, <1>7 DEF UpTargets

-------------------------------------------------------------------------------
(* Types *)

ScriptsTyped ==
  /\ pc \in [Script -> {"idle", "up", "forked", "down", "wait"}]
  /\ verb \in [Script -> {"all", "up", "down"}]
  /\ todo \in [Script -> Seq(Component)]
  /\ sudo \in [Script -> BOOLEAN]
  /\ seen \in [Script -> Pid \cup {NoPid}]
  /\ polls \in [Script -> 0..MaxPolls]

GroupsTyped ==
  /\ who \in [Pid -> Component \cup {NoOne}]
  /\ leader \in [Pid -> BOOLEAN] /\ rest \in [Pid -> BOOLEAN]
  /\ byRoot \in [Pid -> BOOLEAN]
  /\ signal \in [Pid -> 0..2]
  /\ port \in [ServiceNames -> Pid \cup {NoPid}]
  /\ under \in [Pid -> DOMAIN Configs \cup {NoEdition}]

FilesTyped ==
  /\ edition \in DOMAIN Configs
  /\ pidfile \in [Component -> Pid \cup {NoPid}]
  /\ rootLog \subseteq Component
  /\ blemish \in [Component -> SUBSET Cause]

\* A busy invocation has a component before it, and knows the process it waits for
\* or is about to record.
Turn ==
  \A o \in Script : /\ Busy(o) => todo[o] # <<>>
                    /\ pc[o] \in {"forked", "wait"} => seen[o] \in Pid

Typed == ScriptsTyped /\ GroupsTyped /\ FilesTyped /\ Turn

LEMMA TypesFromParts == ScriptsTyped /\ GroupsTyped /\ FilesTyped <=> TypeOK
  BY DEF ScriptsTyped, GroupsTyped, FilesTyped, TypeOK

\* Only o has moved, and it forks or waits for nothing.
OthersStay(o) ==
  \A q \in Script : q # o =>
    pc'[q] = pc[q] /\ todo'[q] = todo[q] /\ seen'[q] = seen[q] /\ sudo'[q] = sudo[q]
MovedOn(o) ==
  /\ OthersStay(o)
  /\ pc'[o] \in {"idle", "up", "down"}
  /\ pc'[o] # "idle" => todo'[o] = Tail(todo[o]) /\ todo'[o] # <<>>
  /\ seen'[o] = NoPid

\* A busy invocation is at a component, and Proceed moves it on to the next.
LEMMA CurrentIsComponent ==
  ASSUME Typed, NEW o \in Script, Busy(o)
  PROVE  /\ Current(o) \in Component
         /\ Tail(todo[o]) \in Seq(Component) /\ Len(todo[o]) \in Nat \ {0}
         /\ Len(todo[o]) # 1 => Tail(todo[o]) # <<>>
  <1>1. todo[o] \in Seq(Component) /\ todo[o] # <<>>
    BY DEF Typed, ScriptsTyped, Turn
  <1>2. Len(todo[o]) \in Nat \ {0} /\ Head(todo[o]) \in Component
    BY <1>1, EmptySeq, HeadTailProperties
  <1>3. Tail(todo[o]) \in Seq(Component) /\ Len(Tail(todo[o])) = Len(todo[o]) - 1
    BY <1>1, HeadTailProperties
  <1>4. Len(todo[o]) # 1 => Tail(todo[o]) # <<>>
    <2> DEFINE rests == Tail(todo[o])
    <2>1. rests = <<>> => Len(rests) = 0
      BY EmptySeq
    <2>2. Len(todo[o]) # 1 => Len(rests) # 0
      BY <1>2, <1>3
    <2> HIDE DEF rests
    <2>3. Len(todo[o]) # 1 => rests # <<>>
      BY <2>1, <2>2
    <2>4. QED
      BY <2>3 DEF rests
  <1>5. QED
    BY <1>2, <1>3, <1>4 DEF Current

LEMMA ProceedMovesOn ==
  ASSUME Typed, NEW o \in Script, Busy(o), Proceed(o)
  PROVE  MovedOn(o) /\ ScriptsTyped'
  <1> USE DEF Typed, ScriptsTyped, Proceed
  <1>1. pc'[o] \in {"idle", "up", "down"} /\ (Len(todo[o]) = 1 <=> pc'[o] = "idle")
    BY DEF Phase
  <1>2. OthersStay(o) /\ seen'[o] = NoPid
    BY DEF OthersStay
  <1>3. todo'[o] = Tail(todo[o])
    OBVIOUS
  <1>4. MovedOn(o)
    BY <1>1, <1>2, <1>3, CurrentIsComponent DEF MovedOn
  <1>5. todo' \in [Script -> Seq(Component)]
    BY CurrentIsComponent
  <1>6. polls' \in [Script -> 0..MaxPolls]
    BY LifecycleAssumption
  <1>7. sudo' \in [Script -> BOOLEAN] /\ seen' \in [Script -> Pid \cup {NoPid}]
    BY DEF NoPid
  <1>8. pc' \in [Script -> {"idle", "up", "forked", "down", "wait"}]
    BY <1>1
  <1>9. QED
    BY <1>4, <1>5, <1>6, <1>7, <1>8

LEMMA StopMovesOn ==
  ASSUME Typed, NEW o \in Script, Stop(o)
  PROVE  MovedOn(o) /\ pc'[o] = "idle" /\ ScriptsTyped'
  <1> USE DEF Typed, ScriptsTyped, Stop
  <1>1. MovedOn(o) /\ pc'[o] = "idle"
    BY DEF MovedOn, OthersStay
  <1>2. todo' \in [Script -> Seq(Component)]
    OBVIOUS
  <1>3. polls' \in [Script -> 0..MaxPolls]
    BY LifecycleAssumption
  <1>4. sudo' \in [Script -> BOOLEAN] /\ seen' \in [Script -> Pid \cup {NoPid}]
    OBVIOUS
  <1>5. QED
    BY <1>1, <1>2, <1>3, <1>4

\* Blemishes only accumulate.
Grows == \A c \in Component : blemish[c] \subseteq blemish'[c]

LEMMA BlameEffect ==
  ASSUME FilesTyped, NEW c \in Component, NEW cause \in Cause
  PROVE  /\ Blame(c, cause) \in [Component -> SUBSET Cause]
         /\ \A d \in Component : blemish[d] \subseteq Blame(c, cause)[d]
         /\ cause \in Blame(c, cause)[c]
  BY DEF FilesTyped, Blame

LEMMA OverlappedEffect ==
  ASSUME FilesTyped, NEW targets \in Seq(Component)
  PROVE  /\ Overlapped(targets) \in [Component -> SUBSET Cause]
         /\ \A d \in Component : blemish[d] \subseteq Overlapped(targets)[d]
         /\ targets # <<>> /\ At(Head(targets)) # {} =>
              "overlap" \in Overlapped(targets)[Head(targets)]
  <1>1. CASE targets = <<>> \/ At(Head(targets)) = {}
    BY <1>1 DEF FilesTyped, Overlapped
  <1>2. CASE targets # <<>> /\ At(Head(targets)) # {}
    <2>1. Head(targets) \in Component
      BY <1>2
    <2>2. Overlapped(targets) = Blame(Head(targets), "overlap")
      BY <1>2 DEF Overlapped
    <2>3. QED
      BY <2>1, <2>2, BlameEffect DEF Cause
  <1>3. QED
    BY <1>1, <1>2

LEMMA SignalsEffect ==
  ASSUME GroupsTyped, NEW o, NEW p \in Pid, NEW s \in 0..2
  PROVE  /\ Signals(o, p, s) \in [Pid -> 0..2]
         /\ \A q \in Pid \ {p} : Signals(o, p, s)[q] = signal[q]
         /\ Signals(o, p, s)[p] >= signal[p]
         /\ byRoot[p] /\ sudo[o] => Signals(o, p, s)[p] >= s
         /\ ~byRoot[p] => Signals(o, p, s)[p] >= s
         /\ Signals(o, p, s)[p] <= s \/ Signals(o, p, s)[p] = signal[p]
  BY DEF GroupsTyped, Signals

LEMMA BackstopEffect ==
  ASSUME GroupsTyped, NEW o, NEW s \in [Pid -> 0..2], Backstop(o, s)
  PROVE  /\ signal' \in [Pid -> 0..2]
         /\ \A q \in Pid : s[q] <= signal'[q]
         /\ \A q \in Pid : signal'[q] # s[q] =>
              s[q] = 0 /\ signal'[q] = 1 /\ Current(o) \in ServiceNames /\ port[Current(o)] = q
  BY DEF GroupsTyped, Backstop

\* Group p has lost its leader or the rest of it, and is free when it has lost both.
Shrunk(p, ls, rs) ==
  /\ \A q \in Pid \ {p} :
       /\ who'[q] = who[q] /\ leader'[q] = leader[q] /\ rest'[q] = rest[q]
       /\ byRoot'[q] = byRoot[q] /\ signal'[q] = signal[q]
  /\ leader'[p] = ls /\ rest'[p] = rs
  /\ ls \/ rs => who'[p] = who[p] /\ byRoot'[p] = byRoot[p] /\ signal'[p] = signal[p]
  /\ ~ls /\ ~rs => who'[p] = NoOne /\ byRoot'[p] = FALSE /\ signal'[p] = 0
  /\ \A c \in ServiceNames : port'[c] # port[c] => port'[c] = NoPid
  /\ \A c \in ServiceNames : port'[c] = p => rs

LEMMA ShrinkEffect ==
  ASSUME GroupsTyped, NEW p \in Pid, NEW ls \in BOOLEAN, NEW rs \in BOOLEAN, Shrink(p, ls, rs)
  PROVE  GroupsTyped' /\ Shrunk(p, ls, rs)
  <1> USE DEF GroupsTyped, Shrink
  <1>1. /\ leader' = [leader EXCEPT ![p] = ls] /\ rest' = [rest EXCEPT ![p] = rs]
        /\ port' = [c \in DOMAIN port |-> IF port[c] = p /\ ~rs THEN NoPid ELSE port[c]]
    OBVIOUS
  <1>2. /\ leader' \in [Pid -> BOOLEAN] /\ rest' \in [Pid -> BOOLEAN]
        /\ leader'[p] = ls /\ rest'[p] = rs
        /\ \A q \in Pid \ {p} : leader'[q] = leader[q] /\ rest'[q] = rest[q]
    BY <1>1
  <1>3. /\ port' \in [ServiceNames -> Pid \cup {NoPid}]
        /\ \A c \in ServiceNames : port'[c] # port[c] => port'[c] = NoPid
        /\ \A c \in ServiceNames : port'[c] = p => rs
    BY <1>1, PidsAreNumbers
  <1>4. CASE ls \/ rs
    <2>1. UNCHANGED <<who, byRoot, under, signal>>
      BY <1>4
    <2>2. QED
      BY <1>2, <1>3, <1>4, <2>1 DEF Shrunk
  <1>5. CASE ~ls /\ ~rs
    <2>1. /\ who' = [who EXCEPT ![p] = NoOne] /\ byRoot' = [byRoot EXCEPT ![p] = FALSE]
          /\ under' = [under EXCEPT ![p] = NoEdition] /\ signal' = [signal EXCEPT ![p] = 0]
      BY <1>5
    <2>2. /\ who' \in [Pid -> Component \cup {NoOne}] /\ byRoot' \in [Pid -> BOOLEAN]
          /\ under' \in [Pid -> DOMAIN Configs \cup {NoEdition}]
          /\ signal' \in [Pid -> 0..2]
      BY <2>1
    <2>3. /\ who'[p] = NoOne /\ byRoot'[p] = FALSE /\ signal'[p] = 0
          /\ \A q \in Pid \ {p} : /\ who'[q] = who[q] /\ byRoot'[q] = byRoot[q]
                                  /\ signal'[q] = signal[q]
      BY <2>1
    <2> HIDE DEF GroupsTyped, Shrink
    <2>4. GroupsTyped'
      BY <1>2, <1>3, <2>2 DEF GroupsTyped
    <2>5. QED
      BY <1>2, <1>3, <1>5, <2>3, <2>4 DEF Shrunk
  <1>6. QED
    BY <1>4, <1>5

LEMMA InitTyped == Init => Typed
  <1> SUFFICES ASSUME Init PROVE Typed
    OBVIOUS
  <1> USE DEF Init
  <1>1. /\ pc \in [Script -> {"idle", "up", "forked", "down", "wait"}]
        /\ verb \in [Script -> {"all", "up", "down"}]
        /\ todo \in [Script -> Seq(Component)]
        /\ seen \in [Script -> Pid \cup {NoPid}]
    OBVIOUS
  <1>2. polls \in [Script -> 0..MaxPolls]
    BY LifecycleAssumption
  <1>3. sudo \in [Script -> BOOLEAN] /\ leader \in [Pid -> BOOLEAN] /\ rest \in [Pid -> BOOLEAN]
        /\ byRoot \in [Pid -> BOOLEAN]
    BY Zenon
  <1>4. /\ who \in [Pid -> Component \cup {NoOne}] /\ signal \in [Pid -> 0..2]
        /\ port \in [ServiceNames -> Pid \cup {NoPid}]
        /\ under \in [Pid -> DOMAIN Configs \cup {NoEdition}]
    OBVIOUS
  <1>5. FilesTyped
    BY DEF FilesTyped
  <1>6. Turn
    BY DEF Turn, Busy
  <1>7. QED
    BY <1>1, <1>2, <1>3, <1>4, <1>5, <1>6 DEF Typed, ScriptsTyped, GroupsTyped

\* The first step of an invocation.
LEMMA BeginEffect ==
  ASSUME Typed, NEW o \in Script, NEW v \in {"all", "up", "down"}, NEW root \in BOOLEAN,
         NEW targets \in Seq(Component), Begin(o, v, targets, root)
  PROVE  /\ Typed'
         /\ OthersStay(o) /\ pc[o] = "idle" /\ pc'[o] \in {"up", "down"}
         /\ Current(o)' = Head(targets) /\ targets # <<>>
         /\ blemish' = Overlapped(targets)
         /\ UNCHANGED <<edition, procVars, pidfile, rootLog>>
  <1> USE DEF Typed, ScriptsTyped, Begin
  <1>1. pc' \in [Script -> {"idle", "up", "forked", "down", "wait"}] /\ pc'[o] \in {"up", "down"}
    BY DEF Phase
  <1>2. todo' \in [Script -> Seq(Component)] /\ todo'[o] = targets /\ targets # <<>>
    OBVIOUS
  <1>3. verb' \in [Script -> {"all", "up", "down"}] /\ sudo' \in [Script -> BOOLEAN]
        /\ seen' \in [Script -> Pid \cup {NoPid}]
    OBVIOUS
  <1>4. polls' \in [Script -> 0..MaxPolls]
    BY LifecycleAssumption
  <1>5. OthersStay(o) /\ pc[o] = "idle"
    BY DEF OthersStay
  <1>6. UNCHANGED <<edition, procVars, pidfile, rootLog>> /\ blemish' = Overlapped(targets)
    OBVIOUS
  <1>7. ScriptsTyped'
    BY <1>1, <1>2, <1>3, <1>4
  <1>8. GroupsTyped'
    BY <1>6 DEF GroupsTyped, procVars
  <1>9. FilesTyped'
    BY <1>6, OverlappedEffect DEF FilesTyped
  <1>10. Turn'
    BY <1>1, <1>2, <1>5 DEF Turn, OthersStay, Busy
  <1>11. QED
    BY <1>1, <1>2, <1>5, <1>6, <1>7, <1>8, <1>9, <1>10 DEF Current

\* A component is done with: every action that ends in Proceed.
LEMMA MovedOnKeepsTurn ==
  ASSUME Typed, NEW o \in Script, MovedOn(o)
  PROVE  Turn'
  BY DEF Typed, Turn, MovedOn, OthersStay, Busy

LEMMA MeetingEffect ==
  ASSUME Typed, NEW o \in Script, Busy(o)
  PROVE  /\ Meeting(o) \in [Component -> SUBSET Cause]
         /\ \A d \in Component : blemish[d] \subseteq Meeting(o)[d]
         /\ Tail(todo[o]) # <<>> /\ At(Head(Tail(todo[o]))) # {} =>
              "overlap" \in Meeting(o)[Head(Tail(todo[o]))]
  BY CurrentIsComponent, OverlappedEffect DEF Typed, Meeting

-------------------------------------------------------------------------------
(* The invariant *)

\* At most one invocation is at a component that has no overlap.
OneEach ==
  \A o1, o2 \in Script :
    o1 # o2 /\ Busy(o1) /\ Busy(o2) /\ Current(o1) = Current(o2) =>
      "overlap" \in blemish[Current(o1)]

\* A free number has no processes; a process of root left a log file of root, which
\* keeps every other user from starting the component; a port is its component's.
Groups ==
  \A p \in Pid :
    /\ who[p] = NoOne => ~leader[p]
    /\ byRoot[p] => who[p] \in rootLog
    /\ \A c \in ServiceNames : port[c] = p => who[p] = c

Losses == {"interrupted", "overlap", "privilege"}
Lost(c) == blemish[c] \cap Losses # {}
RecordedBy(o, p) == pc[o] = "forked" /\ seen[o] = p /\ Current(o) = who[p]
WaitedFor(o, p, c) == pc[o] = "wait" /\ seen[o] = p /\ Current(o) = c

\* Tracked, with the recording done under the right name.
Kept ==
  \A p \in Pid :
    leader[p] /\ signal[p] < 2 =>
      \/ pidfile[who[p]] = p
      \/ \E o \in Script : RecordedBy(o, p)
      \/ Lost(who[p])

\* What an invocation has forked is the only process of its component.
Newest ==
  \A o \in Script : pc[o] = "forked" =>
    \/ Lost(Current(o))
    \/ \A q \in Pid : leader[q] /\ signal[q] < 2 /\ who[q] = Current(o) => q = seen[o]

\* What an invocation waits for was signalled, is in the pidfile, and can be seen while
\* it lives.
Waited ==
  \A o \in Script : pc[o] = "wait" =>
    /\ byRoot[seen[o]] => sudo[o]
    /\ signal[seen[o]] > 0 \/ who[seen[o]] = NoOne
    /\ pidfile[Current(o)] = seen[o] \/ Lost(Current(o))

\* A pidfile without a blemish names a process of the component that nobody signalled,
\* but for an invocation that waits for its end.
Stale ==
  \A c \in Component, p \in Pid :
    pidfile[c] = p =>
      \/ blemish[c] # {}
      \/ \E o \in Script : WaitedFor(o, p, c)
      \/ who[p] = c /\ signal[p] = 0

\* The same for a process that is about to be recorded.
Fresh ==
  \A o \in Script : pc[o] = "forked" =>
    \/ blemish[Current(o)] # {}
    \/ who[seen[o]] = Current(o) /\ signal[seen[o]] = 0

Custody == Groups /\ Kept /\ Newest /\ Waited /\ Stale /\ Fresh

Inv == Typed /\ OneEach /\ Custody

LEMMA InitInv == Init => Inv
  <1> SUFFICES ASSUME Init PROVE Inv
    OBVIOUS
  <1>1. Typed
    BY InitTyped
  <1>2. \A o \in Script : pc[o] = "idle"
    BY DEF Init
  <1>3. \A p \in Pid : who[p] = NoOne /\ leader[p] = FALSE /\ byRoot[p] = FALSE
    BY DEF Init
  <1>4. \A c \in Component, p \in Pid : pidfile[c] # p
    BY PidsAreNumbers DEF Init
  <1>5. \A c \in ServiceNames, p \in Pid : port[c] # p
    BY PidsAreNumbers DEF Init
  <1>6. OneEach
    BY <1>2 DEF OneEach, Busy
  <1>7. Groups /\ Kept
    BY <1>3, <1>5 DEF Groups, Kept
  <1>8. Newest /\ Waited /\ Fresh
    BY <1>2 DEF Newest, Waited, Fresh
  <1>9. Stale
    BY <1>4 DEF Stale
  <1>10. QED
    BY <1>1, <1>6, <1>7, <1>8, <1>9 DEF Inv, Custody

\* Two invocations only come to be at one component by the step of one of them, which
\* notices.
LEMMA OneEachKept ==
  ASSUME Typed, OneEach, Grows, NEW o \in Script, OthersStay(o),
         \/ ~Busy(o)'
         \/ Busy(o) /\ Current(o)' = Current(o)
         \/ At(Current(o)') \ {o} # {} => "overlap" \in blemish'[Current(o)']
  PROVE  OneEach'
  <1> SUFFICES ASSUME NEW o1 \in Script, NEW o2 \in Script, o1 # o2,
                      Busy(o1)', Busy(o2)', Current(o1)' = Current(o2)'
               PROVE  "overlap" \in blemish'[Current(o1)']
    BY DEF OneEach
  <1>1. \A q \in Script : q # o => /\ Busy(q)' = Busy(q)
                                  /\ Current(q)' = Current(q)
    BY DEF OthersStay, Busy, Current
  <1>2. \A q \in Script : Busy(q) => Current(q) \in Component /\ todo[q] # <<>>
    BY CurrentIsComponent DEF Typed, Turn
  <1>3. CASE o1 # o /\ o2 # o
    BY <1>1, <1>2, <1>3 DEF OneEach, Grows
  <1>4. ASSUME NEW q \in Script, q # o, Busy(o)', Busy(q)', Current(o)' = Current(q)'
        PROVE  "overlap" \in blemish'[Current(o)']
    <2>1. Busy(q) /\ Current(q) = Current(o)'
      BY <1>1, <1>4
    <2>2. CASE Busy(o) /\ Current(o)' = Current(o)
      BY <1>2, <1>4, <2>1, <2>2 DEF OneEach, Grows
    <2>3. CASE At(Current(o)') \ {o} # {} => "overlap" \in blemish'[Current(o)']
      <3>1. q \in At(Current(o)')
        BY <1>2, <2>1 DEF At
      <3>2. QED
        BY <1>4, <2>3, <3>1
    <2>4. QED
      BY <1>4, <2>2, <2>3
  <1>5. QED
    BY <1>3, <1>4

LEMMA MovingOn ==
  ASSUME Typed, OneEach, NEW o \in Script, Busy(o), MovedOn(o), Grows,
         Busy(o)' => \A d \in Component : Meeting(o)[d] \subseteq blemish'[d]
  PROVE  OneEach' /\ Turn'
  <1>1. Turn'
    BY MovedOnKeepsTurn
  <1>2. CASE ~Busy(o)'
    BY <1>1, <1>2, OneEachKept DEF MovedOn
  <1>3. CASE Busy(o)'
    <2>1. todo'[o] = Tail(todo[o]) /\ Tail(todo[o]) # <<>>
      BY <1>3 DEF MovedOn, Busy
    <2>2. Current(o)' = Head(Tail(todo[o])) /\ Head(Tail(todo[o])) \in Component
      <3>1. Tail(todo[o]) \in Seq(Component)
        BY CurrentIsComponent
      <3>2. QED
        BY <2>1, <3>1, HeadTailProperties DEF Current
    <2>3. At(Current(o)') \ {o} # {} => "overlap" \in blemish'[Current(o)']
      BY <1>3, <2>1, <2>2, MeetingEffect
    <2>4. QED
      BY <1>1, <2>3, OneEachKept DEF MovedOn
  <1>4. QED
    BY <1>2, <1>3

SameWork(q) ==
  /\ pc'[q] = pc[q] /\ seen'[q] = seen[q] /\ sudo'[q] = sudo[q]
  /\ Current(q)' = Current(q)

LEMMA OthersWork ==
  ASSUME NEW o, OthersStay(o)
  PROVE  \A q \in Script \ {o} : SameWork(q)
  BY DEF OthersStay, SameWork, Current

\* A step that changes no group and no pidfile, and where whoever leaves a process it
\* forked or waits for is blamed.
LEMMA QuietStep ==
  ASSUME Typed, Typed', Custody, Grows, UNCHANGED <<procVars, pidfile, rootLog>>,
         \A q \in Script :
           \/ SameWork(q)
           \/ /\ pc'[q] \notin {"forked", "wait"}
              /\ pc[q] \in {"forked", "wait"} => "interrupted" \in blemish'[Current(q)]
  PROVE  Custody'
  <1>1. /\ who' = who /\ leader' = leader /\ byRoot' = byRoot /\ signal' = signal
        /\ port' = port /\ pidfile' = pidfile /\ rootLog' = rootLog
    BY DEF procVars
  <1>2. \A c \in Component : Lost(c) => Lost(c)'
    BY DEF Lost, Grows
  <1>3. \A p \in Pid : leader[p] => who[p] \in Component
    BY DEF Typed, GroupsTyped, Custody, Groups
  <1>4. \A q \in Script : pc[q] \in {"forked", "wait"} => Current(q) \in Component
    BY CurrentIsComponent DEF Busy
  <1>5. Groups'
    BY <1>1 DEF Custody, Groups
  <1>6. Kept'
    <2> SUFFICES ASSUME NEW p \in Pid, leader[p], signal[p] < 2, pidfile[who[p]] # p
                 PROVE  Lost(who[p])' \/ \E o \in Script : RecordedBy(o, p)'
      BY <1>1 DEF Kept
    <2>1. CASE Lost(who[p])
      BY <1>1, <1>2, <1>3, <2>1 DEF Lost
    <2>2. ASSUME NEW o \in Script, RecordedBy(o, p)
          PROVE  Lost(who[p])' \/ RecordedBy(o, p)'
      BY <1>1, <2>2 DEF RecordedBy, SameWork, Lost, Losses
    <2>3. QED
      BY <2>1, <2>2 DEF Custody, Kept
  <1>7. Newest'
    BY <1>1, <1>2, <1>4 DEF Custody, Newest, SameWork, Lost, Losses
  <1>8. Waited'
    BY <1>1, <1>2, <1>4 DEF Custody, Waited, SameWork, Lost, Losses
  <1>9. Stale'
    <2> SUFFICES ASSUME NEW c \in Component, NEW p \in Pid, pidfile[c] = p,
                        ~(who[p] = c /\ signal[p] = 0)
                 PROVE  blemish'[c] # {} \/ \E o \in Script : WaitedFor(o, p, c)'
      BY <1>1 DEF Stale
    <2>1. CASE blemish[c] # {}
      BY <2>1 DEF Grows
    <2>2. ASSUME NEW o \in Script, WaitedFor(o, p, c)
          PROVE  blemish'[c] # {} \/ WaitedFor(o, p, c)'
      BY <2>2 DEF WaitedFor, SameWork
    <2>3. QED
      BY <2>1, <2>2 DEF Custody, Stale
  <1>10. Fresh'
    BY <1>1, <1>4 DEF Custody, Fresh, SameWork, Grows
  <1>11. QED
    BY <1>5, <1>6, <1>7, <1>8, <1>9, <1>10 DEF Custody

\* kill_pgid has returned: the pidfile of o's component is gone, and its process too
\* unless it is lost.
LEMMA RemovalStep ==
  ASSUME Typed, Typed', OneEach, Custody, Grows,
         NEW o \in Script, pc[o] \in {"down", "wait"}, MovedOn(o),
         UNCHANGED <<who, leader, rest, byRoot, under, port, rootLog>>,
         pidfile' = [pidfile EXCEPT ![Current(o)] = NoPid],
         \A q \in Pid : signal[q] <= signal'[q],
         \A q \in Pid : signal'[q] # signal[q] =>
           signal[q] > 0 \/ (Current(o) \in ServiceNames /\ port[Current(o)] = q),
         \A p \in Pid : pidfile[Current(o)] = p /\ who[p] = Current(o) /\ leader[p]
                        /\ signal'[p] < 2 => blemish'[Current(o)] \cap Losses # {}
  PROVE  Custody'
  <1> DEFINE c == Current(o)
  <1>1. /\ who' = who /\ leader' = leader /\ byRoot' = byRoot /\ port' = port /\ rootLog' = rootLog
    OBVIOUS
  <1>2. \A d \in Component : /\ Lost(d) => Lost(d)'
                             /\ blemish[d] # {} => blemish'[d] # {}
    BY DEF Lost, Grows
  <1>3. c \in Component
    BY CurrentIsComponent DEF Busy
  <1>4. pidfile'[c] = NoPid /\ \A d \in Component \ {c} : pidfile'[d] = pidfile[d]
    BY <1>3 DEF Typed, FilesTyped
  <1>5. \A q \in Script \ {o} : SameWork(q)
    BY OthersWork DEF MovedOn
  <1>6. \A q \in Script \ {o} : pc[q] \in {"forked", "wait"} =>
          Current(q) \in Component /\ (Current(q) = c => Lost(c) /\ blemish[c] # {})
    BY CurrentIsComponent DEF OneEach, Busy, Lost, Losses
  <1>7. \A p \in Pid : leader[p] => who[p] \in Component
    BY DEF Typed, GroupsTyped, Custody, Groups
  <1>8. pc[o] # "forked" /\ pc'[o] \notin {"forked", "wait"}
    BY DEF MovedOn
  <1>9. \A q \in Pid : who[q] # c /\ signal[q] = 0 => signal'[q] = 0
    BY DEF Custody, Groups
  <1>10. \A q \in Pid : signal[q] \in 0..2 /\ signal'[q] \in 0..2
    BY DEF Typed, GroupsTyped
  <1>11. \A p \in Pid : p # NoPid
    BY PidsAreNumbers
  <1> HIDE DEF c
  <1>12. Groups'
    BY <1>1 DEF Custody, Groups
  <1>13. Kept'
    <2> SUFFICES ASSUME NEW p \in Pid, leader[p], signal'[p] < 2
                 PROVE  \/ pidfile'[who[p]] = p \/ Lost(who[p])'
                        \/ \E q \in Script : RecordedBy(q, p)'
      BY <1>1 DEF Kept, Lost
    <2>1. signal[p] < 2
      BY <1>10
    <2>2. CASE pidfile[who[p]] = p
      <3>1. CASE who[p] = c
        BY <1>1, <2>2, <3>1 DEF c, Lost
      <3>2. CASE who[p] # c
        BY <1>1, <1>4, <1>7, <2>2, <3>2
      <3>3. QED
        BY <3>1, <3>2
    <2>3. CASE Lost(who[p])
      BY <1>1, <1>2, <1>7, <2>3 DEF Lost
    <2>4. ASSUME NEW q \in Script, RecordedBy(q, p) PROVE RecordedBy(q, p)'
      BY <1>1, <1>5, <1>8, <2>4 DEF RecordedBy, SameWork
    <2>5. QED
      BY <2>1, <2>2, <2>3, <2>4 DEF Custody, Kept
  <1>14. Newest'
    <2> SUFFICES ASSUME NEW q \in Script, pc'[q] = "forked", ~Lost(Current(q))',
                        NEW p \in Pid, leader[p], signal'[p] < 2, who[p] = Current(q)'
                 PROVE  p = seen'[q]
      BY <1>1 DEF Newest, Lost
    <2>1. q # o /\ SameWork(q)
      BY <1>5, <1>8
    <2>2. pc[q] = "forked" /\ ~Lost(Current(q)) /\ who[p] = Current(q) /\ signal[p] < 2
      BY <1>2, <1>6, <1>10, <2>1 DEF SameWork, Lost
    <2>3. QED
      BY <2>1, <2>2 DEF Custody, Newest, SameWork
  <1>15. Waited'
    <2> SUFFICES ASSUME NEW q \in Script, pc'[q] = "wait"
                 PROVE  /\ byRoot[seen'[q]] => sudo'[q]
                        /\ signal'[seen'[q]] > 0 \/ who[seen'[q]] = NoOne
                        /\ pidfile'[Current(q)'] = seen'[q] \/ Lost(Current(q))'
      BY <1>1 DEF Waited, Lost
    <2>1. q # o /\ SameWork(q) /\ pc[q] = "wait" /\ seen[q] \in Pid
      BY <1>5, <1>8 DEF SameWork, Typed, Turn
    <2>2. /\ byRoot[seen[q]] => sudo[q]
          /\ signal[seen[q]] > 0 \/ who[seen[q]] = NoOne
          /\ pidfile[Current(q)] = seen[q] \/ Lost(Current(q))
      BY <2>1 DEF Custody, Waited
    <2>3. signal'[seen[q]] > 0 \/ who[seen[q]] = NoOne
      BY <1>10, <2>1, <2>2
    <2>4. Lost(Current(q)) => Lost(Current(q))'
      BY <1>2, <1>6, <2>1 DEF SameWork, Lost
    <2>5. pidfile'[Current(q)] = seen[q] \/ Lost(Current(q))'
      BY <1>4, <1>6, <2>1, <2>2, <2>4
    <2>6. /\ seen'[q] = seen[q] /\ sudo'[q] = sudo[q] /\ Current(q)' = Current(q)
      BY <2>1 DEF SameWork
    <2>7. QED
      BY <2>2, <2>3, <2>5, <2>6
  <1>16. Stale'
    <2> SUFFICES ASSUME NEW d \in Component, NEW p \in Pid, pidfile'[d] = p
                 PROVE  \/ blemish'[d] # {}
                        \/ \E q \in Script : WaitedFor(q, p, d)'
                        \/ who[p] = d /\ signal'[p] = 0
      BY <1>1 DEF Stale
    <2>1. d # c /\ pidfile[d] = p
      BY <1>4, <1>11
    <2>2. ASSUME NEW q \in Script, WaitedFor(q, p, d) PROVE WaitedFor(q, p, d)'
      BY <1>5, <2>1, <2>2 DEF WaitedFor, SameWork, c
    <2>3. QED
      BY <1>2, <1>9, <2>1, <2>2 DEF Custody, Stale
  <1>17. Fresh'
    <2> SUFFICES ASSUME NEW q \in Script, pc'[q] = "forked", blemish'[Current(q)'] = {}
                 PROVE  who[seen'[q]] = Current(q)' /\ signal'[seen'[q]] = 0
      BY <1>1 DEF Fresh
    <2>1. q # o /\ SameWork(q) /\ pc[q] = "forked" /\ seen[q] \in Pid
      BY <1>5, <1>8 DEF SameWork, Typed, Turn
    <2>2. blemish[Current(q)] = {} /\ Current(q) # c
      BY <1>2, <1>6, <2>1 DEF SameWork
    <2>3. QED
      BY <1>9, <2>1, <2>2 DEF Custody, Fresh, SameWork
  <1>18. QED
    BY <1>12, <1>13, <1>14, <1>15, <1>16, <1>17 DEF Custody

-------------------------------------------------------------------------------
(* The steps of an invocation *)

LEMMA BeginStep ==
  ASSUME Inv, NEW o \in Script, BeginUpAll(o) \/ BeginUp(o) \/ BeginDown(o)
  PROVE  Inv'
  <1>1. PICK v \in {"all", "up", "down"}, root \in BOOLEAN, targets \in Seq(Component) :
          Begin(o, v, targets, root)
    <2>1. edition \in DOMAIN Configs
      BY DEF Inv, Typed, FilesTyped
    <2>2. CASE BeginUpAll(o)
      BY <2>1, <2>2, TargetsAreSequences, Zenon DEF BeginUpAll
    <2>3. CASE BeginUp(o)
      BY <2>1, <2>3, TargetsAreSequences, Zenon DEF BeginUp
    <2>4. CASE BeginDown(o)
      BY <2>1, <2>4, TargetsAreSequences, Zenon DEF BeginDown
    <2>5. QED
      BY <2>2, <2>3, <2>4
  <1>2. /\ Typed'
        /\ OthersStay(o) /\ pc[o] = "idle" /\ pc'[o] \in {"up", "down"}
        /\ Current(o)' = Head(targets) /\ targets # <<>>
        /\ blemish' = Overlapped(targets)
        /\ UNCHANGED <<edition, procVars, pidfile, rootLog>>
    BY <1>1, BeginEffect DEF Inv
  <1>3. Grows
    BY <1>2, OverlappedEffect DEF Inv, Typed, Grows
  <1>4. At(Current(o)') \ {o} # {} => "overlap" \in blemish'[Current(o)']
    BY <1>2, OverlappedEffect DEF Inv, Typed
  <1>5. OneEach'
    BY <1>2, <1>3, <1>4, OneEachKept DEF Inv
  <1>6. Custody'
    <2>1. \A q \in Script : SameWork(q) \/ (pc'[q] \notin {"forked", "wait"} /\ pc[q] \notin {"forked", "wait"})
      BY <1>2, OthersWork
    <2>2. QED
      BY <1>2, <1>3, <2>1, QuietStep DEF Inv
  <1>7. QED
    BY <1>2, <1>5, <1>6 DEF Inv

LEMMA RefuseStep ==
  ASSUME Inv, NEW o \in Script, Refuse(o)
  PROVE  Inv'
  <1>1. /\ pc[o] = "up" /\ Busy(o) /\ Stop(o)
        /\ UNCHANGED <<edition, procVars, pidfile, rootLog, blemish>>
    BY DEF Refuse, Busy
  <1>2. MovedOn(o) /\ pc'[o] = "idle" /\ ScriptsTyped'
    BY <1>1, StopMovesOn DEF Inv
  <1>3. Grows
    BY <1>1 DEF Grows
  <1>4. OneEach' /\ Turn'
    BY <1>1, <1>2, <1>3, MovingOn DEF Inv, Busy
  <1>5. Typed'
    BY <1>1, <1>2, <1>4 DEF Inv, Typed, GroupsTyped, FilesTyped, procVars
  <1>6. \A q \in Script : SameWork(q) \/ (pc'[q] \notin {"forked", "wait"} /\ pc[q] \notin {"forked", "wait"})
    BY <1>1, <1>2, OthersWork DEF MovedOn
  <1>7. Custody'
    BY <1>1, <1>3, <1>5, <1>6, QuietStep DEF Inv
  <1>8. QED
    BY <1>4, <1>5, <1>7 DEF Inv

LEMMA AlreadyRunningStep ==
  ASSUME Inv, NEW o \in Script, AlreadyRunning(o)
  PROVE  Inv'
  <1>1. /\ pc[o] = "up" /\ Busy(o) /\ Proceed(o) /\ blemish' = Meeting(o)
        /\ UNCHANGED <<edition, procVars, pidfile, rootLog>>
    BY DEF AlreadyRunning, Busy
  <1>2. MovedOn(o) /\ ScriptsTyped'
    BY <1>1, ProceedMovesOn DEF Inv
  <1>3. Grows /\ blemish' \in [Component -> SUBSET Cause]
    BY <1>1, MeetingEffect DEF Grows, Inv
  <1>4. OneEach' /\ Turn'
    BY <1>1, <1>2, <1>3, MovingOn DEF Inv
  <1>5. Typed'
    BY <1>1, <1>2, <1>3, <1>4 DEF Inv, Typed, GroupsTyped, FilesTyped, procVars
  <1>6. \A q \in Script : SameWork(q) \/ (pc'[q] \notin {"forked", "wait"} /\ pc[q] \notin {"forked", "wait"})
    BY <1>1, <1>2, OthersWork DEF MovedOn
  <1>7. Custody'
    BY <1>1, <1>3, <1>5, <1>6, QuietStep DEF Inv
  <1>8. QED
    BY <1>4, <1>5, <1>7 DEF Inv

LEMMA PollStep ==
  ASSUME Inv, NEW o \in Script, Poll(o)
  PROVE  Inv'
  <1>1. /\ pc' = pc /\ todo' = todo /\ seen' = seen /\ sudo' = sudo /\ verb' = verb
        /\ blemish' = blemish
        /\ polls[o] < MaxPolls /\ polls' = [polls EXCEPT ![o] = @ + 1]
        /\ UNCHANGED <<edition, procVars, pidfile, rootLog>>
    BY DEF Poll
  <1>2. polls' \in [Script -> 0..MaxPolls]
    BY <1>1, LifecycleAssumption DEF Inv, Typed, ScriptsTyped
  <1>3. Typed'
    BY <1>1, <1>2 DEF Inv, Typed, ScriptsTyped, GroupsTyped, FilesTyped, Turn, Busy, procVars
  <1>4. Grows /\ \A q \in Script : SameWork(q)
    BY <1>1 DEF Grows, SameWork, Current
  <1>5. OneEach'
    BY <1>1 DEF Inv, OneEach, Busy, Current
  <1>6. Custody'
    BY <1>1, <1>3, <1>4, QuietStep DEF Inv
  <1>7. QED
    BY <1>3, <1>5, <1>6 DEF Inv

LEMMA InterruptStep ==
  ASSUME Inv, NEW o \in Script, Interrupt(o)
  PROVE  Inv'
  <1>1. /\ Busy(o) /\ Stop(o)
        /\ blemish' = IF pc[o] \in {"forked", "wait"} THEN Blame(Current(o), "interrupted")
                      ELSE blemish
        /\ UNCHANGED <<edition, procVars, pidfile, rootLog>>
    BY DEF Interrupt
  <1>2. MovedOn(o) /\ pc'[o] = "idle" /\ ScriptsTyped'
    BY <1>1, StopMovesOn DEF Inv
  <1>3. /\ Grows /\ blemish' \in [Component -> SUBSET Cause]
        /\ pc[o] \in {"forked", "wait"} => "interrupted" \in blemish'[Current(o)]
    <2>1. Current(o) \in Component
      BY <1>1, CurrentIsComponent DEF Inv
    <2>2. CASE pc[o] \in {"forked", "wait"}
      BY <1>1, <2>1, <2>2, BlameEffect DEF Grows, Inv, Typed, Cause
    <2>3. CASE pc[o] \notin {"forked", "wait"}
      BY <1>1, <2>3 DEF Grows, Inv, Typed, FilesTyped
    <2>4. QED
      BY <2>2, <2>3
  <1>4. OneEach' /\ Turn'
    BY <1>1, <1>2, <1>3, MovingOn DEF Inv, Busy
  <1>5. Typed'
    BY <1>1, <1>2, <1>3, <1>4 DEF Inv, Typed, GroupsTyped, FilesTyped, procVars
  <1>6. \A q \in Script :
          \/ SameWork(q)
          \/ /\ pc'[q] \notin {"forked", "wait"}
             /\ pc[q] \in {"forked", "wait"} => "interrupted" \in blemish'[Current(q)]
    BY <1>1, <1>2, <1>3, OthersWork DEF MovedOn
  <1>7. Custody'
    BY <1>1, <1>3, <1>5, <1>6, QuietStep DEF Inv
  <1>8. QED
    BY <1>4, <1>5, <1>7 DEF Inv

LEMMA RecordStep ==
  ASSUME Inv, NEW o \in Script, Record(o)
  PROVE  Inv'
  <1> DEFINE c == Current(o)
  <1>1. /\ pc[o] = "forked" /\ Busy(o) /\ Proceed(o) /\ blemish' = Meeting(o)
        /\ pidfile' = [pidfile EXCEPT ![c] = seen[o]]
        /\ UNCHANGED <<edition, procVars, rootLog>>
    BY DEF Record, Busy
  <1>2. /\ who' = who /\ leader' = leader /\ byRoot' = byRoot /\ signal' = signal
        /\ port' = port /\ rootLog' = rootLog
    BY <1>1 DEF procVars
  <1>3. MovedOn(o) /\ ScriptsTyped'
    BY <1>1, ProceedMovesOn DEF Inv
  <1>4. Grows /\ blemish' \in [Component -> SUBSET Cause]
    BY <1>1, MeetingEffect DEF Grows, Inv
  <1>5. OneEach' /\ Turn'
    BY <1>1, <1>3, <1>4, MovingOn DEF Inv
  <1>6. c \in Component /\ seen[o] \in Pid
    BY <1>1, CurrentIsComponent DEF Inv, Typed, Turn
  <1>7. Typed'
    BY <1>1, <1>3, <1>4, <1>5, <1>6 DEF Inv, Typed, GroupsTyped, FilesTyped, procVars
  <1>8. pidfile'[c] = seen[o] /\ \A d \in Component \ {c} : pidfile'[d] = pidfile[d]
    BY <1>1, <1>6 DEF Inv, Typed, FilesTyped
  <1>9. \A q \in Script \ {o} : SameWork(q)
    BY <1>3, OthersWork DEF MovedOn
  <1>10. \A q \in Script \ {o} : pc[q] \in {"forked", "wait"} =>
           Current(q) \in Component /\ (Current(q) = c => Lost(c))
    BY <1>1, CurrentIsComponent DEF Inv, OneEach, Busy, Lost, Losses
  <1>11. \A d \in Component : /\ Lost(d) => Lost(d)'
                              /\ blemish[d] # {} => blemish'[d] # {}
    BY <1>4 DEF Lost, Grows
  <1>12. \A p \in Pid : leader[p] => who[p] \in Component
    BY DEF Inv, Typed, GroupsTyped, Custody, Groups
  <1>13. pc'[o] \notin {"forked", "wait"}
    BY <1>3 DEF MovedOn
  <1> HIDE DEF c
  <1>14. Groups'
    BY <1>2 DEF Inv, Custody, Groups
  <1>15. Kept'
    <2> SUFFICES ASSUME NEW p \in Pid, leader[p], signal[p] < 2
                 PROVE  \/ pidfile'[who[p]] = p \/ Lost(who[p])'
                        \/ \E q \in Script : RecordedBy(q, p)'
      BY <1>2 DEF Kept, Lost
    <2>1. CASE Lost(who[p])
      BY <1>2, <1>11, <1>12, <2>1 DEF Lost
    <2>2. CASE who[p] = c /\ ~Lost(c)
      BY <1>1, <1>8, <2>2 DEF Inv, Custody, Newest, c
    <2>3. CASE who[p] # c /\ pidfile[who[p]] = p
      BY <1>8, <1>12, <2>3
    <2>4. ASSUME NEW q \in Script, RecordedBy(q, p), who[p] # c PROVE RecordedBy(q, p)'
      BY <1>2, <1>9, <2>4 DEF RecordedBy, SameWork, c
    <2>5. QED
      BY <2>1, <2>2, <2>3, <2>4 DEF Inv, Custody, Kept
  <1>16. Newest'
    <2> SUFFICES ASSUME NEW q \in Script, pc'[q] = "forked", ~Lost(Current(q))',
                        NEW p \in Pid, leader[p], signal[p] < 2, who[p] = Current(q)'
                 PROVE  p = seen'[q]
      BY <1>2 DEF Newest, Lost
    <2>1. q # o /\ SameWork(q)
      BY <1>9, <1>13
    <2>2. pc[q] = "forked" /\ ~Lost(Current(q)) /\ who[p] = Current(q)
      BY <1>10, <1>11, <2>1 DEF SameWork, Lost, Losses
    <2>3. QED
      BY <2>1, <2>2 DEF Inv, Custody, Newest, SameWork
  <1>17. Waited'
    <2> SUFFICES ASSUME NEW q \in Script, pc'[q] = "wait"
                 PROVE  /\ byRoot[seen'[q]] => sudo'[q]
                        /\ signal[seen'[q]] > 0 \/ who[seen'[q]] = NoOne
                        /\ pidfile'[Current(q)'] = seen'[q] \/ Lost(Current(q))'
      BY <1>2 DEF Waited, Lost
    <2>1. q # o /\ SameWork(q) /\ pc[q] = "wait"
      BY <1>9, <1>13 DEF SameWork
    <2>2. /\ byRoot[seen[q]] => sudo[q]
          /\ signal[seen[q]] > 0 \/ who[seen[q]] = NoOne
          /\ pidfile[Current(q)] = seen[q] \/ Lost(Current(q))
      BY <2>1 DEF Inv, Custody, Waited
    <2>3. Lost(Current(q)) => Lost(Current(q))'
      BY <1>11, <1>10, <2>1 DEF SameWork, Lost
    <2>4. pidfile'[Current(q)] = seen[q] \/ Lost(Current(q))'
      BY <1>8, <1>10, <2>1, <2>2, <2>3
    <2>5. /\ seen'[q] = seen[q] /\ sudo'[q] = sudo[q] /\ Current(q)' = Current(q)
      BY <2>1 DEF SameWork
    <2>6. QED
      BY <2>2, <2>4, <2>5
  <1>18. Stale'
    <2> SUFFICES ASSUME NEW d \in Component, NEW p \in Pid, pidfile'[d] = p
                 PROVE  \/ blemish'[d] # {}
                        \/ \E q \in Script : WaitedFor(q, p, d)'
                        \/ who[p] = d /\ signal[p] = 0
      BY <1>2 DEF Stale
    <2>1. CASE d = c
      BY <1>1, <1>8, <1>11, <2>1 DEF Inv, Custody, Fresh, c
    <2>2. CASE d # c
      <3>1. ASSUME NEW q \in Script, WaitedFor(q, p, d) PROVE WaitedFor(q, p, d)'
        BY <1>1, <1>9, <3>1 DEF WaitedFor, SameWork
      <3>2. pidfile[d] = p
        BY <1>8, <2>2
      <3>3. QED
        BY <1>11, <3>1, <3>2 DEF Inv, Custody, Stale
    <2>3. QED
      BY <2>1, <2>2
  <1>19. Fresh'
    BY <1>2, <1>9, <1>10, <1>11, <1>13 DEF Inv, Custody, Fresh, SameWork
  <1>20. QED
    BY <1>5, <1>7, <1>14, <1>15, <1>16, <1>17, <1>18, <1>19 DEF Inv, Custody

\* What NotRunning, Stopped and GiveUp have in common.
LEMMA RemovalKeepsInv ==
  ASSUME Inv, NEW o \in Script, pc[o] \in {"down", "wait"}, RemoveFile(o), Proceed(o),
         UNCHANGED <<edition, who, leader, rest, byRoot, under, port, rootLog>>,
         signal' \in [Pid -> 0..2],
         blemish' \in [Component -> SUBSET Cause],
         \A d \in Component : Meeting(o)[d] \subseteq blemish'[d],
         \A q \in Pid : signal[q] <= signal'[q],
         \A q \in Pid : signal'[q] # signal[q] =>
           signal[q] > 0 \/ (Current(o) \in ServiceNames /\ port[Current(o)] = q),
         \A p \in Pid : pidfile[Current(o)] = p /\ who[p] = Current(o) /\ leader[p]
                        /\ signal'[p] < 2 => blemish'[Current(o)] \cap Losses # {}
  PROVE  Inv'
  <1>1. Busy(o) /\ MovedOn(o) /\ ScriptsTyped'
    BY ProceedMovesOn DEF Inv, Busy
  <1>2. Grows
    BY <1>1, MeetingEffect DEF Grows, Inv
  <1>3. OneEach' /\ Turn'
    BY <1>1, <1>2, MovingOn DEF Inv
  <1>4. pidfile' = [pidfile EXCEPT ![Current(o)] = NoPid]
    BY DEF RemoveFile
  <1>5. Typed'
    BY <1>1, <1>3, <1>4 DEF Inv, Typed, GroupsTyped, FilesTyped
  <1>6. Custody'
    BY <1>1, <1>2, <1>4, <1>5, RemovalStep DEF Inv
  <1>7. QED
    BY <1>3, <1>5, <1>6 DEF Inv

LEMMA NotRunningStep ==
  ASSUME Inv, NEW o \in Script, NotRunning(o)
  PROVE  Inv'
  <1> DEFINE c == Current(o)
  <1>1. /\ pc[o] = "down" /\ ~Sees(o, pidfile[c]) /\ RemoveFile(o) /\ Proceed(o)
        /\ blemish' = IF pidfile[c] # NoPid /\ leader[pidfile[c]]
                      THEN [Meeting(o) EXCEPT ![c] = @ \cup {"privilege"}] ELSE Meeting(o)
        /\ Backstop(o, signal)
        /\ UNCHANGED <<edition, who, leader, rest, byRoot, under, port, rootLog>>
    BY DEF NotRunning
  <1>2. c \in Component
    BY <1>1, CurrentIsComponent DEF Inv, Busy
  <1>3. Meeting(o) \in [Component -> SUBSET Cause]
    BY <1>1, MeetingEffect DEF Inv, Busy
  <1>4. /\ blemish' \in [Component -> SUBSET Cause]
        /\ \A d \in Component : Meeting(o)[d] \subseteq blemish'[d]
        /\ pidfile[c] # NoPid /\ leader[pidfile[c]] => "privilege" \in blemish'[c]
    <2> HIDE DEF c
    <2>1. CASE pidfile[c] # NoPid /\ leader[pidfile[c]]
      <3>1. blemish' = [Meeting(o) EXCEPT ![c] = @ \cup {"privilege"}]
        BY <1>1, <2>1
      <3>2. QED
        BY <1>2, <1>3, <3>1 DEF Cause
    <2>2. CASE ~(pidfile[c] # NoPid /\ leader[pidfile[c]])
      BY <1>1, <1>3, <2>2
    <2>3. QED
      BY <2>1, <2>2
  <1>5. /\ signal' \in [Pid -> 0..2]
        /\ \A q \in Pid : signal[q] <= signal'[q]
        /\ \A q \in Pid : signal'[q] # signal[q] =>
             Current(o) \in ServiceNames /\ port[Current(o)] = q
    BY <1>1, BackstopEffect DEF Inv, Typed, GroupsTyped
  <1>6. \A p \in Pid : pidfile[c] = p /\ leader[p] => blemish'[c] \cap Losses # {}
    BY <1>4, PidsAreNumbers DEF Losses
  <1>7. QED
    BY <1>1, <1>4, <1>5, <1>6, RemovalKeepsInv

LEMMA StoppedStep ==
  ASSUME Inv, NEW o \in Script, Stopped(o)
  PROVE  Inv'
  <1> DEFINE c == Current(o)
  <1>1. /\ pc[o] = "wait" /\ ~Sees(o, seen[o]) /\ RemoveFile(o) /\ Proceed(o)
        /\ blemish' = Meeting(o) /\ Backstop(o, signal)
        /\ UNCHANGED <<edition, who, leader, rest, byRoot, under, port, rootLog>>
    BY DEF Stopped
  <1>2. c \in Component /\ seen[o] \in Pid
    BY <1>1, CurrentIsComponent DEF Inv, Busy, Typed, Turn
  <1>3. /\ blemish' \in [Component -> SUBSET Cause]
        /\ \A d \in Component : blemish[d] \subseteq blemish'[d]
    BY <1>1, MeetingEffect DEF Inv, Busy
  <1>4. /\ signal' \in [Pid -> 0..2]
        /\ \A q \in Pid : signal[q] <= signal'[q]
        /\ \A q \in Pid : signal'[q] # signal[q] =>
             Current(o) \in ServiceNames /\ port[Current(o)] = q
    BY <1>1, BackstopEffect DEF Inv, Typed, GroupsTyped
  <1>5. ~leader[seen[o]]
    BY <1>1, <1>2, PidsAreNumbers DEF Inv, Custody, Waited, Sees
  <1>6. \A p \in Pid : pidfile[c] = p /\ leader[p] => blemish'[c] \cap Losses # {}
    BY <1>1, <1>2, <1>3, <1>5 DEF Inv, Custody, Waited, Lost
  <1>7. QED
    BY <1>1, <1>3, <1>4, <1>6, RemovalKeepsInv

LEMMA GiveUpStep ==
  ASSUME Inv, NEW o \in Script, GiveUp(o)
  PROVE  Inv'
  <1> DEFINE c == Current(o)
             s == Signals(o, seen[o], 2)
  <1>1. /\ pc[o] = "wait" /\ Sees(o, seen[o]) /\ RemoveFile(o) /\ Proceed(o)
        /\ blemish' = Meeting(o) /\ Backstop(o, s)
        /\ UNCHANGED <<edition, who, leader, rest, byRoot, under, port, rootLog>>
    BY DEF GiveUp
  <1>2. c \in Component /\ seen[o] \in Pid
    BY <1>1, CurrentIsComponent DEF Inv, Busy, Typed, Turn
  <1>3. /\ blemish' \in [Component -> SUBSET Cause]
        /\ \A d \in Component : blemish[d] \subseteq blemish'[d]
    BY <1>1, MeetingEffect DEF Inv, Busy
  <1>4. leader[seen[o]] /\ (byRoot[seen[o]] => sudo[o]) /\ signal[seen[o]] > 0
    BY <1>1, <1>2 DEF Inv, Custody, Waited, Groups, Sees
  <1>5. /\ s \in [Pid -> 0..2]
        /\ \A q \in Pid \ {seen[o]} : s[q] = signal[q]
        /\ s[seen[o]] >= signal[seen[o]] /\ s[seen[o]] >= 2
    BY <1>2, <1>4, SignalsEffect DEF Inv, Typed
  <1> HIDE DEF s
  <1>6. /\ signal' \in [Pid -> 0..2]
        /\ \A q \in Pid : s[q] <= signal'[q]
        /\ \A q \in Pid : signal'[q] # s[q] =>
             Current(o) \in ServiceNames /\ port[Current(o)] = q
    BY <1>1, <1>5, BackstopEffect DEF Inv, Typed
  <1>7. signal \in [Pid -> 0..2]
    BY DEF Inv, Typed, GroupsTyped
  <1>8. \A q \in Pid : signal[q] <= signal'[q]
    <2> SUFFICES ASSUME NEW q \in Pid PROVE signal[q] <= signal'[q]
      OBVIOUS
    <2>1. signal[q] \in Int /\ s[q] \in Int /\ signal'[q] \in Int
      BY <1>5, <1>6, <1>7
    <2>2. signal[q] <= s[q]
      BY <1>5, <2>1
    <2>3. QED
      BY <1>6, <2>1, <2>2
  <1>9. \A q \in Pid : signal'[q] # signal[q] =>
          signal[q] > 0 \/ (Current(o) \in ServiceNames /\ port[Current(o)] = q)
    <2> SUFFICES ASSUME NEW q \in Pid, signal'[q] # signal[q]
                 PROVE  signal[q] > 0 \/ (Current(o) \in ServiceNames /\ port[Current(o)] = q)
      OBVIOUS
    <2>1. CASE q = seen[o]
      <3>1. signal[q] > 0
        BY <1>4, <2>1
      <3>2. QED
        BY <3>1
    <2>2. CASE q # seen[o]
      <3>1. s[q] = signal[q]
        BY <1>5, <2>2
      <3>2. QED
        BY <1>6, <3>1
    <2>3. QED
      BY <2>1, <2>2
  <1>10. ~(signal'[seen[o]] < 2)
    <2>1. s[seen[o]] >= 2 /\ s[seen[o]] <= signal'[seen[o]]
      BY <1>2, <1>5, <1>6
    <2>2. s[seen[o]] \in Int /\ signal'[seen[o]] \in Int
      BY <1>2, <1>5, <1>6
    <2>3. QED
      BY <2>1, <2>2
  <1>11. \A p \in Pid : pidfile[c] = p /\ leader[p] /\ signal'[p] < 2 =>
           blemish'[c] \cap Losses # {}
    BY <1>1, <1>2, <1>3, <1>10 DEF Inv, Custody, Waited, Lost
  <1>12. QED
    BY <1>1, <1>3, <1>6, <1>8, <1>9, <1>11, RemovalKeepsInv

LEMMA TerminateStep ==
  ASSUME Inv, NEW o \in Script, Terminate(o)
  PROVE  Inv'
  <1> DEFINE c == Current(o)
             t == pidfile[c]
  <1>1. /\ pc[o] = "down" /\ Sees(o, t)
        /\ signal' = Signals(o, t, 1)
        /\ seen' = [seen EXCEPT ![o] = t]
        /\ pc' = [pc EXCEPT ![o] = "wait"]
        /\ blemish' = IF who[t] = c THEN blemish ELSE Blame(who[t], "mistaken")
        /\ UNCHANGED <<edition, who, leader, rest, byRoot, under, port, pidfile, rootLog, verb,
                       todo, sudo, polls>>
    BY DEF Terminate
  <1>2. c \in Component
    BY <1>1, CurrentIsComponent DEF Inv, Busy
  <1>3. t \in Pid /\ leader[t] /\ (byRoot[t] => sudo[o])
    BY <1>1, <1>2 DEF Inv, Typed, FilesTyped, Sees
  <1>4. who[t] \in Component
    BY <1>3 DEF Inv, Typed, GroupsTyped, Custody, Groups
  <1>5. /\ signal' \in [Pid -> 0..2]
        /\ \A q \in Pid \ {t} : signal'[q] = signal[q]
        /\ signal'[t] >= signal[t] /\ signal'[t] >= 1
    BY <1>1, <1>3, SignalsEffect DEF Inv, Typed
  <1>6. /\ blemish' \in [Component -> SUBSET Cause]
        /\ Grows
        /\ who[t] # c => blemish'[who[t]] # {}
    <2> HIDE DEF c, t
    <2>1. CASE who[t] = c
      BY <1>1, <2>1 DEF Inv, Typed, FilesTyped, Grows
    <2>2. CASE who[t] # c
      <3>1. blemish' = Blame(who[t], "mistaken")
        BY <1>1, <2>2
      <3>2. QED
        BY <1>4, <3>1, BlameEffect DEF Inv, Typed, Cause, Grows
    <2>3. QED
      BY <2>1, <2>2
  <1>7. \A q \in Script \ {o} : SameWork(q)
    BY <1>1 DEF SameWork, Current, Inv, Typed, ScriptsTyped
  <1>8. /\ pc'[o] = "wait" /\ seen'[o] = t /\ sudo' = sudo
        /\ \A q \in Script : Current(q)' = Current(q)
        /\ \A q \in Script : Busy(q)' = Busy(q)
    BY <1>1 DEF Current, Busy, Inv, Typed, ScriptsTyped
  <1>9. Typed'
    <2>1. ScriptsTyped'
      BY <1>1, <1>3 DEF Inv, Typed, ScriptsTyped
    <2>2. GroupsTyped' /\ FilesTyped'
      BY <1>1, <1>5, <1>6 DEF Inv, Typed, GroupsTyped, FilesTyped
    <2>3. Turn'
      BY <1>1, <1>3, <1>7, <1>8 DEF Inv, Typed, Turn, SameWork
    <2>4. QED
      BY <2>1, <2>2, <2>3 DEF Typed
  <1>10. \A q \in Script \ {o} : pc[q] \in {"forked", "wait"} =>
           Current(q) \in Component /\ (Current(q) = c => Lost(c) /\ blemish[c] # {})
    BY <1>1, CurrentIsComponent DEF Inv, OneEach, Busy, Lost, Losses
  <1>11. \A d \in Component : /\ Lost(d) => Lost(d)'
                              /\ blemish[d] # {} => blemish'[d] # {}
    BY <1>6 DEF Lost, Grows
  <1>12. \A p \in Pid : leader[p] => who[p] \in Component
    BY DEF Inv, Typed, GroupsTyped, Custody, Groups
  <1>13. \A p \in Pid : signal[p] \in 0..2
    BY DEF Inv, Typed, GroupsTyped
  <1>14. /\ who' = who /\ leader' = leader /\ byRoot' = byRoot /\ port' = port
         /\ rootLog' = rootLog /\ pidfile' = pidfile
    BY <1>1
  <1>15. pc[o] = "down" /\ pidfile[c] = t
    BY <1>1
  <1>16. OneEach'
    <2> SUFFICES ASSUME NEW o1 \in Script, NEW o2 \in Script, o1 # o2,
                        Busy(o1), Busy(o2), Current(o1) = Current(o2)
                 PROVE  "overlap" \in blemish'[Current(o1)]
      BY <1>8 DEF OneEach
    <2>1. Current(o1) \in Component
      BY CurrentIsComponent DEF Inv
    <2>2. QED
      BY <1>6, <2>1 DEF Inv, OneEach, Grows
  <1> HIDE DEF c, t
  <1>17. Groups'
    BY <1>14 DEF Inv, Custody, Groups
  <1>18. Kept'
    <2> SUFFICES ASSUME NEW p \in Pid, leader[p], signal'[p] < 2
                 PROVE  \/ pidfile[who[p]] = p \/ Lost(who[p])'
                        \/ \E q \in Script : RecordedBy(q, p)'
      BY <1>14 DEF Kept, Lost
    <2>1. signal[p] < 2
      BY <1>3, <1>5, <1>13
    <2>2. CASE Lost(who[p])
      BY <1>11, <1>12, <1>14, <2>2 DEF Lost
    <2>3. ASSUME NEW q \in Script, RecordedBy(q, p) PROVE RecordedBy(q, p)'
      BY <1>7, <1>14, <1>15, <2>3 DEF RecordedBy, SameWork
    <2>4. QED
      BY <2>1, <2>2, <2>3 DEF Inv, Custody, Kept
  <1>19. Newest'
    <2> SUFFICES ASSUME NEW q \in Script, pc'[q] = "forked", ~Lost(Current(q))',
                        NEW p \in Pid, leader[p], signal'[p] < 2, who[p] = Current(q)'
                 PROVE  p = seen'[q]
      BY <1>14 DEF Newest, Lost
    <2>1. q # o /\ SameWork(q) /\ pc[q] = "forked" /\ Current(q) \in Component
      BY <1>7, <1>8, <1>10 DEF SameWork
    <2>2. ~Lost(Current(q)) /\ who[p] = Current(q)
      BY <1>11, <2>1 DEF SameWork, Lost
    <2>3. signal[p] < 2
      BY <1>3, <1>5, <1>13
    <2>4. QED
      BY <2>1, <2>2, <2>3 DEF Inv, Custody, Newest, SameWork
  <1>20. Waited'
    <2> SUFFICES ASSUME NEW q \in Script, pc'[q] = "wait"
                 PROVE  /\ byRoot[seen'[q]] => sudo[q]
                        /\ signal'[seen'[q]] > 0 \/ who[seen'[q]] = NoOne
                        /\ pidfile[Current(q)'] = seen'[q] \/ Lost(Current(q))'
      BY <1>8, <1>14 DEF Waited, Lost
    <2>1. CASE q = o
      <3>1. signal'[t] > 0
        BY <1>3, <1>5
      <3>2. pidfile[Current(o)'] = t
        BY <1>8, <1>15 DEF c
      <3>3. QED
        BY <1>3, <1>8, <2>1, <3>1, <3>2
    <2>2. CASE q # o
      <3>1. SameWork(q) /\ pc[q] = "wait" /\ seen[q] \in Pid
        BY <1>7, <2>2 DEF SameWork, Inv, Typed, Turn
      <3>2. /\ byRoot[seen[q]] => sudo[q]
            /\ signal[seen[q]] > 0 \/ who[seen[q]] = NoOne
            /\ pidfile[Current(q)] = seen[q] \/ Lost(Current(q))
        BY <3>1 DEF Inv, Custody, Waited
      <3>3. signal[seen[q]] > 0 => signal'[seen[q]] > 0
        BY <1>3, <1>5, <1>13, <3>1
      <3>4. Lost(Current(q)) => Lost(Current(q))'
        BY <1>8, <1>10, <1>11, <2>2, <3>1 DEF Lost
      <3>5. seen'[q] = seen[q] /\ Current(q)' = Current(q)
        BY <3>1 DEF SameWork
      <3>6. QED
        BY <3>2, <3>3, <3>4, <3>5
    <2>3. QED
      BY <2>1, <2>2
  <1>21. Stale'
    <2> SUFFICES ASSUME NEW d \in Component, NEW p \in Pid, pidfile[d] = p
                 PROVE  \/ blemish'[d] # {}
                        \/ \E q \in Script : WaitedFor(q, p, d)'
                        \/ who[p] = d /\ signal'[p] = 0
      BY <1>14 DEF Stale
    <2>1. ASSUME NEW q \in Script, WaitedFor(q, p, d) PROVE WaitedFor(q, p, d)'
      BY <1>7, <1>15, <2>1 DEF WaitedFor, SameWork
    <2>2. CASE who[p] = d /\ signal[p] = 0
      <3>1. CASE p # t
        BY <1>5, <2>2, <3>1
      <3>2. CASE p = t /\ d # c
        BY <1>6, <2>2, <3>2
      <3>3. CASE p = t /\ d = c
        BY <1>8, <3>3 DEF WaitedFor, c
      <3>4. QED
        BY <3>1, <3>2, <3>3
    <2>3. QED
      BY <1>11, <2>1, <2>2 DEF Inv, Custody, Stale
  <1>22. Fresh'
    <2> SUFFICES ASSUME NEW q \in Script, pc'[q] = "forked", blemish'[Current(q)'] = {}
                 PROVE  who[seen'[q]] = Current(q)' /\ signal'[seen'[q]] = 0
      BY <1>14 DEF Fresh
    <2>1. q # o /\ SameWork(q) /\ pc[q] = "forked" /\ seen[q] \in Pid /\ Current(q) \in Component
      BY <1>7, <1>8, <1>10 DEF SameWork, Inv, Typed, Turn
    <2>2. blemish[Current(q)] = {} /\ blemish'[Current(q)] = {} /\ Current(q) # c
      BY <1>10, <1>11, <2>1 DEF SameWork
    <2>3. who[seen[q]] = Current(q) /\ signal[seen[q]] = 0
      BY <2>1, <2>2 DEF Inv, Custody, Fresh
    <2>4. seen[q] # t
      BY <1>6, <2>2, <2>3
    <2>5. QED
      BY <1>5, <2>1, <2>3, <2>4 DEF SameWork
  <1>23. QED
    BY <1>9, <1>16, <1>17, <1>18, <1>19, <1>20, <1>21, <1>22 DEF Inv, Custody

LEMMA ForkStep ==
  ASSUME Inv, NEW o \in Script, Fork(o)
  PROVE  Inv'
  <1> DEFINE c == Current(o)
  <1>1. PICK f \in Pid :
          /\ Available(f)
          /\ who' = [who EXCEPT ![f] = c]
          /\ leader' = [leader EXCEPT ![f] = TRUE]
          /\ rest' = [rest EXCEPT ![f] = TRUE]
          /\ byRoot' = [byRoot EXCEPT ![f] = sudo[o]]
          /\ under' = [under EXCEPT ![f] = edition]
          /\ signal' = [signal EXCEPT ![f] = 0]
          /\ seen' = [seen EXCEPT ![o] = f]
    BY DEF Fork, ForkUnlooked
  <1>2. /\ pc[o] = "up" /\ ~Sees(o, pidfile[c]) /\ (c \in rootLog => sudo[o])
        /\ rootLog' = IF sudo[o] THEN rootLog \cup {c} ELSE rootLog
        /\ pc' = [pc EXCEPT ![o] = "forked"]
        /\ UNCHANGED <<edition, port, pidfile, verb, todo, sudo, polls, blemish>>
    BY DEF Fork, ForkUnlooked
  <1>3. who[f] = NoOne /\ \A q \in Script : pc[q] = "wait" => seen[q] # f
    BY <1>1 DEF Available, Free
  <1>4. c \in Component /\ c # NoOne
    BY <1>2, CurrentIsComponent, LifecycleAssumption DEF Inv, Busy
  <1>5. sudo[o] \in BOOLEAN
    BY DEF Inv, Typed, ScriptsTyped
  <1>6. /\ who'[f] = c /\ byRoot'[f] = sudo[o] /\ signal'[f] = 0
        /\ \A p \in Pid \ {f} : /\ who'[p] = who[p] /\ leader'[p] = leader[p]
                               /\ byRoot'[p] = byRoot[p] /\ signal'[p] = signal[p]
    BY <1>1 DEF Inv, Typed, GroupsTyped
  <1>7. rootLog \subseteq rootLog' /\ rootLog' \subseteq rootLog \cup {c}
        /\ (sudo[o] => c \in rootLog')
    BY <1>2
  <1>8. GroupsTyped'
    <2>1. who' \in [Pid -> Component \cup {NoOne}] /\ signal' \in [Pid -> 0..2]
      BY <1>1, <1>4 DEF Inv, Typed, GroupsTyped
    <2>2. leader' \in [Pid -> BOOLEAN] /\ rest' \in [Pid -> BOOLEAN]
      BY <1>1 DEF Inv, Typed, GroupsTyped
    <2>3. byRoot' \in [Pid -> BOOLEAN]
      BY <1>1, <1>5 DEF Inv, Typed, GroupsTyped
    <2>4. under' \in [Pid -> DOMAIN Configs \cup {NoEdition}]
      BY <1>1 DEF Inv, Typed, GroupsTyped, FilesTyped
    <2>5. port' \in [ServiceNames -> Pid \cup {NoPid}]
      BY <1>2 DEF Inv, Typed, GroupsTyped
    <2>6. QED
      BY <2>1, <2>2, <2>3, <2>4, <2>5 DEF GroupsTyped
  <1>9. FilesTyped'
    BY <1>2, <1>4, <1>7 DEF Inv, Typed, FilesTyped
  <1>10. ScriptsTyped'
    BY <1>1, <1>2 DEF Inv, Typed, ScriptsTyped
  <1>11. \A q \in Script \ {o} : SameWork(q)
    BY <1>1, <1>2 DEF SameWork, Current, Inv, Typed, ScriptsTyped
  <1>12. /\ pc'[o] = "forked" /\ seen'[o] = f
         /\ \A q \in Script : Current(q)' = Current(q)
         /\ \A q \in Script : Busy(q)' = Busy(q)
    BY <1>1, <1>2 DEF Current, Busy, Inv, Typed, ScriptsTyped
  <1>13. Turn'
    BY <1>2, <1>11, <1>12 DEF Inv, Typed, Turn, SameWork
  <1>14. Typed'
    BY <1>8, <1>9, <1>10, <1>13 DEF Typed
  <1>15. \A q \in Script \ {o} : pc[q] \in {"forked", "wait"} /\ Current(q) = c =>
           Lost(c) /\ blemish[c] # {}
    BY <1>2 DEF Inv, OneEach, Busy, Lost, Losses
  <1>16. /\ port' = port /\ pidfile' = pidfile /\ sudo' = sudo /\ blemish' = blemish
         /\ pc[o] = "up"
    BY <1>2
  <1>17. OneEach'
    BY <1>12, <1>16 DEF Inv, OneEach
  <1>18. \A q \in Pid : leader[q] /\ signal[q] < 2 /\ who[q] = c => Lost(c)
    <2> SUFFICES ASSUME NEW q \in Pid, leader[q], signal[q] < 2, who[q] = c PROVE Lost(c)
      OBVIOUS
    <2>1. CASE pidfile[c] = q
      <3>1. byRoot[q] /\ ~sudo[o]
        BY <1>2, <2>1, PidsAreNumbers DEF Sees
      <3>2. c \in rootLog
        BY <3>1 DEF Inv, Custody, Groups
      <3>3. QED
        BY <1>2, <3>1, <3>2
    <2>2. ASSUME NEW r \in Script, RecordedBy(r, q) PROVE Lost(c)
      BY <1>15, <1>16, <2>2 DEF RecordedBy
    <2>3. QED
      BY <2>1, <2>2 DEF Inv, Custody, Kept
  <1>19. Current(o)' = c /\ Current(o) = c
    BY <1>12
  <1> HIDE DEF c
  <1>20. Groups'
    <2> SUFFICES ASSUME NEW p \in Pid
                 PROVE  /\ who'[p] = NoOne => ~leader'[p]
                        /\ byRoot'[p] => who'[p] \in rootLog'
                        /\ \A d \in ServiceNames : port[d] = p => who'[p] = d
      BY <1>16 DEF Groups
    <2>1. CASE p = f
      <3>1. \A d \in ServiceNames : port[d] # f
        BY <1>3, LifecycleAssumption DEF Inv, Custody, Groups, Component
      <3>2. QED
        BY <1>4, <1>6, <1>7, <2>1, <3>1
    <2>2. CASE p # f
      BY <1>6, <1>7, <2>2 DEF Inv, Custody, Groups
    <2>3. QED
      BY <2>1, <2>2
  <1>21. Kept'
    <2> SUFFICES ASSUME NEW p \in Pid, leader'[p], signal'[p] < 2
                 PROVE  \/ pidfile[who'[p]] = p \/ Lost(who[p])'
                        \/ \E q \in Script : RecordedBy(q, p)'
      BY <1>16 DEF Kept
    <2>1. CASE p = f
      BY <1>6, <1>12, <1>19, <2>1 DEF RecordedBy
    <2>2. CASE p # f
      <3>1. who'[p] = who[p] /\ leader[p] /\ signal[p] < 2
        BY <1>6, <2>2
      <3>2. Lost(who[p]) => Lost(who[p])'
        BY <1>16, <3>1 DEF Lost
      <3>3. ASSUME NEW q \in Script, RecordedBy(q, p) PROVE RecordedBy(q, p)'
        BY <1>11, <1>16, <3>1, <3>3 DEF RecordedBy, SameWork
      <3>4. QED
        BY <3>1, <3>2, <3>3 DEF Inv, Custody, Kept
    <2>3. QED
      BY <2>1, <2>2
  <1>22. Newest'
    <2> SUFFICES ASSUME NEW q \in Script, pc'[q] = "forked", ~Lost(Current(q)),
                        NEW p \in Pid, leader'[p], signal'[p] < 2, who'[p] = Current(q)
                 PROVE  p = seen'[q]
      BY <1>12, <1>16 DEF Newest, Lost
    <2>1. CASE q = o
      <3>1. CASE p # f
        BY <1>6, <1>18, <1>19, <2>1, <3>1
      <3>2. QED
        BY <1>12, <2>1, <3>1
    <2>2. CASE q # o
      <3>1. SameWork(q) /\ pc[q] = "forked" /\ Current(q) # c
        BY <1>11, <1>15, <2>2 DEF SameWork
      <3>2. p # f /\ who[p] = Current(q) /\ leader[p] /\ signal[p] < 2
        BY <1>6, <3>1
      <3>3. QED
        BY <3>1, <3>2 DEF Inv, Custody, Newest, SameWork
    <2>3. QED
      BY <2>1, <2>2
  <1>23. Waited'
    <2> SUFFICES ASSUME NEW q \in Script, pc'[q] = "wait"
                 PROVE  /\ byRoot'[seen'[q]] => sudo[q]
                        /\ signal'[seen'[q]] > 0 \/ who'[seen'[q]] = NoOne
                        /\ pidfile[Current(q)] = seen'[q] \/ Lost(Current(q))
      BY <1>12, <1>16 DEF Waited, Lost
    <2>1. q # o /\ SameWork(q) /\ pc[q] = "wait" /\ seen[q] \in Pid \ {f}
      BY <1>3, <1>11, <1>12 DEF SameWork, Inv, Typed, Turn
    <2>2. QED
      BY <1>6, <2>1 DEF Inv, Custody, Waited, SameWork
  <1>24. Stale'
    <2> SUFFICES ASSUME NEW d \in Component, NEW p \in Pid, pidfile[d] = p, blemish[d] = {},
                        ~(who'[p] = d /\ signal'[p] = 0)
                 PROVE  \E q \in Script : WaitedFor(q, p, d)'
      BY <1>16 DEF Stale
    <2>1. ~(who[p] = d /\ signal[p] = 0)
      <3>1. CASE p = f
        BY <1>3, <3>1, LifecycleAssumption
      <3>2. CASE p # f
        BY <1>6, <3>2
      <3>3. QED
        BY <3>1, <3>2
    <2>2. PICK q \in Script : WaitedFor(q, p, d)
      BY <2>1 DEF Inv, Custody, Stale
    <2>3. WaitedFor(q, p, d)'
      BY <1>11, <1>16, <2>2 DEF WaitedFor, SameWork
    <2>4. QED
      BY <2>3
  <1>25. Fresh'
    <2> SUFFICES ASSUME NEW q \in Script, pc'[q] = "forked", blemish[Current(q)] = {}
                 PROVE  who'[seen'[q]] = Current(q) /\ signal'[seen'[q]] = 0
      BY <1>12, <1>16 DEF Fresh
    <2>1. CASE q = o
      BY <1>6, <1>12, <1>19, <2>1
    <2>2. CASE q # o
      <3>1. SameWork(q) /\ pc[q] = "forked" /\ seen[q] \in Pid
        BY <1>11, <2>2 DEF SameWork, Inv, Typed, Turn
      <3>2. who[seen[q]] = Current(q) /\ signal[seen[q]] = 0
        BY <3>1 DEF Inv, Custody, Fresh
      <3>3. Current(q) \in Component
        BY <3>1, CurrentIsComponent DEF Inv, Busy
      <3>4. seen[q] # f
        BY <1>3, <3>2, <3>3, LifecycleAssumption
      <3>5. QED
        BY <1>6, <3>1, <3>2, <3>4 DEF SameWork
    <2>3. QED
      BY <2>1, <2>2
  <1>26. QED
    BY <1>14, <1>17, <1>20, <1>21, <1>22, <1>23, <1>24, <1>25 DEF Inv, Custody

-------------------------------------------------------------------------------
(* The steps of processes and of the operator *)

\* Parts of group p exit; when they were not told to, the component is blamed.
LEMMA ShrinkStep ==
  ASSUME Inv, NEW p \in Pid, NEW ls \in BOOLEAN, NEW rs \in BOOLEAN, Shrink(p, ls, rs),
         ls => leader[p],
         UNCHANGED <<edition, pidfile, rootLog, scriptVars>>,
         blemish' \in [Component -> SUBSET Cause], Grows,
         signal[p] = 0 /\ who[p] \in Component => blemish'[who[p]] # {}
  PROVE  Inv'
  <1>1. /\ GroupsTyped'
        /\ \A q \in Pid \ {p} :
             /\ who'[q] = who[q] /\ leader'[q] = leader[q] /\ rest'[q] = rest[q]
             /\ byRoot'[q] = byRoot[q] /\ signal'[q] = signal[q]
        /\ leader'[p] = ls
        /\ ls \/ rs => who'[p] = who[p] /\ byRoot'[p] = byRoot[p] /\ signal'[p] = signal[p]
        /\ ~ls /\ ~rs => who'[p] = NoOne /\ byRoot'[p] = FALSE /\ signal'[p] = 0
        /\ \A c \in ServiceNames : port'[c] # port[c] => port'[c] = NoPid
        /\ \A c \in ServiceNames : port'[c] = p => rs
    <2>1. GroupsTyped
      BY DEF Inv, Typed
    <2>2. GroupsTyped' /\ Shrunk(p, ls, rs)
      BY <2>1, ShrinkEffect, Zenon
    <2>3. QED
      BY <2>2 DEF Shrunk
  <1>2. /\ pc' = pc /\ todo' = todo /\ seen' = seen /\ sudo' = sudo /\ verb' = verb
        /\ polls' = polls /\ pidfile' = pidfile /\ rootLog' = rootLog /\ edition' = edition
    BY DEF scriptVars
  <1>3. Typed'
    BY <1>1, <1>2 DEF Inv, Typed, ScriptsTyped, FilesTyped, Turn, Busy
  <1>4. \A d \in Component : /\ Lost(d) => Lost(d)'
                             /\ blemish[d] # {} => blemish'[d] # {}
    BY DEF Lost, Grows
  <1>5. \A q \in Script : Current(q)' = Current(q) /\ Busy(q)' = Busy(q)
    BY <1>2 DEF Current, Busy
  <1>6. \A q \in Script : Busy(q) => Current(q) \in Component
    BY CurrentIsComponent DEF Inv
  <1>7. OneEach'
    BY <1>5, <1>6 DEF Inv, OneEach, Grows
  <1>8. \A q \in Pid : leader'[q] => /\ leader[q] /\ who'[q] = who[q] /\ signal'[q] = signal[q]
                                   /\ who[q] \in Component
    BY <1>1 DEF Inv, Typed, GroupsTyped, Custody, Groups
  <1>9. Groups'
    <2> SUFFICES ASSUME NEW q \in Pid
                 PROVE  /\ who'[q] = NoOne => ~leader'[q]
                        /\ byRoot'[q] => who'[q] \in rootLog
                        /\ \A c \in ServiceNames : port'[c] = q => who'[q] = c
      BY <1>2 DEF Groups
    <2>1. /\ who[q] = NoOne => ~leader[q]
          /\ byRoot[q] => who[q] \in rootLog
          /\ \A c \in ServiceNames : port[c] = q => who[q] = c
      BY DEF Inv, Custody, Groups
    <2>2. \A c \in ServiceNames : port'[c] = q => port[c] = q
      BY <1>1, PidsAreNumbers
    <2>3. CASE q # p
      BY <1>1, <2>1, <2>2, <2>3
    <2>4. CASE q = p /\ (ls \/ rs)
      BY <1>1, <2>1, <2>2, <2>4
    <2>5. CASE q = p /\ ~ls /\ ~rs
      BY <1>1, <2>5
    <2>6. QED
      BY <2>3, <2>4, <2>5
  <1>10. Kept'
    <2> SUFFICES ASSUME NEW q \in Pid, leader'[q], signal'[q] < 2
                 PROVE  \/ pidfile[who'[q]] = q \/ Lost(who[q])'
                        \/ \E r \in Script : RecordedBy(r, q)'
      BY <1>2 DEF Kept
    <2>1. leader[q] /\ who'[q] = who[q] /\ signal[q] < 2 /\ who[q] \in Component
      BY <1>8
    <2>2. Lost(who[q]) => Lost(who[q])'
      BY <1>4, <2>1 DEF Lost
    <2>3. ASSUME NEW r \in Script, RecordedBy(r, q) PROVE RecordedBy(r, q)'
      BY <1>2, <1>5, <2>1, <2>3 DEF RecordedBy
    <2>4. QED
      BY <2>1, <2>2, <2>3 DEF Inv, Custody, Kept
  <1>11. Newest'
    <2> SUFFICES ASSUME NEW r \in Script, pc[r] = "forked", ~Lost(Current(r))',
                        NEW q \in Pid, leader'[q], signal'[q] < 2, who'[q] = Current(r)
                 PROVE  q = seen[r]
      BY <1>2, <1>5 DEF Newest
    <2>1. ~Lost(Current(r))
      BY <1>4, <1>5, <1>6 DEF Lost, Busy
    <2>2. QED
      BY <1>8, <2>1 DEF Inv, Custody, Newest
  <1>12. Waited'
    <2> SUFFICES ASSUME NEW r \in Script, pc[r] = "wait"
                 PROVE  /\ byRoot'[seen[r]] => sudo[r]
                        /\ signal'[seen[r]] > 0 \/ who'[seen[r]] = NoOne
                        /\ pidfile[Current(r)] = seen[r] \/ Lost(Current(r))'
      BY <1>2, <1>5 DEF Waited
    <2>1. /\ byRoot[seen[r]] => sudo[r]
          /\ signal[seen[r]] > 0 \/ who[seen[r]] = NoOne
          /\ pidfile[Current(r)] = seen[r] \/ Lost(Current(r))
      BY DEF Inv, Custody, Waited
    <2>2. Lost(Current(r)) => Lost(Current(r))'
      BY <1>4, <1>5, <1>6 DEF Lost, Busy
    <2>3. seen[r] \in Pid
      BY DEF Inv, Typed, Turn
    <2>4. (byRoot'[seen[r]] => sudo[r]) /\ (signal'[seen[r]] > 0 \/ who'[seen[r]] = NoOne)
      BY <1>1, <2>1, <2>3
    <2>5. QED
      BY <2>1, <2>2, <2>4
  <1>13. \A q \in Pid, d \in Component :
           who[q] = d /\ signal[q] = 0 /\ blemish'[d] = {} => who'[q] = d /\ signal'[q] = 0
    BY <1>1
  <1>14. Stale'
    <2> SUFFICES ASSUME NEW d \in Component, NEW q \in Pid, pidfile[d] = q, blemish'[d] = {},
                        ~(who'[q] = d /\ signal'[q] = 0)
                 PROVE  \E r \in Script : WaitedFor(r, q, d)'
      BY <1>2 DEF Stale
    <2>1. ~(who[q] = d /\ signal[q] = 0) /\ blemish[d] = {}
      BY <1>4, <1>13
    <2>2. PICK r \in Script : WaitedFor(r, q, d)
      BY <2>1 DEF Inv, Custody, Stale
    <2>3. WaitedFor(r, q, d)'
      BY <1>2, <1>5, <2>2 DEF WaitedFor
    <2>4. QED
      BY <2>3
  <1>15. Fresh'
    <2> SUFFICES ASSUME NEW r \in Script, pc[r] = "forked", blemish'[Current(r)] = {}
                 PROVE  who'[seen[r]] = Current(r) /\ signal'[seen[r]] = 0
      BY <1>2, <1>5 DEF Fresh
    <2>1. seen[r] \in Pid /\ Current(r) \in Component
      BY <1>6 DEF Inv, Typed, Turn, Busy
    <2>2. who[seen[r]] = Current(r) /\ signal[seen[r]] = 0
      BY <1>4, <2>1 DEF Inv, Custody, Fresh
    <2>3. QED
      BY <1>13, <2>1, <2>2
  <1>16. QED
    BY <1>3, <1>7, <1>9, <1>10, <1>11, <1>12, <1>14, <1>15 DEF Inv, Custody

\* A process that exits without a signal leaves a blemish.
LEMMA CrashBlame ==
  ASSUME FilesTyped, GroupsTyped, NEW p \in Pid
  PROVE  /\ Blame(who[p], "crashed") \in [Component -> SUBSET Cause]
         /\ \A d \in Component : blemish[d] \subseteq Blame(who[p], "crashed")[d]
         /\ who[p] \in Component => Blame(who[p], "crashed")[who[p]] # {}
  <1>1. CASE who[p] \in Component
    BY <1>1, BlameEffect DEF Cause
  <1>2. CASE who[p] \notin Component
    <2>1. Blame(who[p], "crashed") = blemish
      BY <1>2 DEF FilesTyped, Blame
    <2>2. QED
      BY <1>2, <2>1 DEF FilesTyped
  <1>3. QED
    BY <1>1, <1>2

LEMMA UnpromptedEffect ==
  ASSUME Inv, NEW p \in Pid, Unprompted(p)
  PROVE  /\ blemish' \in [Component -> SUBSET Cause] /\ Grows
         /\ signal[p] = 0 /\ who[p] \in Component => blemish'[who[p]] # {}
  <1>1. CASE signal[p] > 0
    BY <1>1 DEF Unprompted, Inv, Typed, FilesTyped, Grows
  <1>2. CASE ~(signal[p] > 0)
    <2>1. blemish' = Blame(who[p], "crashed")
      BY <1>2 DEF Unprompted
    <2>2. QED
      BY <2>1, CrashBlame DEF Inv, Typed, Grows
  <1>3. QED
    BY <1>1, <1>2

LEMMA ExitStep ==
  ASSUME Inv, NEW p \in Pid, LeaderExits(p) \/ RestExits(p) \/ PortTaken(p)
  PROVE  Inv'
  <1>1. leader[p] \in BOOLEAN
    BY DEF Inv, Typed, GroupsTyped
  <1>2. CASE LeaderExits(p)
    <2>1. /\ Unprompted(p) /\ UNCHANGED <<edition, pidfile, rootLog, scriptVars>>
          /\ \E rs \in BOOLEAN : Shrink(p, FALSE, rs)
      BY <1>2, Zenon DEF LeaderExits
    <2>2. PICK rs \in BOOLEAN : Shrink(p, FALSE, rs)
      BY <2>1, Zenon
    <2>3. QED
      BY <2>1, <2>2, UnpromptedEffect, ShrinkStep, Zenon
  <1>3. CASE RestExits(p)
    <2>1. /\ Unprompted(p) /\ UNCHANGED <<edition, pidfile, rootLog, scriptVars>>
          /\ Shrink(p, leader[p], FALSE)
      BY <1>3, Zenon DEF RestExits
    <2>2. QED
      BY <1>1, <2>1, UnpromptedEffect, ShrinkStep, Zenon
  <1>4. CASE PortTaken(p)
    <2>1. /\ blemish' = Blame(who[p], "crashed")
          /\ UNCHANGED <<edition, pidfile, rootLog, scriptVars>>
          /\ Shrink(p, FALSE, FALSE)
      BY <1>4, Zenon DEF PortTaken
    <2>2. /\ blemish' \in [Component -> SUBSET Cause] /\ Grows
          /\ who[p] \in Component => blemish'[who[p]] # {}
      BY <2>1, CrashBlame DEF Inv, Typed, Grows
    <2>3. QED
      BY <2>1, <2>2, ShrinkStep, Zenon
  <1>5. QED
    BY <1>2, <1>3, <1>4

LEMMA ListenStep ==
  ASSUME Inv, NEW p \in Pid, Listen(p)
  PROVE  Inv'
  <1>1. /\ who[p] \in ServiceNames /\ port' = [port EXCEPT ![who[p]] = p]
        /\ UNCHANGED <<edition, who, leader, rest, byRoot, under, signal, pidfile, rootLog,
                       scriptVars, blemish>>
    BY DEF Listen
  <1>2. Typed'
    BY <1>1 DEF Inv, Typed, ScriptsTyped, GroupsTyped, FilesTyped, Turn, Busy, scriptVars
  <1>3. \A q \in Script : Current(q)' = Current(q) /\ Busy(q)' = Busy(q)
    BY <1>1 DEF Current, Busy, scriptVars
  <1>4. OneEach'
    BY <1>1, <1>3 DEF Inv, OneEach
  <1>5. Groups'
    BY <1>1 DEF Inv, Typed, GroupsTyped, Custody, Groups
  <1>6. Kept' /\ Newest' /\ Waited'
    BY <1>1, <1>3 DEF Inv, Custody, Kept, Newest, Waited, RecordedBy, Lost, scriptVars
  <1>7. Stale' /\ Fresh'
    BY <1>1, <1>3 DEF Inv, Custody, Stale, Fresh, WaitedFor, scriptVars
  <1>8. QED
    BY <1>2, <1>4, <1>5, <1>6, <1>7 DEF Inv, Custody

\* No variable the invariant is about changes.
LEMMA IdleStep ==
  ASSUME Inv, edition' \in DOMAIN Configs,
         UNCHANGED <<procVars, pidfile, rootLog, scriptVars, blemish>>
  PROVE  Inv'
  <1>1. Typed'
    BY DEF Inv, Typed, ScriptsTyped, GroupsTyped, FilesTyped, Turn, Busy, scriptVars, procVars
  <1>2. Grows /\ \A q \in Script : SameWork(q)
    BY DEF Grows, SameWork, Current, scriptVars
  <1>3. OneEach'
    BY DEF Inv, OneEach, Busy, Current, scriptVars
  <1>4. Custody'
    BY <1>1, <1>2, QuietStep DEF Inv
  <1>5. QED
    BY <1>1, <1>3, <1>4 DEF Inv

\* Inv is inductive.
LEMMA NextKeepsInv == Inv /\ [Next]_vars => Inv'
  <1> SUFFICES ASSUME Inv, [Next]_vars PROVE Inv'
    OBVIOUS
  <1>1. ASSUME NEW o \in Script, BeginUpAll(o) \/ BeginUp(o) \/ BeginDown(o) PROVE Inv'
    BY <1>1, BeginStep
  <1>2. ASSUME NEW o \in Script, Step(o) PROVE Inv'
    BY <1>2, RefuseStep, AlreadyRunningStep, ForkStep, RecordStep, NotRunningStep,
       TerminateStep, PollStep, StoppedStep, GiveUpStep DEF Step
  <1>3. ASSUME NEW o \in Script, Interrupt(o) PROVE Inv'
    BY <1>3, InterruptStep
  <1>4. ASSUME NEW p \in Pid, LeaderExits(p) \/ RestExits(p) \/ PortTaken(p) PROVE Inv'
    BY <1>4, ExitStep
  <1>5. ASSUME NEW p \in Pid, Listen(p) PROVE Inv'
    BY <1>5, ListenStep
  <1>6. CASE Edit
    BY <1>6, IdleStep DEF Edit
  <1>7. CASE UNCHANGED vars
    BY <1>7, IdleStep DEF vars, Inv, Typed, FilesTyped
  <1>8. QED
    BY <1>1, <1>2, <1>3, <1>4, <1>5, <1>6, <1>7 DEF Next

LEMMA InvInvariant == Spec => []Inv
  BY InitInv, NextKeepsInv, PTL DEF Spec

-------------------------------------------------------------------------------
(* What follows *)

\* Every variable of Lifecycle keeps its type: kill_pgid polls at most MaxPolls times,
\* pidfiles only ever hold numbers of groups, and invocations only handle components.
THEOREM LifecycleTypeCorrect == Spec => []TypeOK
  <1>1. Inv => TypeOK
    BY TypesFromParts DEF Inv, Typed
  <1>2. QED
    BY <1>1, InvInvariant, PTL

\* spawn and kill_pgid lose no running component, and start no second one beside it,
\* unless they were interrupted over it, overlapped, or lacked root's rights.
THEOREM ProcessesAreTracked == Spec => []Tracked
  <1>1. Inv => Tracked
    BY DEF Inv, Custody, Kept, Tracked, Recording, RecordedBy, Lost, Losses
  <1>2. QED
    BY <1>1, InvInvariant, PTL

\* An invocation leaves the progress of the others and the configuration alone.
LEMMA OwnStepsOnly ==
  ASSUME Inv, NEW q \in Script,
         BeginUpAll(q) \/ BeginUp(q) \/ BeginDown(q) \/ Step(q) \/ Interrupt(q)
  PROVE  /\ \A o \in Script \ {q} : pc'[o] = pc[o] /\ todo'[o] = todo[o] /\ verb'[o] = verb[o]
         /\ edition' = edition
  <1> DEFINE Own == /\ \A o \in Script \ {q} :
                         pc'[o] = pc[o] /\ todo'[o] = todo[o] /\ verb'[o] = verb[o]
                    /\ edition' = edition
  <1>1. /\ pc \in [Script -> {"idle", "up", "forked", "down", "wait"}]
        /\ todo \in [Script -> Seq(Component)] /\ verb \in [Script -> {"all", "up", "down"}]
    BY DEF Inv, Typed, ScriptsTyped
  <1>2. ASSUME NEW v, NEW targets, NEW root, Begin(q, v, targets, root)
        PROVE  Own
    BY <1>1, <1>2 DEF Begin
  <1>3. edition' = edition /\ (Proceed(q) \/ Stop(q)) => Own
    BY <1>1 DEF Proceed, Stop
  <1> SUFFICES Own
    BY DEF Own
  <1> HIDE DEF Own
  <1>4. CASE BeginUpAll(q) \/ BeginUp(q) \/ BeginDown(q)
    BY <1>2, <1>4, Zenon DEF BeginUpAll, BeginUp, BeginDown
  <1>5. CASE Refuse(q) \/ AlreadyRunning(q) \/ Record(q) \/ NotRunning(q) \/ Stopped(q)
             \/ GiveUp(q) \/ Interrupt(q)
    BY <1>3, <1>5 DEF Refuse, AlreadyRunning, Record, NotRunning, Stopped, GiveUp, Interrupt
  <1>6. CASE Fork(q) \/ Terminate(q) \/ Poll(q)
    BY <1>1, <1>6 DEF Fork, ForkUnlooked, Terminate, Poll, Own
  <1>7. QED
    BY <1>4, <1>5, <1>6 DEF Step

\* The step that signals group p does so for p's own component, or after a blemish.
LEMMA SignalsOwn ==
  ASSUME Inv, [Next]_vars, NEW o \in Script, NEW p \in Pid,
         pc[o] \in {"down", "wait"}, pc'[o] # pc[o], seen'[o] = p
  PROVE  who[p] = Current(o) \/ blemish[Current(o)] # {}
  <1>1. PICK q \in Script :
          BeginUpAll(q) \/ BeginUp(q) \/ BeginDown(q) \/ Step(q) \/ Interrupt(q)
    <2>1. ~(UNCHANGED vars \/ Edit)
      BY DEF vars, Edit, scriptVars
    <2>2. ASSUME NEW r \in Pid, LeaderExits(r) \/ RestExits(r) \/ Listen(r) \/ PortTaken(r)
          PROVE  FALSE
      BY <2>2 DEF LeaderExits, RestExits, Listen, PortTaken, scriptVars
    <2>3. QED
      BY <2>1, <2>2, Zenon DEF Next
  <1>2. q = o
    BY <1>1, OwnStepsOnly, Zenon
  <1>3. p # NoPid
    BY PidsAreNumbers
  <1>4. ~(Proceed(o) \/ Stop(o))
    BY <1>3 DEF Proceed, Stop, Inv, Typed, ScriptsTyped
  <1>5. ASSUME NEW v, NEW targets, NEW root, Begin(o, v, targets, root) PROVE FALSE
    BY <1>5 DEF Begin
  <1>6. ~(BeginUpAll(o) \/ BeginUp(o) \/ BeginDown(o))
    BY <1>5, Zenon DEF BeginUpAll, BeginUp, BeginDown
  <1>7. ~(Interrupt(o) \/ Refuse(o) \/ AlreadyRunning(o) \/ Record(o) \/ NotRunning(o)
          \/ Stopped(o) \/ GiveUp(o))
    BY <1>4, Zenon DEF Interrupt, Refuse, AlreadyRunning, Record, NotRunning, Stopped, GiveUp
  <1>8. ~(Fork(o) \/ Poll(o))
    BY DEF Fork, Poll
  <1>9. Terminate(o)
    BY <1>1, <1>2, <1>6, <1>7, <1>8 DEF Step
  <1>10. pc[o] = "down" /\ pidfile[Current(o)] = p /\ Current(o) \in Component
    BY <1>9, CurrentIsComponent DEF Terminate, Inv, Typed, ScriptsTyped, Busy
  <1>11. ASSUME NEW r \in Script, WaitedFor(r, p, Current(o)) PROVE blemish[Current(o)] # {}
    BY <1>10, <1>11 DEF WaitedFor, Inv, OneEach, Busy
  <1>12. QED
    BY <1>10, <1>11 DEF Inv, Custody, Stale

\* kill_pgid signals the group of another component only when its own one ended behind
\* the script's back.
THEOREM OthersAreSpared == Spec => SparesOthers
  <1>1. Inv /\ [Next]_vars =>
          [\A o \in Script, p \in Pid :
             pc[o] \in {"down", "wait"} /\ pc'[o] # pc[o] /\ seen'[o] = p =>
               who[p] = Current(o) \/ blemish[Current(o)] # {}]_vars
    BY SignalsOwn
  <1>2. QED
    BY <1>1, InvInvariant, PTL DEF Spec, SparesOthers

-------------------------------------------------------------------------------
(* up all *)

\* What up_all goes through, and which workers spawn_worker accepts.
Whole == WorkersInOrder \o Services
Accepted(i) == ~Refused(config, WorkersNow[i].role, WorkersNow[i].worker)

\* n components of Whole are done with, and todo is the rest of them.
AfterFirst(o, n) ==
  /\ n \in 0..Len(Whole) /\ Len(todo[o]) = Len(Whole) - n
  /\ \A i \in 1..Len(todo[o]) : todo[o][i] = Whole[n + i]
\* The workers o has done with, and the one it has just forked, were accepted.
Cleared(o, n) ==
  \A i \in 1..Len(WorkersNow) : i <= n \/ (pc[o] = "forked" /\ i = n + 1) => Accepted(i)

\* The strengthening of StagesInOrder: how far each `up all` has come.
Staged ==
  \A o \in Script : Busy(o) /\ verb[o] = "all" =>
    pc[o] \in {"up", "forked"} /\ \E n \in Nat : AfterFirst(o, n) /\ Cleared(o, n)

LEMMA WholeIsSequence ==
  ASSUME edition \in DOMAIN Configs
  PROVE  /\ Len(WorkersNow) \in Nat /\ DOMAIN WorkersNow = 1..Len(WorkersNow)
         /\ Whole \in Seq(Component) /\ Len(Whole) \in Nat /\ Len(Whole) >= Len(WorkersNow)
         /\ \A i \in 1..Len(WorkersNow) : Whole[i] = WorkersNow[i].worker.name /\ Whole[i] \in Workers
  <1>1. Len(WorkersNow) \in Nat /\ DOMAIN WorkersNow = 1..Len(WorkersNow)
    BY WorkersNowIsSequence
  <1>2. WorkersInOrder \in Seq(Workers) /\ Len(WorkersInOrder) = Len(WorkersNow)
        /\ \A i \in 1..Len(WorkersNow) : WorkersInOrder[i] = WorkersNow[i].worker.name
    BY <1>1, WorkersInOrderIsSequence DEF WorkersInOrder
  <1>3. WorkersInOrder \in Seq(Component) /\ Services \in Seq(Component) /\ Len(Services) \in Nat
    BY <1>2, ServicesAreSequence, SeqMonotonic DEF Component
  <1>4. /\ Whole \in Seq(Component) /\ Len(Whole) = Len(WorkersNow) + Len(Services)
        /\ \A i \in 1..Len(WorkersNow) : Whole[i] = WorkersInOrder[i]
    <2> DEFINE n == Len(WorkersNow)
    <2>1. /\ Whole \in Seq(Component)
          /\ Len(Whole) = Len(WorkersInOrder) + Len(Services)
          /\ \A i \in 1..(Len(WorkersInOrder) + Len(Services)) :
               Whole[i] = IF i <= Len(WorkersInOrder) THEN WorkersInOrder[i]
                          ELSE Services[i - Len(WorkersInOrder)]
      BY <1>3, ConcatProperties DEF Whole
    <2>2. Len(WorkersInOrder) = n /\ n \in Nat
      BY <1>1, <1>2
    <2> HIDE DEF n
    <2>3. \A i \in 1..n : i \in 1..(n + Len(Services)) /\ i <= n
      BY <1>3, <2>2
    <2>4. \A i \in 1..n : Whole[i] = WorkersInOrder[i]
      BY <2>1, <2>2, <2>3
    <2>5. QED
      BY <2>1, <2>2, <2>4 DEF n
  <1>5. \A i \in 1..Len(WorkersNow) : WorkersInOrder[i] \in Workers
    BY <1>1, <1>2, ElementOfSeq
  <1>6. QED
    BY <1>1, <1>2, <1>3, <1>4, <1>5

\* A component that is not invalid is a worker that is not refused, or no worker.
LEMMA ValidIsAccepted ==
  ASSUME edition \in DOMAIN Configs, NEW i \in 1..Len(WorkersNow),
         ~Invalid(WorkersNow[i].worker.name)
  PROVE  Accepted(i)
  <1> DEFINE c == WorkersNow[i].worker.name
             ranks == {j \in DOMAIN WorkersNow : WorkersNow[j].worker.name = c}
  <1>1. DOMAIN WorkersNow = 1..Len(WorkersNow) /\ WorkersNow = Ranked(Configs[edition])
        /\ Len(WorkersNow) \in Nat
    BY WorkersNowIsSequence
  <1>2. ranks = {i}
    BY <1>1, LifecycleAssumption
  <1>3. RankOf(c) = (CHOOSE j \in {i} : TRUE) - 1
    BY <1>2 DEF RankOf
  <1>4. RankOf(c) + 1 = i /\ i > 0
    BY <1>1, <1>3
  <1>5. QED
    BY <1>4 DEF Invalid, Accepted

\* The next component up all comes to is the next one of Whole.
LEMMA StagedCurrent ==
  ASSUME Inv, NEW o \in Script, Busy(o), NEW n \in Nat, AfterFirst(o, n)
  PROVE  /\ n + 1 \in 1..Len(Whole) /\ Current(o) = Whole[n + 1]
         /\ Len(Tail(todo[o])) = Len(Whole) - (n + 1)
         /\ \A i \in 1..Len(Tail(todo[o])) : Tail(todo[o])[i] = Whole[n + 1 + i]
  <1>1. /\ todo[o] \in Seq(Component) /\ todo[o] # <<>> /\ Len(todo[o]) \in Nat \ {0}
    BY CurrentIsComponent DEF Inv, Typed, ScriptsTyped, Turn
  <1>2. Len(Whole) \in Nat
    BY WholeIsSequence DEF Inv, Typed, FilesTyped
  <1>3. /\ n \in 0..Len(Whole) /\ Len(todo[o]) = Len(Whole) - n
        /\ \A i \in 1..Len(todo[o]) : todo[o][i] = Whole[n + i]
    BY DEF AfterFirst
  <1>4. /\ Len(Tail(todo[o])) = Len(todo[o]) - 1
        /\ \A i \in 1..Len(Tail(todo[o])) : Tail(todo[o])[i] = todo[o][i + 1]
    BY <1>1, HeadTailProperties
  <1>5. n + 1 \in 1..Len(Whole)
    BY <1>1, <1>2, <1>3
  <1>6. Current(o) = Whole[n + 1]
    <2>1. Current(o) = todo[o][1]
      BY <1>1 DEF Current
    <2>2. 1 \in 1..Len(todo[o])
      BY <1>1
    <2>3. QED
      BY <1>3, <2>1, <2>2
  <1>7. Len(Tail(todo[o])) = Len(Whole) - (n + 1)
    BY <1>2, <1>3, <1>4
  <1>8. ASSUME NEW i \in 1..Len(Tail(todo[o])) PROVE Tail(todo[o])[i] = Whole[n + 1 + i]
    <2>1. i + 1 \in 1..Len(todo[o]) /\ i \in Int
      BY <1>1, <1>4, <1>8
    <2>2. todo[o][i + 1] = Whole[n + (i + 1)]
      BY <1>3, <2>1
    <2>3. n + (i + 1) = n + 1 + i
      BY <2>1
    <2>4. QED
      BY <1>4, <2>2, <2>3
  <1>9. QED
    BY <1>5, <1>6, <1>7, <1>8

\* Another invocation moves, or none does.
LEMMA StagedStays ==
  ASSUME Staged, edition' = edition, NEW o \in Script, Busy(o), verb[o] = "all",
         pc'[o] = pc[o], todo'[o] = todo[o]
  PROVE  pc'[o] \in {"up", "forked"} /\ \E n \in Nat : AfterFirst(o, n)' /\ Cleared(o, n)'
  <1>1. PICK n \in Nat : AfterFirst(o, n) /\ Cleared(o, n)
    BY DEF Staged
  <1>2. WorkersNow' = WorkersNow /\ config' = config
    BY DEF WorkersNow, config, RankTable, Contents
  <1>3. WorkersInOrder' = WorkersInOrder
    BY <1>2 DEF WorkersInOrder
  <1>4. AfterFirst(o, n)'
    BY <1>1, <1>3 DEF AfterFirst, Whole
  <1>5. Cleared(o, n)'
    BY <1>1, <1>2 DEF Cleared, Accepted, Refused
  <1>6. QED
    BY <1>4, <1>5 DEF Staged

\* An `up all` that moves on has had its component accepted.
LEMMA StagedAdvances ==
  ASSUME Inv, Staged, NEW o \in Script, AlreadyRunning(o) \/ Record(o) \/ Fork(o),
         verb[o] = "all", Busy(o)'
  PROVE  pc'[o] \in {"up", "forked"} /\ \E n \in Nat : AfterFirst(o, n)' /\ Cleared(o, n)'
  <1>1. pc[o] \in {"up", "forked"} /\ Busy(o) /\ edition' = edition
    BY DEF AlreadyRunning, Record, Fork, ForkUnlooked, Busy
  <1>2. PICK n \in Nat : AfterFirst(o, n) /\ Cleared(o, n)
    BY <1>1 DEF Staged
  <1>3. /\ n + 1 \in 1..Len(Whole) /\ Current(o) = Whole[n + 1]
        /\ Len(Tail(todo[o])) = Len(Whole) - (n + 1)
        /\ \A i \in 1..Len(Tail(todo[o])) : Tail(todo[o])[i] = Whole[n + 1 + i]
    BY <1>1, <1>2, StagedCurrent
  <1>4. edition \in DOMAIN Configs
    BY DEF Inv, Typed, FilesTyped
  <1>5. WorkersNow' = WorkersNow /\ config' = config /\ Whole' = Whole
    BY <1>1 DEF WorkersNow, config, RankTable, Contents, Whole, WorkersInOrder
  <1>6. Len(Whole) \in Nat /\ Len(WorkersNow) \in Nat
    BY <1>4, WholeIsSequence
  <1>7. \A i \in 1..Len(WorkersNow) : i = n + 1 /\ ~Invalid(Current(o)) => Accepted(i)
    BY <1>3, <1>4, WholeIsSequence, ValidIsAccepted
  <1>8. pc \in [Script -> {"idle", "up", "forked", "down", "wait"}]
    BY DEF Inv, Typed, ScriptsTyped
  <1>9. CASE AlreadyRunning(o) \/ Record(o)
    <2>1. Proceed(o)
      BY <1>9 DEF AlreadyRunning, Record
    <2>2. pc'[o] = "up" /\ todo'[o] = Tail(todo[o])
      <3>1. MovedOn(o) /\ pc'[o] \in {"up", "idle"}
        BY <1>1, <1>8, <2>1, ProceedMovesOn DEF Inv, Proceed, Phase
      <3>2. QED
        BY <3>1 DEF MovedOn, Busy
    <2>3. AfterFirst(o, n + 1)'
      <3>1. n + 1 \in 0..Len(Whole')
        BY <1>3, <1>5, <1>6
      <3>2. Len(todo'[o]) = Len(Whole') - (n + 1)
        BY <1>3, <1>5, <2>2
      <3>3. \A i \in 1..Len(todo'[o]) : todo'[o][i] = Whole'[n + 1 + i]
        BY <1>3, <1>5, <2>2
      <3>4. QED
        BY <3>1, <3>2, <3>3 DEF AfterFirst
    <2>4. \A i \in 1..Len(WorkersNow) : i <= n + 1 => Accepted(i)
      <3>1. ASSUME NEW i \in 1..Len(WorkersNow), i = n + 1 PROVE Accepted(i)
        <4>1. CASE pc[o] = "forked"
          BY <1>2, <3>1, <4>1 DEF Cleared
        <4>2. CASE pc[o] = "up"
          BY <1>7, <1>9, <3>1, <4>2 DEF AlreadyRunning, Record
        <4>3. QED
          BY <1>1, <4>1, <4>2
      <3>2. ASSUME NEW i \in 1..Len(WorkersNow), i <= n PROVE Accepted(i)
        BY <1>2, <3>2 DEF Cleared
      <3>3. QED
        BY <1>6, <3>1, <3>2
    <2>5. Cleared(o, n + 1)'
      BY <1>5, <2>2, <2>4 DEF Cleared, Accepted, Refused
    <2>6. QED
      BY <2>2, <2>3, <2>5
  <1>10. CASE Fork(o)
    <2>1. pc'[o] = "forked" /\ todo' = todo /\ ~Invalid(Current(o))
      BY <1>8, <1>10 DEF Fork, ForkUnlooked
    <2>2. AfterFirst(o, n)'
      BY <1>2, <1>5, <2>1 DEF AfterFirst
    <2>3. \A i \in 1..Len(WorkersNow) : i <= n \/ i = n + 1 => Accepted(i)
      BY <1>2, <1>7, <2>1 DEF Cleared
    <2>4. Cleared(o, n)'
      BY <1>5, <2>1, <2>3 DEF Cleared, Accepted, Refused
    <2>5. QED
      BY <2>1, <2>2, <2>4
  <1>11. QED
    BY <1>9, <1>10

LEMMA StagedBegins ==
  ASSUME Inv, NEW o \in Script, BeginUpAll(o) \/ BeginUp(o) \/ BeginDown(o),
         verb'[o] = "all"
  PROVE  pc'[o] = "up" /\ \E n \in Nat : AfterFirst(o, n)' /\ Cleared(o, n)'
  <1>1. /\ pc \in [Script -> {"idle", "up", "forked", "down", "wait"}]
        /\ todo \in [Script -> Seq(Component)] /\ verb \in [Script -> {"all", "up", "down"}]
        /\ edition \in DOMAIN Configs
    BY DEF Inv, Typed, ScriptsTyped, FilesTyped
  <1>2. ASSUME NEW v, NEW targets, NEW root, Begin(o, v, targets, root) PROVE verb'[o] = v
    BY <1>1, <1>2 DEF Begin
  <1>3. ~(BeginUp(o) \/ BeginDown(o))
    BY <1>2 DEF BeginUp, BeginDown
  <1>4. Begin(o, "all", Whole, FALSE)
    BY <1>3, Zenon DEF BeginUpAll, Whole
  <1>5. pc'[o] = "up" /\ todo'[o] = Whole /\ edition' = edition
    BY <1>1, <1>4 DEF Begin, Phase
  <1>6. WorkersNow' = WorkersNow /\ config' = config /\ Whole' = Whole
    BY <1>5 DEF WorkersNow, config, RankTable, Contents, Whole, WorkersInOrder
  <1>7. Len(Whole) \in Nat /\ Len(WorkersNow) \in Nat
    BY <1>1, WholeIsSequence
  <1>8. AfterFirst(o, 0)'
    BY <1>5, <1>6, <1>7 DEF AfterFirst
  <1>9. Cleared(o, 0)'
    BY <1>5, <1>6, <1>7 DEF Cleared
  <1>10. QED
    BY <1>5, <1>8, <1>9

LEMMA NextKeepsStaged == Inv /\ Staged /\ [Next]_vars => Staged'
  <1> SUFFICES ASSUME Inv, Staged, [Next]_vars, NEW o \in Script, Busy(o)', verb'[o] = "all"
               PROVE  pc'[o] \in {"up", "forked"}
                      /\ \E n \in Nat : AfterFirst(o, n)' /\ Cleared(o, n)'
    BY DEF Staged
  <1>1. CASE UNCHANGED <<edition, scriptVars>>
    <2>1. Busy(o) /\ verb[o] = "all" /\ pc'[o] = pc[o] /\ todo'[o] = todo[o] /\ edition' = edition
      BY <1>1 DEF scriptVars, Busy
    <2>2. QED
      BY <2>1, StagedStays
  <1>2. ASSUME NEW q \in Script,
               BeginUpAll(q) \/ BeginUp(q) \/ BeginDown(q) \/ Step(q) \/ Interrupt(q), q # o
        PROVE  pc'[o] \in {"up", "forked"}
               /\ \E n \in Nat : AfterFirst(o, n)' /\ Cleared(o, n)'
    <2>1. /\ pc'[o] = pc[o] /\ todo'[o] = todo[o] /\ verb'[o] = verb[o] /\ edition' = edition
      BY <1>2, OwnStepsOnly
    <2>2. Busy(o) /\ verb[o] = "all"
      BY <2>1 DEF Busy
    <2>3. QED
      BY <2>1, <2>2, StagedStays
  <1>3. CASE BeginUpAll(o) \/ BeginUp(o) \/ BeginDown(o)
    BY <1>3, StagedBegins
  <1>4. CASE Step(o)
    <2>1. verb' = verb /\ Busy(o)
      BY <1>4 DEF Step, Refuse, AlreadyRunning, Fork, ForkUnlooked, Record, NotRunning,
                  Terminate, Poll, Stopped, GiveUp, Proceed, Stop, Busy
    <2>2. pc[o] \in {"up", "forked"}
      BY <2>1 DEF Staged
    <2>3. ~(NotRunning(o) \/ Terminate(o) \/ Poll(o) \/ Stopped(o) \/ GiveUp(o))
      BY <2>2 DEF NotRunning, Terminate, Poll, Stopped, GiveUp
    <2>4. ~Refuse(o)
      BY StopMovesOn DEF Refuse, Inv, Busy
    <2>5. AlreadyRunning(o) \/ Record(o) \/ Fork(o)
      BY <1>4, <2>3, <2>4 DEF Step
    <2>6. QED
      BY <2>1, <2>5, StagedAdvances
  <1>5. ~Interrupt(o)
    BY StopMovesOn DEF Interrupt, Inv, Busy
  <1>6. CASE Edit
    BY <1>6 DEF Edit, scriptVars, Busy
  <1>7. ASSUME NEW p \in Pid, LeaderExits(p) \/ RestExits(p) \/ Listen(p) \/ PortTaken(p)
        PROVE  UNCHANGED <<edition, scriptVars>>
    BY <1>7, Zenon DEF LeaderExits, RestExits, Listen, PortTaken
  <1>8. CASE UNCHANGED vars
    BY <1>1, <1>8 DEF vars
  <1>9. QED
    BY <1>1, <1>2, <1>3, <1>4, <1>5, <1>6, <1>7, <1>8 DEF Next

LEMMA StagesOwn ==
  ASSUME Inv, Staged, NEW o \in Script, verb[o] = "all", pc[o] = "up",
         Current(o) \in ServiceNames, NEW i \in DOMAIN WorkersNow
  PROVE  ~Refused(config, WorkersNow[i].role, WorkersNow[i].worker)
  <1>1. Busy(o) /\ edition \in DOMAIN Configs
    BY DEF Busy, Inv, Typed, FilesTyped
  <1>2. PICK n \in Nat : AfterFirst(o, n) /\ Cleared(o, n)
    BY <1>1 DEF Staged
  <1>3. n + 1 \in 1..Len(Whole) /\ Current(o) = Whole[n + 1]
    BY <1>1, <1>2, StagedCurrent
  <1>4. /\ Len(WorkersNow) \in Nat /\ i \in 1..Len(WorkersNow)
        /\ \A k \in 1..Len(WorkersNow) : Whole[k] \in Workers
    BY <1>1, WholeIsSequence
  <1>5. n + 1 \notin 1..Len(WorkersNow)
    BY <1>3, <1>4, LifecycleAssumption
  <1>6. i <= n
    BY <1>4, <1>5
  <1>7. QED
    BY <1>2, <1>4, <1>6 DEF Cleared, Accepted

\* `up all` starts a service only after every worker of the configuration was accepted.
THEOREM UpAllIsStaged == Spec => StagesInOrder
  <1>1. Init => Staged
    BY DEF Init, Staged, Busy
  <1>2. Inv /\ Staged /\ [Next]_vars =>
          [\A o \in Script :
             verb[o] = "all" /\ pc[o] = "up" /\ pc'[o] = "forked" /\ Current(o) \in ServiceNames =>
               \A i \in DOMAIN WorkersNow :
                 ~Refused(config, WorkersNow[i].role, WorkersNow[i].worker)]_vars
    BY StagesOwn
  <1>3. QED
    BY <1>1, <1>2, InvInvariant, NextKeepsStaged, PTL DEF Spec, StagesInOrder

-------------------------------------------------------------------------------
(***************************************************************************)
(* That the three readings of testbed.yaml agree on the workers that run:  *)
(* spawn_worker's, load_workers' and config.py's, for any configurations.  *)
(*                                                                         *)
(* Two things connect them.  A worker that runs is one of the edition it   *)
(* was started under, under one rank (Listed): an invocation that starts   *)
(* workers only has names of the current edition before it, and the file   *)
(* is not edited meanwhile (OnList).  The rest is arithmetic over ranks.   *)
(***************************************************************************)

\* The names of the workers of edition e.
Names(e) == {Ranked(Configs[e])[i].worker.name : i \in DOMAIN Ranked(Configs[e])}

\* What is left to an invocation that starts components are services, others, or
\* workers of the current edition.
OnList ==
  \A o \in Script :
    /\ pc[o] \in {"up", "forked"} => verb[o] # "down"
    /\ Busy(o) /\ verb[o] # "down" => todo[o] \in Seq((Component \ Workers) \cup Names(edition))

\* A group that is a worker is one of the edition it was started under.
Listed ==
  \A p \in Pid : who[p] \in Workers => under[p] \in DOMAIN Configs /\ who[p] \in Names(under[p])

LEMMA NamesNow ==
  ASSUME edition \in DOMAIN Configs
  PROVE  /\ \A i \in DOMAIN WorkersNow : WorkersNow[i].worker.name \in Names(edition)
         /\ WorkersInOrder \in Seq(Names(edition))
  <1>1. WorkersNow = Ranked(Configs[edition]) /\ Len(WorkersNow) \in Nat
        /\ DOMAIN WorkersNow = 1..Len(WorkersNow)
    BY WorkersNowIsSequence
  <1>2. \A i \in DOMAIN WorkersNow : WorkersNow[i].worker.name \in Names(edition)
    BY <1>1 DEF Names
  <1>3. QED
    BY <1>1, <1>2 DEF WorkersInOrder

\* What up_all and up are called for.
LEMMA TargetsOnList ==
  ASSUME edition \in DOMAIN Configs
  PROVE  /\ WorkersInOrder \o Services \in Seq((Component \ Workers) \cup Names(edition))
         /\ UpTargets \subseteq Seq((Component \ Workers) \cup Names(edition))
  <1> DEFINE S == (Component \ Workers) \cup Names(edition)
  <1>1. WorkersInOrder \in Seq(S)
    BY NamesNow, SeqMonotonic
  <1>2. ServiceNames \subseteq S /\ Others \subseteq S
    BY LifecycleAssumption DEF Component
  <1>3. Services \in Seq(S)
    BY <1>2, ServicesAreSequence, SeqMonotonic
  <1>4. Alone \subseteq Seq(S)
    <2>1. \A c \in ServiceNames \cup Others : <<c>> \in Seq(S)
      BY <1>2
    <2>2. QED
      BY <2>1 DEF Alone
  <1> HIDE DEF S
  <1>5. QED
    BY <1>1, <1>3, <1>4, ConcatProperties DEF UpTargets, S

LEMMA NextKeepsOnList == Inv /\ OnList /\ [Next]_vars => OnList'
  <1> SUFFICES ASSUME Inv, OnList, [Next]_vars, NEW o \in Script
               PROVE  /\ pc'[o] \in {"up", "forked"} => verb'[o] # "down"
                      /\ Busy(o)' /\ verb'[o] # "down" =>
                           todo'[o] \in Seq((Component \ Workers) \cup Names(edition'))
    BY DEF OnList, Names
  <1> DEFINE S == (Component \ Workers) \cup Names(edition)
             Goal == /\ pc'[o] \in {"up", "forked"} => verb'[o] # "down"
                     /\ Busy(o)' /\ verb'[o] # "down" =>
                          todo'[o] \in Seq((Component \ Workers) \cup Names(edition'))
  <1>1. edition \in DOMAIN Configs /\ ScriptsTyped
    BY DEF Inv, Typed, FilesTyped
  <1>2. CASE pc'[o] = pc[o] /\ todo'[o] = todo[o] /\ verb'[o] = verb[o] /\ edition' = edition
    BY <1>2 DEF OnList, Busy
  <1>3. ASSUME NEW q \in Script,
               BeginUpAll(q) \/ BeginUp(q) \/ BeginDown(q) \/ Step(q) \/ Interrupt(q), q # o
        PROVE  Goal
    BY <1>2, <1>3, OwnStepsOnly
  <1>4. CASE BeginUpAll(o) \/ BeginUp(o) \/ BeginDown(o)
    <2>1. PICK v \in {"all", "up", "down"}, root \in BOOLEAN, targets \in Seq(Component) :
            /\ Begin(o, v, targets, root)
            /\ v # "down" => targets \in Seq(S)
      <3>1. /\ WorkersInOrder \o Services \in Seq(S) /\ UpTargets \subseteq Seq(S)
            /\ WorkersInOrder \o Services \in Seq(Component)
            /\ UpTargets \subseteq Seq(Component) /\ DownTargets \subseteq Seq(Component)
        BY <1>1, TargetsOnList, TargetsAreSequences
      <3> HIDE DEF S
      <3>2. CASE BeginUpAll(o)
        BY <3>1, <3>2, Zenon DEF BeginUpAll
      <3>3. CASE BeginUp(o)
        BY <3>1, <3>3, Zenon DEF BeginUp
      <3>4. CASE BeginDown(o)
        BY <3>1, <3>4, Zenon DEF BeginDown
      <3>5. QED
        BY <1>4, <3>2, <3>3, <3>4
    <2>2. /\ pc'[o] = Phase(v) /\ verb'[o] = v /\ todo'[o] = targets /\ edition' = edition
      BY <1>1, <2>1 DEF Begin, ScriptsTyped
    <2>3. QED
      BY <2>1, <2>2 DEF Phase
  <1>5. CASE Step(o) \/ Interrupt(o)
    <2>1. edition' = edition /\ Busy(o) /\ verb' = verb
      BY <1>5, Zenon DEF Step, Interrupt, Refuse, AlreadyRunning, Fork, ForkUnlooked, Record,
           NotRunning, Terminate, Poll, Stopped, GiveUp, Proceed, Stop, Busy
    <2>2. CASE Stop(o)
      BY <1>1, <2>2 DEF Stop, ScriptsTyped, Busy
    <2>3. CASE Proceed(o)
      <3>1. pc'[o] \in {"idle", Phase(verb[o])} /\ todo'[o] = Tail(todo[o])
        BY <1>1, <2>3 DEF Proceed, ScriptsTyped
      <3>2. verb[o] # "down" => todo[o] \in Seq(S) /\ todo[o] # <<>>
        BY <2>1 DEF OnList, Inv, Typed, Turn
      <3> HIDE DEF S
      <3>3. verb[o] # "down" => todo'[o] \in Seq(S)
        BY <3>1, <3>2, HeadTailProperties
      <3>4. QED
        BY <2>1, <3>1, <3>3 DEF Phase, S
    <2>4. CASE Fork(o)
      BY <1>1, <2>4, <2>1 DEF Fork, ForkUnlooked, ScriptsTyped, OnList, Busy
    <2>5. CASE Terminate(o) \/ Poll(o)
      BY <1>1, <2>5, <2>1 DEF Terminate, Poll, ScriptsTyped, OnList, Busy
    <2>6. QED
      BY <1>5, <2>2, <2>3, <2>4, <2>5, Zenon DEF Step, Interrupt, Refuse, AlreadyRunning, Record,
           NotRunning, Stopped, GiveUp
  <1>6. CASE Edit
    BY <1>6 DEF Edit, scriptVars, Busy
  <1>7. ASSUME NEW p \in Pid, LeaderExits(p) \/ RestExits(p) \/ Listen(p) \/ PortTaken(p)
        PROVE  Goal
    <2>1. UNCHANGED <<edition, scriptVars>>
      BY <1>7, Zenon DEF LeaderExits, RestExits, Listen, PortTaken
    <2>2. QED
      BY <1>2, <2>1 DEF scriptVars
  <1>8. CASE UNCHANGED vars
    BY <1>2, <1>8 DEF vars, scriptVars
  <1>9. QED
    BY <1>3, <1>4, <1>5, <1>6, <1>7, <1>8 DEF Next

\* A worker that is forked is one of the current edition.
LEMMA ForkListed ==
  ASSUME Inv, OnList, Listed, NEW o \in Script, Fork(o)
  PROVE  Listed'
  <1> SUFFICES ASSUME NEW p \in Pid, who'[p] \in Workers
               PROVE  under'[p] \in DOMAIN Configs /\ who'[p] \in Names(under'[p])
    BY DEF Listed, Names
  <1>1. edition \in DOMAIN Configs /\ GroupsTyped /\ Busy(o)
    BY DEF Inv, Typed, FilesTyped, Fork, Busy
  <1>2. PICK n \in Pid : /\ who' = [who EXCEPT ![n] = Current(o)]
                         /\ under' = [under EXCEPT ![n] = edition]
    BY DEF Fork, ForkUnlooked
  <1>3. CASE p # n
    BY <1>1, <1>2, <1>3 DEF Listed, GroupsTyped
  <1>4. CASE p = n
    <2> DEFINE S == (Component \ Workers) \cup Names(edition)
    <2>1. who'[p] = Current(o) /\ under'[p] = edition
      BY <1>1, <1>2, <1>4 DEF GroupsTyped
    <2>2. todo[o] \in Seq(S) /\ todo[o] # <<>>
      BY <1>1 DEF OnList, Fork, Inv, Typed, Turn
    <2> HIDE DEF S
    <2>3. Current(o) \in S
      BY <2>2, HeadTailProperties DEF Current
    <2>4. QED
      BY <1>1, <2>1, <2>3 DEF S
  <1>5. QED
    BY <1>3, <1>4

\* A group that is left, in part or whole.
LEMMA ShrinkListed ==
  ASSUME Inv, Listed, NEW p \in Pid, NEW ls \in BOOLEAN, NEW rs \in BOOLEAN, Shrink(p, ls, rs)
  PROVE  Listed'
  <1>1. GroupsTyped /\ NoOne \notin Workers
    BY LifecycleAssumption DEF Inv, Typed, Component
  <1>2. CASE ls \/ rs
    BY <1>2 DEF Shrink, Listed, Names
  <1>3. CASE ~(ls \/ rs)
    <2>1. who' = [who EXCEPT ![p] = NoOne] /\ under' = [under EXCEPT ![p] = NoEdition]
      BY <1>3 DEF Shrink
    <2>2. QED
      BY <1>1, <2>1 DEF Listed, GroupsTyped, Names
  <1>4. QED
    BY <1>2, <1>3

LEMMA NextKeepsListed == Inv /\ OnList /\ Listed /\ [Next]_vars => Listed'
  <1> SUFFICES ASSUME Inv, OnList, Listed, [Next]_vars PROVE Listed'
    OBVIOUS
  <1>1. CASE UNCHANGED <<who, under>>
    BY <1>1 DEF Listed, Names
  <1>2. ASSUME NEW o \in Script,
               BeginUpAll(o) \/ BeginUp(o) \/ BeginDown(o) \/ Interrupt(o)
        PROVE  UNCHANGED <<who, under>>
    BY <1>2, Zenon DEF BeginUpAll, BeginUp, BeginDown, Begin, Interrupt, procVars
  <1>3. ASSUME NEW o \in Script, Step(o), ~Fork(o) PROVE UNCHANGED <<who, under>>
    BY <1>3, Zenon DEF Step, Refuse, AlreadyRunning, Record, NotRunning, Terminate, Poll,
         Stopped, GiveUp, procVars
  <1>4. ASSUME NEW p \in Pid, LeaderExits(p) \/ RestExits(p) \/ PortTaken(p) PROVE Listed'
    <2>1. GroupsTyped
      BY DEF Inv, Typed
    <2>2. leader[p] \in BOOLEAN
      BY <2>1, Zenon DEF GroupsTyped
    <2>3. QED
      BY <1>4, <2>2, ShrinkListed, Zenon DEF LeaderExits, RestExits, PortTaken
  <1>5. ASSUME NEW p \in Pid, Listen(p) PROVE UNCHANGED <<who, under>>
    BY <1>5 DEF Listen
  <1>6. CASE Edit
    BY <1>6, <1>1 DEF Edit, procVars
  <1>7. CASE UNCHANGED vars
    BY <1>7, <1>1 DEF vars, procVars
  <1>8. QED
    BY <1>1, <1>2, <1>3, <1>4, <1>5, <1>6, <1>7, ForkListed DEF Next

LEMMA ListedInvariant == Spec => [](Inv /\ OnList /\ Listed)
  <1>1. Init => OnList /\ Listed
    BY LifecycleAssumption DEF Init, OnList, Listed, Busy, Component
  <1>2. QED
    BY <1>1, InvInvariant, NextKeepsOnList, NextKeepsListed, PTL DEF Spec

-------------------------------------------------------------------------------
(* What follows *)

\* The rank of a worker that runs under the current edition.
LEMMA LaunchedRank ==
  ASSUME Inv, Listed, NEW p \in Launched
  PROVE  /\ p \in Pid /\ RankOf(who[p]) \in Nat
         /\ RankOf(who[p]) + 1 \in DOMAIN WorkersNow
         /\ WorkersNow[RankOf(who[p]) + 1].worker.name = who[p]
         /\ WorkersNow = Ranked(config) /\ DOMAIN WorkersNow = 1..Len(WorkersNow)
         /\ Len(WorkersNow) \in Nat /\ edition \in DOMAIN Configs /\ config = Configs[edition]
  <1> DEFINE ranks == {j \in DOMAIN WorkersNow : WorkersNow[j].worker.name = who[p]}
  <1>1. p \in Pid /\ who[p] \in Names(edition) /\ edition \in DOMAIN Configs
    BY DEF Launched, Listed
  <1>2. WorkersNow = Ranked(Configs[edition]) /\ Len(WorkersNow) \in Nat
        /\ DOMAIN WorkersNow = 1..Len(WorkersNow)
    BY <1>1, WorkersNowIsSequence
  <1>3. config = Configs[edition]
    BY DEF config, Contents
  <1>4. ranks # {}
    BY <1>1, <1>2 DEF Names
  <1>5. RankOf(who[p]) = (CHOOSE i \in ranks : TRUE) - 1
    BY <1>4 DEF RankOf
  <1>6. (CHOOSE i \in ranks : TRUE) \in ranks
    BY <1>4
  <1> HIDE DEF ranks
  <1>7. PICK i : i = (CHOOSE j \in ranks : TRUE) /\ i \in ranks
    BY <1>6
  <1>8. i \in 1..Len(WorkersNow) /\ WorkersNow[i].worker.name = who[p]
    BY <1>2, <1>7 DEF ranks
  <1>9. RankOf(who[p]) = i - 1
    BY <1>5, <1>7
  <1>10. i - 1 \in Nat /\ (i - 1) + 1 = i
    BY <1>2, <1>8
  <1>11. QED
    BY <1>1, <1>2, <1>3, <1>8, <1>9, <1>10

\* The scraper polls a launched worker at the port spawn_worker gave it.
LEMMA PolledAtItsPort ==
  ASSUME Inv, Listed, NEW p \in Launched, Scrapes(config), config.base.env = Absent
  PROVE  \E i \in DOMAIN Targets(config) :
           Targets(config)[i] = [worker |-> who[p], role |-> Line(p).mode, port |-> Line(p).port]
  <1> DEFINE r == RankOf(who[p])
             w == WorkersNow[r + 1]
  <1>1. /\ r \in Nat /\ r + 1 \in DOMAIN Ranked(config) /\ w = Ranked(config)[r + 1]
        /\ w.worker.name = who[p]
    BY LaunchedRank
  <1>2. Line(p).mode = w.role /\ Line(p).port = SystemPort(config, r)
    BY DEF Line, CommandLine
  <1>3. SystemPort(config, r) = config.base.yaml + r
    BY DEF SystemPort, NumberInShell, Scrapes
  <1> HIDE DEF r, w
  <1>4. /\ r + 1 \in DOMAIN Targets(config)
        /\ Targets(config)[r + 1] = [worker |-> w.worker.name, role |-> w.role,
                                     port |-> config.base.yaml + ((r + 1) - 1)]
    BY <1>1 DEF Targets
  <1>5. (r + 1) - 1 = r
    BY <1>1
  <1>6. QED
    BY <1>1, <1>2, <1>3, <1>4, <1>5

\* The ports of a launched worker lie in the stretch of its rank.
LEMMA PortStretch ==
  ASSUME Inv, Listed, NEW p \in Launched, RangesApart(config)
  PROVE  LET r == RankOf(who[p])
             side == NumberInShell(config.nixl)
             metrics == NumberInShell(config.base)
         IN  /\ side \in Int /\ metrics \in Int
             /\ \A n \in SidePorts(p) :
                  n \in Int /\ side + r * 100 <= n /\ n < side + r * 100 + 100
             /\ \A n \in {Line(p).port} \ {Absent} : n = metrics + r
  <1> DEFINE r == RankOf(who[p])
             w == WorkersNow[r + 1].worker
             side == NumberInShell(config.nixl)
             metrics == NumberInShell(config.base)
  <1>1. /\ r \in Nat /\ r + 1 \in DOMAIN Ranked(config)
        /\ WorkersNow[r + 1] = Ranked(config)[r + 1]
        /\ edition \in DOMAIN Configs /\ config = Configs[edition]
    BY LaunchedRank
  <1>2. side \in Int /\ metrics \in Int
    BY <1>1, ConfigsAssumption DEF NumberInShell
  <1>3. w.tp \in Int /\ w.dp \in Int /\ w.tp * w.dp <= 100
    BY <1>1, ConfigsAssumption DEF RangesApart
  <1>4. Line(p).nixl \in {Absent, side + r * 100}
    BY DEF Line, CommandLine, NixlPort
  <1>5. Line(p).parallel[1] * Line(p).parallel[3] = w.tp * w.dp
    BY DEF Line, CommandLine
  <1>6. Line(p).port \in {Absent, metrics + r}
    BY DEF Line, CommandLine, SystemPort
  <1> HIDE DEF r, w, side, metrics
  <1>7. ASSUME NEW n \in SidePorts(p)
        PROVE  n \in Int /\ side + r * 100 <= n /\ n < side + r * 100 + 100
    <2>1. n \in (side + r * 100)..(side + r * 100 + w.tp * w.dp - 1)
      BY <1>4, <1>5 DEF SidePorts
    <2> DEFINE k == w.tp * w.dp
    <2>2. k \in Int /\ k <= 100
      BY <1>3
    <2>3. n \in (side + r * 100)..(side + r * 100 + k - 1)
      BY <2>1
    <2> HIDE DEF k
    <2>4. QED
      BY <1>1, <1>2, <2>2, <2>3
  <1>8. QED
    BY <1>2, <1>6, <1>7 DEF r, side, metrics

\* Stretches of different ranks are apart.
LEMMA PortsApart ==
  ASSUME Inv, Listed, NEW p \in Launched, NEW q \in Launched, who[p] # who[q],
         RangesApart(config)
  PROVE  PortsOf(p) \cap PortsOf(q) = {}
  <1> DEFINE r == RankOf(who[p])
             s == RankOf(who[q])
             side == NumberInShell(config.nixl)
             metrics == NumberInShell(config.base)
             k == Len(Ranked(config))
  <1>1. /\ r \in Nat /\ s \in Nat /\ k \in Nat /\ r + 1 \in 1..k /\ s + 1 \in 1..k
        /\ WorkersNow[r + 1].worker.name = who[p] /\ WorkersNow[s + 1].worker.name = who[q]
    BY LaunchedRank
  <1>2. r # s
    BY <1>1
  <1>3. side \in Int /\ metrics \in Int
        /\ (metrics + k <= side \/ side + k * 100 <= metrics)
    BY PortStretch DEF RangesApart
  <1>4. /\ \A n \in SidePorts(p) : n \in Int /\ side + r * 100 <= n /\ n < side + r * 100 + 100
        /\ \A n \in {Line(p).port} \ {Absent} : n = metrics + r
    BY PortStretch
  <1>5. /\ \A n \in SidePorts(q) : n \in Int /\ side + s * 100 <= n /\ n < side + s * 100 + 100
        /\ \A n \in {Line(q).port} \ {Absent} : n = metrics + s
    BY PortStretch
  <1> HIDE DEF r, s, side, metrics, k
  <1>6. SUFFICES ASSUME NEW n \in PortsOf(p), n \in PortsOf(q) PROVE FALSE
    OBVIOUS
  <1>7. CASE n \in SidePorts(p) /\ n \in SidePorts(q)
    BY <1>1, <1>2, <1>3, <1>4, <1>5, <1>7
  <1>8. CASE n \in {Line(p).port} \ {Absent} /\ n \in {Line(q).port} \ {Absent}
    BY <1>1, <1>2, <1>3, <1>4, <1>5, <1>8
  <1>9. CASE n \in SidePorts(p) /\ n \in {Line(q).port} \ {Absent}
    <2>1. n \in Int /\ side + r * 100 <= n /\ n < side + r * 100 + 100 /\ n = metrics + s
      BY <1>4, <1>5, <1>9
    <2>2. QED
      BY <1>1, <1>3, <2>1
  <1>10. CASE n \in {Line(p).port} \ {Absent} /\ n \in SidePorts(q)
    <2>1. n \in Int /\ side + s * 100 <= n /\ n < side + s * 100 + 100 /\ n = metrics + r
      BY <1>4, <1>5, <1>10
    <2>2. QED
      BY <1>1, <1>3, <2>1
  <1>11. QED
    BY <1>6, <1>7, <1>8, <1>9, <1>10 DEF PortsOf

\* The scraper polls every worker of the current edition under its own name, at the
\* port spawn_worker started it with, and no two of them are given the same port.
THEOREM WorkersArePolled == Spec => []PolledWhereItListens
  <1>1. Inv /\ Listed => PolledWhereItListens
    BY PolledAtItsPort, PortsApart DEF PolledWhereItListens
  <1>2. QED
    BY <1>1, ListedInvariant, PTL

\* config.json records the toggles and parsers that the workers were started with,
\* whatever the file and the environment say, but for the listed spellings.
THEOREM ConfigIsRecorded == Spec => []RecordedAsLaunched
  <1>1. ASSUME Inv, Listed, NEW p \in Launched, Valid(config)
        PROVE  \/ Recorded(config).toggle = Line(p).toggle
               \/ config.toggle.env = Missing /\ config.toggle.yaml = "false"
               \/ config.toggle.env = "t"
    <2>1. config.toggle.yaml \in {"true", "false", Missing}
      BY <1>1, LaunchedRank, ConfigsAssumption
    <2>2. Line(p).toggle = FlagPassed(ToggleInShell(config.toggle))
      BY DEF Line, CommandLine
    <2>3. Recorded(config).toggle =
            LET v == Override(config.toggle, Missing)
            IN  IF v = "t" THEN "enable" ELSE FlagPassed(v)
      BY DEF Recorded
    <2>4. Override(config.toggle, Missing) # Empty
      BY <1>1 DEF Valid
    <2> DEFINE t == config.toggle
    <2>5. /\ t.yaml \in {"true", "false", Missing} /\ Override(t, Missing) # Empty
          /\ Line(p).toggle = FlagPassed(ToggleInShell(t))
          /\ Recorded(config).toggle = IF Override(t, Missing) = "t" THEN "enable"
                                       ELSE FlagPassed(Override(t, Missing))
      BY <2>1, <2>2, <2>3, <2>4
    <2> HIDE DEF t
    <2>6. CASE t.env = Missing
      BY <2>5, <2>6 DEF Override, ToggleInShell, FlagPassed, Missing, Empty, t
    <2>7. CASE t.env # Missing
      <3>1. Override(t, Missing) = t.env /\ ToggleInShell(t) = t.env
        BY <2>5, <2>7 DEF Override, ToggleInShell
      <3>2. QED
        BY <2>5, <3>1 DEF t
    <2>8. QED
      BY <2>6, <2>7
  <1>2. ASSUME NEW p \in Launched
        PROVE  \/ Recorded(config).parser = Line(p).parser
               \/ Line(p).mode = "prefill" \/ config.parser.env = Empty
               \/ config.parser.yaml = Missing
    <2> DEFINE t == config.parser
               w == WorkersNow[RankOf(who[p]) + 1]
    <2>1. Line(p).mode = w.role /\ Line(p).parser = ParserFlag(config, w.role)
      BY DEF Line, CommandLine
    <2>2. Recorded(config).parser = Override(t, "qwen3_coder")
      BY DEF Recorded
    <2>3. ParserFlag(config, w.role) =
            IF w.role = "prefill" \/ TextInShell(t) = Missing THEN Empty ELSE TextInShell(t)
      BY DEF ParserFlag
    <2> HIDE DEF t, w
    <2>4. t.env = Empty \/ t.yaml = Missing
          \/ (TextInShell(t) = Override(t, "qwen3_coder") /\ TextInShell(t) # Missing)
      BY DEF Override, TextInShell, Missing, Empty
    <2>5. QED
      BY <2>1, <2>2, <2>3, <2>4 DEF t
  <1>3. Inv /\ Listed => RecordedAsLaunched
    BY <1>1, <1>2 DEF RecordedAsLaunched
  <1>4. QED
    BY <1>3, ListedInvariant, PTL

-------------------------------------------------------------------------------
(* The sampler beside testbed.sh *)

\* Every entry is of a process that, if it still runs, is the one that was looked up.
Entries ==
  \A c \in Component :
    /\ watch[c] # Nobody => watch[c].pid \in Pid
    /\ watch[c].runs => leader[watch[c].pid] /\ who[watch[c].pid] = watch[c].owner

Watching == SamplerTypeOK /\ Entries /\ CachesFollowWatch

LEMMA NobodyTyped ==
  Nobody \in [pid : Pid \cup {NoPid}, runs : BOOLEAN, owner : Component \cup {NoOne}]
  BY DEF Nobody

LEMMA NobodyStays == Nobody' = Nobody
  BY DEF Nobody

\* A sampler that remembers nothing.
LEMMA EmptyWatching ==
  ASSUME watch' = [c \in Component |-> Nobody], kin' = {}, stage' = "loop",
         sampler' \in Pid \cup {NoPid}
  PROVE  Watching'
  <1>1. SamplerTypeOK'
    BY NobodyTyped DEF SamplerTypeOK
  <1>2. Entries'
    BY DEF Entries, Nobody
  <1>3. CachesFollowWatch'
    BY DEF CachesFollowWatch
  <1>4. QED
    BY <1>1, <1>2, <1>3 DEF Watching

LEMMA InitWatching == SamplerInit => Watching
  <1> SUFFICES ASSUME SamplerInit PROVE Watching
    OBVIOUS
  <1>1. SamplerTypeOK
    BY NobodyTyped DEF SamplerInit, SamplerTypeOK
  <1>2. Entries /\ CachesFollowWatch
    BY DEF SamplerInit, Entries, CachesFollowWatch, Nobody
  <1>3. QED
    BY <1>1, <1>2 DEF Watching

\* A number only changes hands when its group is gone.
LEMMA LeadersStay ==
  ASSUME Inv, Next, NEW p \in Pid, leader[p], leader'[p]
  PROVE  who'[p] = who[p]
  <1>1. who[p] # NoOne
    BY DEF Inv, Custody, Groups
  <1>2. ASSUME NEW o \in Script,
               BeginUpAll(o) \/ BeginUp(o) \/ BeginDown(o) \/ Step(o) \/ Interrupt(o)
        PROVE  who'[p] = who[p]
    <2>1. CASE Fork(o)
      <3>1. PICK f \in Pid : Available(f) /\ who' = [who EXCEPT ![f] = Current(o)]
        BY <2>1 DEF Fork, ForkUnlooked
      <3>2. f # p
        BY <1>1, <3>1 DEF Available, Free
      <3>3. QED
        BY <3>1, <3>2 DEF Inv, Typed, GroupsTyped
    <2>2. ASSUME NEW v, NEW targets, NEW root, Begin(o, v, targets, root) PROVE who' = who
      BY <2>2 DEF Begin, procVars
    <2>3. CASE BeginUpAll(o) \/ BeginUp(o) \/ BeginDown(o)
      BY <2>2, <2>3, Zenon DEF BeginUpAll, BeginUp, BeginDown
    <2>4. CASE Refuse(o) \/ AlreadyRunning(o) \/ Record(o) \/ NotRunning(o) \/ Terminate(o)
               \/ Poll(o) \/ Stopped(o) \/ GiveUp(o) \/ Interrupt(o)
      BY <2>4 DEF Refuse, AlreadyRunning, Record, NotRunning, Terminate, Poll, Stopped,
                  GiveUp, Interrupt, procVars
    <2>5. QED
      BY <1>2, <2>1, <2>3, <2>4 DEF Step
  <1>3. ASSUME NEW q \in Pid, LeaderExits(q) \/ RestExits(q) \/ PortTaken(q)
        PROVE  who'[p] = who[p]
    <2>1. leader[q] \in BOOLEAN /\ GroupsTyped
      BY DEF Inv, Typed, GroupsTyped
    <2>2. \E ls, rs \in BOOLEAN : Shrink(q, ls, rs)
      BY <1>3, <2>1, Zenon DEF LeaderExits, RestExits, PortTaken
    <2>3. PICK ls \in BOOLEAN, rs \in BOOLEAN : Shrink(q, ls, rs)
      BY <2>2, Zenon
    <2>4. Shrunk(q, ls, rs)
      BY <2>1, <2>3, ShrinkEffect, Zenon
    <2>5. QED
      BY <2>4 DEF Shrunk
  <1>4. ASSUME NEW q \in Pid, Listen(q) PROVE who'[p] = who[p]
    BY <1>4 DEF Listen
  <1>5. CASE Edit
    BY <1>5 DEF Edit, procVars
  <1>6. QED
    BY <1>2, <1>3, <1>4, <1>5 DEF Next

\* What becomes of an entry in Observe.
LEMMA StillRuns ==
  ASSUME NEW P, NEW O, NEW r \in [pid : P, runs : BOOLEAN, owner : O], NEW b,
         NEW s, s = [r EXCEPT !.runs = @ /\ b]
  PROVE  /\ s.pid = r.pid /\ s.owner = r.owner
         /\ s.runs \in BOOLEAN
         /\ s.runs = (r.runs /\ b)
         /\ s \in [pid : P, runs : BOOLEAN, owner : O]
  <1>1. s = [pid |-> r.pid, runs |-> (r.runs /\ b), owner |-> r.owner]
    OBVIOUS
  <1>2. s.pid = r.pid /\ s.owner = r.owner
    BY <1>1
  <1>3. s.runs = (r.runs /\ b)
    BY <1>1, Zenon
  <1>4. (r.runs /\ b) \in BOOLEAN
    BY Zenon
  <1>5. s.runs \in BOOLEAN
    BY <1>3, <1>4, Zenon
  <1>6. r.pid \in P /\ r.owner \in O
    OBVIOUS
  <1>7. s \in [pid : P, runs : BOOLEAN, owner : O]
    BY <1>1, <1>4, <1>6, Zenon
  <1>8. QED
    BY <1>2, <1>3, <1>5, <1>7

LEMMA ObserveKeepsWatching ==
  ASSUME Inv, Inv', Watching, Next, Observe
  PROVE  Watching'
  <1>1. CASE sampler # NoPid /\ ~leader'[sampler]
    BY <1>1, EmptyWatching DEF Observe, Reset
  <1>2. CASE ~(sampler # NoPid /\ ~leader'[sampler])
    <2>1. /\ watch' = [c \in Component |-> [watch[c] EXCEPT !.runs = @ /\ leader'[watch[c].pid]]]
          /\ UNCHANGED <<sampler, kin, stage>>
      BY <1>2 DEF Observe
    <2>2. \A c \in Component :
            watch[c] \in [pid : Pid \cup {NoPid}, runs : BOOLEAN, owner : Component \cup {NoOne}]
      BY DEF Watching, SamplerTypeOK
    <2>3. ASSUME NEW c \in Component
          PROVE  /\ watch'[c].pid = watch[c].pid /\ watch'[c].owner = watch[c].owner
                 /\ watch'[c].runs \in BOOLEAN
                 /\ watch'[c].runs = (watch[c].runs /\ leader'[watch[c].pid])
                 /\ watch'[c] \in [pid : Pid \cup {NoPid}, runs : BOOLEAN, owner : Component \cup {NoOne}]
      <3>1. watch'[c] = [watch[c] EXCEPT !.runs = @ /\ leader'[watch[c].pid]]
        BY <2>1
      <3>2. QED
        BY <2>2, <3>1, StillRuns
    <2>4. SamplerTypeOK'
      BY <2>1, <2>3 DEF Watching, SamplerTypeOK
    <2>5. ASSUME NEW c \in Component, watch[c] # Nobody PROVE watch'[c] # Nobody
      <3>1. watch[c].pid \in Pid
        BY <2>5 DEF Watching, Entries
      <3>2. watch'[c].pid # NoPid
        BY <2>3, <3>1, PidsAreNumbers DEF NoPid
      <3>3. QED
        BY <3>2 DEF Nobody
    <2>6. ASSUME NEW c \in Component, watch[c] = Nobody PROVE watch'[c].runs = FALSE
      BY <2>3, <2>6 DEF Nobody
    <2>7. Entries'
      <3> SUFFICES ASSUME NEW c \in Component
                   PROVE  /\ watch'[c] # Nobody => watch'[c].pid \in Pid
                          /\ watch'[c].runs =>
                               leader'[watch'[c].pid] /\ who'[watch'[c].pid] = watch'[c].owner
        BY DEF Entries
      <3>1. watch'[c] # Nobody => watch[c] # Nobody
        <4>1. SUFFICES ASSUME watch[c] = Nobody PROVE watch'[c] = Nobody
          OBVIOUS
        <4>2. watch'[c].pid = NoPid /\ watch'[c].owner = NoOne /\ watch'[c].runs = FALSE
          BY <2>3, <2>6, <4>1 DEF Nobody
        <4>3. watch'[c] \in [pid : Pid \cup {NoPid}, runs : BOOLEAN, owner : Component \cup {NoOne}]
          BY <2>3
        <4>4. QED
          BY <4>2, <4>3 DEF Nobody
      <3>2. ASSUME watch'[c].runs
            PROVE  leader'[watch'[c].pid] /\ who'[watch'[c].pid] = watch'[c].owner
        <4>1. watch[c].runs /\ leader'[watch[c].pid] /\ watch[c] # Nobody
          BY <2>3, <2>6, <3>2
        <4>2. watch[c].pid \in Pid /\ leader[watch[c].pid] /\ who[watch[c].pid] = watch[c].owner
          BY <4>1 DEF Watching, Entries
        <4>3. who'[watch[c].pid] = who[watch[c].pid]
          BY <4>1, <4>2, LeadersStay
        <4>4. QED
          BY <2>3, <4>1, <4>2, <4>3
      <3>3. QED
        BY <2>3, <3>1, <3>2 DEF Watching, Entries
    <2>8. CachesFollowWatch'
      <3>1. kin' = kin
        BY <2>1
      <3> SUFFICES ASSUME NEW p \in kin PROVE \E c \in Component : watch'[c] # Nobody /\ watch'[c].pid = p
        BY <3>1, NobodyStays DEF CachesFollowWatch, Watched
      <3>2. PICK c \in Component : watch[c] # Nobody /\ watch[c].pid = p
        BY DEF Watching, CachesFollowWatch, Watched
      <3>3. QED
        BY <2>3, <2>5, <3>2
    <2>9. QED
      BY <2>4, <2>7, <2>8 DEF Watching
  <1>3. QED
    BY <1>1, <1>2

\* What _refresh_pids makes of an entry.
LEMMA LookedEffect ==
  ASSUME Inv, Watching, NEW c \in Component
  PROVE  /\ Looked(c) \in [pid : Pid \cup {NoPid}, runs : BOOLEAN, owner : Component \cup {NoOne}]
         /\ Looked(c) # Nobody => Looked(c).pid \in Pid
         /\ Looked(c).runs => leader[Looked(c).pid] /\ who[Looked(c).pid] = Looked(c).owner
         /\ pidfile[c] # NoPid /\ leader[pidfile[c]] =>
              Looked(c) = [pid |-> pidfile[c], runs |-> TRUE, owner |-> who[pidfile[c]]]
  <1> DEFINE p == pidfile[c]
             found == [pid |-> p, runs |-> TRUE, owner |-> who[p]]
  <1>1. /\ watch[c] \in [pid : Pid \cup {NoPid}, runs : BOOLEAN, owner : Component \cup {NoOne}]
        /\ watch[c] # Nobody => watch[c].pid \in Pid
        /\ watch[c].runs => leader[watch[c].pid] /\ who[watch[c].pid] = watch[c].owner
    BY DEF Watching, SamplerTypeOK, Entries
  <1>2. p \in Pid \cup {NoPid}
    BY DEF Inv, Typed, FilesTyped
  <1>3. \A q \in Pid : who[q] \in Component \cup {NoOne}
    BY DEF Inv, Typed, GroupsTyped
  <1>4. CASE p = NoPid
    BY <1>4, NobodyTyped DEF Looked, Nobody
  <1>5. CASE p # NoPid /\ watch[c].pid = p /\ watch[c].runs
    <2>1. Looked(c) = watch[c]
      BY <1>5 DEF Looked
    <2>2. watch[c] = found
      BY <1>1, <1>5
    <2>3. QED
      BY <1>1, <2>1, <2>2
  <1>6. CASE p # NoPid /\ ~(watch[c].pid = p /\ watch[c].runs) /\ leader[p]
    <2>1. Looked(c) = found
      BY <1>6 DEF Looked
    <2>2. QED
      BY <1>2, <1>3, <1>6, <2>1
  <1>7. CASE p # NoPid /\ ~(watch[c].pid = p /\ watch[c].runs) /\ ~leader[p]
    <2>1. Looked(c) = watch[c]
      BY <1>7 DEF Looked
    <2>2. QED
      BY <1>1, <1>7, <2>1
  <1>8. QED
    BY <1>4, <1>5, <1>6, <1>7

LEMMA RefreshKeepsWatching ==
  ASSUME Inv, Watching, Refresh
  PROVE  Watching'
  <1>1. /\ watch' = [c \in Component |-> Looked(c)]
        /\ kin' = kin \ {watch[c].pid : c \in {d \in Watched : watch'[d] # watch[d]}}
        /\ stage' = "refreshed" /\ sampler' = sampler /\ who' = who /\ leader' = leader
    BY DEF Refresh, vars, procVars
  <1>2. SamplerTypeOK'
    BY <1>1, LookedEffect DEF Watching, SamplerTypeOK
  <1>3. Entries'
    BY <1>1, LookedEffect DEF Entries, Nobody
  <1>4. CachesFollowWatch'
    <2> SUFFICES ASSUME NEW p \in kin' PROVE \E c \in Component : watch'[c] # Nobody /\ watch'[c].pid = p
      BY DEF CachesFollowWatch, Watched, Nobody
    <2>1. PICK c \in Component : watch[c] # Nobody /\ watch[c].pid = p
      BY <1>1 DEF Watching, CachesFollowWatch, Watched
    <2>2. watch'[c] = watch[c]
      BY <1>1, <2>1 DEF Watched
    <2>3. QED
      BY <2>1, <2>2
  <1>5. QED
    BY <1>2, <1>3, <1>4 DEF Watching

LEMMA MeasureKeepsWatching ==
  ASSUME Inv, Watching, Measure
  PROVE  Watching'
  <1> DEFINE gone == {c \in Watched : ~watch[c].runs}
             roots == {watch[c].pid : c \in Watched \ gone}
  <1>1. /\ watch' = [c \in Component |-> IF c \in gone THEN Nobody ELSE watch[c]]
        /\ kin' = (kin \ {watch[c].pid : c \in gone}) \cup {p \in roots : rest[p]}
        /\ stage' = "loop" /\ sampler' = sampler /\ who' = who /\ leader' = leader
    BY DEF Measure, vars, procVars
  <1>2. \A c \in Component : watch'[c] = watch[c] \/ watch'[c] = Nobody
    BY <1>1
  <1>3. \A c \in Watched \ gone : watch'[c] = watch[c]
    BY <1>1 DEF Watched
  <1>4. \A c \in Watched : c \in Component /\ watch[c] # Nobody /\ watch[c].pid \in Pid
    BY DEF Watching, Entries, Watched
  <1>5. SamplerTypeOK'
    <2>1. watch' \in [Component -> [pid : Pid \cup {NoPid}, runs : BOOLEAN, owner : Component \cup {NoOne}]]
      BY <1>1, NobodyTyped DEF Watching, SamplerTypeOK
    <2>2. kin' \subseteq Pid
      BY <1>1, <1>4 DEF Watching, SamplerTypeOK
    <2>3. QED
      BY <1>1, <2>1, <2>2 DEF Watching, SamplerTypeOK
  <1>6. Entries'
    BY <1>1, <1>2 DEF Watching, Entries, Nobody
  <1>7. CachesFollowWatch'
    <2> SUFFICES ASSUME NEW p \in kin' PROVE \E c \in Component : watch'[c] # Nobody /\ watch'[c].pid = p
      BY DEF CachesFollowWatch, Watched, Nobody
    <2>1. CASE p \in kin /\ p \notin {watch[c].pid : c \in gone}
      <3>1. PICK c \in Watched : watch[c].pid = p
        BY <2>1 DEF Watching, CachesFollowWatch
      <3>2. c \notin gone
        BY <2>1, <3>1
      <3>3. QED
        BY <1>3, <1>4, <3>1, <3>2
    <2>2. CASE p \in roots
      <3>1. PICK c \in Watched \ gone : watch[c].pid = p
        BY <2>2
      <3>2. QED
        BY <1>3, <1>4, <3>1
    <2>3. QED
      BY <1>1, <2>1, <2>2
  <1>8. QED
    BY <1>5, <1>6, <1>7 DEF Watching

\* A step that only puts another process in the sampler's place.
LEMMA SamePicture ==
  ASSUME Watching, sampler' \in Pid \cup {NoPid},
         watch' = watch, kin' = kin, stage' = stage, who' = who, leader' = leader
  PROVE  Watching'
  <1>1. SamplerTypeOK'
    BY DEF Watching, SamplerTypeOK
  <1>2. Entries'
    BY NobodyStays DEF Watching, Entries
  <1>3. CachesFollowWatch'
    BY NobodyStays DEF Watching, CachesFollowWatch, Watched
  <1>4. QED
    BY <1>1, <1>2, <1>3 DEF Watching

LEMMA SamplerNextKeeps == Inv /\ Watching /\ [SamplerNext]_allVars => Inv' /\ Watching'
  <1> SUFFICES ASSUME Inv, Watching, [SamplerNext]_allVars PROVE Inv' /\ Watching'
    OBVIOUS
  <1>1. [Next]_vars
    BY DEF SamplerNext, allVars, StartSampling, Refresh, Measure
  <1>2. Inv'
    BY <1>1, NextKeepsInv
  <1>3. CASE Next /\ Observe
    BY <1>2, <1>3, ObserveKeepsWatching
  <1>4. CASE StartSampling
    <2>1. sampler' \in Pid
      BY <1>4 DEF StartSampling
    <2>2. watch' = watch /\ kin' = kin /\ stage' = stage /\ who' = who /\ leader' = leader
      BY <1>4 DEF StartSampling, vars, procVars
    <2>3. Watching'
      BY <2>1, <2>2, SamePicture
    <2>4. QED
      BY <1>2, <2>3
  <1>5. CASE UNCHANGED allVars
    <2>1. sampler' \in Pid \cup {NoPid}
      BY <1>5 DEF allVars, samplerVars, Watching, SamplerTypeOK
    <2>2. watch' = watch /\ kin' = kin /\ stage' = stage /\ who' = who /\ leader' = leader
      BY <1>5 DEF allVars, samplerVars, vars, procVars
    <2>3. Watching'
      BY <2>1, <2>2, SamePicture
    <2>4. QED
      BY <1>2, <2>3
  <1>6. QED
    BY <1>2, <1>3, <1>4, <1>5, RefreshKeepsWatching, MeasureKeepsWatching DEF SamplerNext

LEMMA SamplerInvariant == SamplerSpec => [](Inv /\ Watching)
  <1>1. AllInit => Inv /\ Watching
    BY InitInv, InitWatching DEF AllInit
  <1>2. QED
    BY <1>1, SamplerNextKeeps, PTL DEF SamplerSpec

\* Every variable of the testbed and of the sampler keeps its type.
THEOREM SamplerTypeCorrect == SamplerSpec => []TypesOK
  <1>1. Inv /\ Watching => TypesOK
    BY TypesFromParts DEF Inv, Typed, Watching, TypesOK
  <1>2. QED
    BY <1>1, SamplerInvariant, PTL

\* CpuSampler caches the tree of a process only while it watches the process.
THEOREM NoOrphanIsCached == SamplerSpec => []CachesFollowWatch
  <1>1. Watching => CachesFollowWatch
    BY DEF Watching
  <1>2. QED
    BY <1>1, SamplerInvariant, PTL

\* No sample of CpuSampler misses a component that runs, or measures another process
\* for it, whatever numbers are handed out again between two samples.
THEOREM SamplesAreTrue == SamplerSpec => MeasuresWhatRuns
  <1>1. ASSUME Inv, Watching, [SamplerNext]_allVars, stage' = "refreshed", stage = "loop",
               NEW c \in Component, pidfile[c] # NoPid, leader[pidfile[c]]
        PROVE  watch'[c] = [pid |-> pidfile[c], runs |-> TRUE, owner |-> who[pidfile[c]]]
    <2>1. Refresh
      BY <1>1 DEF SamplerNext, Observe, Reset, StartSampling, Measure, allVars, samplerVars
    <2>2. watch'[c] = Looked(c)
      BY <2>1 DEF Refresh
    <2>3. QED
      BY <1>1, <2>2, LookedEffect
  <1>2. Inv /\ Watching /\ [SamplerNext]_allVars =>
          [stage' = "refreshed" /\ stage = "loop" =>
             \A c \in Component :
               LET p == pidfile[c] IN
               p # NoPid /\ leader[p] =>
                 watch'[c] = [pid |-> p, runs |-> TRUE, owner |-> who[p]]]_allVars
    BY <1>1
  <1>3. QED
    BY <1>2, SamplerInvariant, PTL DEF SamplerSpec, MeasuresWhatRuns

\* The sampler only reads: whatever holds of the testbed holds of it beside the sampler.
THEOREM SamplerDisturbsNothing == SamplerSpec => Spec
  <1>1. [SamplerNext]_allVars => [Next]_vars
    BY DEF SamplerNext, allVars, StartSampling, Refresh, Measure
  <1>2. QED
    BY <1>1, PTL DEF SamplerSpec, AllInit, Spec
===============================================================================
