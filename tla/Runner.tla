-------------------------------- MODULE Runner --------------------------------
(***************************************************************************)
(* One invocation of `python -m testbed run` after its workspaces are      *)
(* prepared: the arrival loop, the asyncio semaphore, the four stages of   *)
(* _run_one for every task, the OpenCode agent loop behind each request,   *)
(* and the trace and summary files (src/testbed/runner.py).                *)
(*                                                                         *)
(* asyncio runs one coroutine at a time, so an action is the code between  *)
(* two awaits.  Leaving `async with sem`, writing the trace line and       *)
(* appending to `records` have no await between them and are one action.   *)
(* Wall-clock times, messages and error texts are abstracted: a task that  *)
(* may time out does so at any moment while its request is outstanding.    *)
(***************************************************************************)
EXTENDS Integers, Sequences, FiniteSets

CONSTANTS
  N,             \* num_samples
  MaxInFlight    \* the values of --max-in-flight

ASSUME NAssumption == N \in Nat
ASSUME MaxInFlightAssumption == MaxInFlight \subseteq Nat

Tasks == 1..N

VARIABLES
  args,          \* the flags of this run; timeout: whether a task timeout is set
  driver,        \* where run() is: "arrive", "gather", "done", "aborted"
  arrived,       \* tasks 1..arrived have been created
  stage,         \* where each task's coroutine is
  free,          \* Semaphore._value
  queue,         \* Semaphore._waiters, oldest first
  agent,         \* the server-side agent loop of each task's session
  trace,         \* the lines of trace.jsonl
  records,       \* the in-memory list the summary is computed from
  summary        \* contents of summary.json, or NoSummary

vars == <<args, driver, arrived, stage, free, queue, agent, trace, records, summary>>

Slots == IF args.sequential THEN 1 ELSE args.max_in_flight

\* The stages in which a coroutine owns a slot of the semaphore.
InSlot == {"clone", "session", "message", "partial", "list"}
Stages == {"pending", "created", "waiting", "done", "raised", "cancelled"} \cup InSlot
Holders == {t \in Tasks : stage[t] \in InSlot}

(***************************************************************************)
(* Trace records.  `error` is error.stage, "none" for error=None; rtt says *)
(* whether rtt_s is set; messages abstracts the list: "none" for [].       *)
(***************************************************************************)
Record == [task : Tasks, error : {"none", "clone", "session", "message", "timeout", "list"},
           session : BOOLEAN, rtt : BOOLEAN, success : BOOLEAN,
           messages : {"none", "partial", "all"}]

Failed(t, error, session, messages) ==
  [task |-> t, error |-> error, session |-> session, rtt |-> session,
   success |-> FALSE, messages |-> messages]

Succeeded(t, error, messages) ==
  [task |-> t, error |-> error, session |-> TRUE, rtt |-> TRUE,
   success |-> TRUE, messages |-> messages]

NoSummary == [count |-> -1, ok |-> -1]

Summarise(recs) ==
  [count |-> Len(recs), ok |-> Cardinality({i \in 1..Len(recs) : recs[i].success})]

-------------------------------------------------------------------------------
(* asyncio.Semaphore: first come, first served.                             *)

\* Fault: a slot is taken without looking whether one is free.
AcquireUnchecked(t) ==
  /\ stage' = [stage EXCEPT ![t] = "clone"]
  /\ free' = free - 1
  /\ UNCHANGED queue

\* `async with sem`: take a free slot unless others are waiting for one.
Acquire(t) ==
  \/ /\ free > 0
     /\ queue = <<>>
     /\ stage' = [stage EXCEPT ![t] = "clone"]
     /\ free' = free - 1
     /\ UNCHANGED queue
  \/ /\ free = 0 \/ queue # <<>>
     /\ stage' = [stage EXCEPT ![t] = "waiting"]
     /\ queue' = Append(queue, t)
     /\ UNCHANGED free

\* Fault: the value is incremented although the slot is handed to a waiter.
ReleaseTwice(t, end) ==
  /\ free' = free + 1
  /\ \/ queue = <<>> /\ stage' = [stage EXCEPT ![t] = end] /\ UNCHANGED queue
     \/ /\ queue # <<>>
        /\ stage' = [stage EXCEPT ![t] = end, ![Head(queue)] = "clone"]
        /\ queue' = Tail(queue)

\* Fault: the youngest waiter is woken first.
ReleaseToYoungest(t, end) ==
  \/ /\ queue = <<>>
     /\ stage' = [stage EXCEPT ![t] = end]
     /\ free' = free + 1
     /\ UNCHANGED queue
  \/ /\ queue # <<>>
     /\ stage' = [stage EXCEPT ![t] = end, ![queue[Len(queue)]] = "clone"]
     /\ queue' = SubSeq(queue, 1, Len(queue) - 1)
     /\ UNCHANGED free

\* Fault: no waiter is woken.
ReleaseWithoutHandoff(t, end) ==
  /\ stage' = [stage EXCEPT ![t] = end]
  /\ free' = free + 1
  /\ UNCHANGED queue

\* Leaving the block: t ends, and the slot goes to the oldest waiter if any.
Release(t, end) ==
  \/ /\ queue = <<>>
     /\ stage' = [stage EXCEPT ![t] = end]
     /\ free' = free + 1
     /\ UNCHANGED queue
  \/ /\ queue # <<>>
     /\ stage' = [stage EXCEPT ![t] = end, ![Head(queue)] = "clone"]
     /\ queue' = Tail(queue)
     /\ UNCHANGED free

\* The coroutine returns r: the slot is freed and the record reported, unless
\* writing the trace line raises (then the line may or may not be in the file).
Finish(t, r) ==
  /\ \/ /\ Release(t, "done")
        /\ trace' = Append(trace, r)
        /\ records' = Append(records, r)
     \/ /\ Release(t, "raised")
        /\ trace' \in {trace, Append(trace, r)}
        /\ UNCHANGED records
  /\ UNCHANGED <<args, driver, arrived, agent, summary>>

Step(t, from, to) ==
  /\ stage[t] = from
  /\ stage' = [stage EXCEPT ![t] = to]
  /\ UNCHANGED <<args, driver, arrived, free, queue, trace, records, summary>>

-------------------------------------------------------------------------------
Init ==
  /\ args \in [sequential : BOOLEAN, timeout : BOOLEAN, max_in_flight : MaxInFlight]
  /\ driver = "arrive"
  /\ arrived = 0
  /\ stage = [t \in Tasks |-> "pending"]
  /\ free = Slots
  /\ queue = <<>>
  /\ agent = [t \in Tasks |-> "idle"]
  /\ trace = <<>>
  /\ records = <<>>
  /\ summary = NoSummary

\* The next Poisson arrival creates its task; sequentially the next task only
\* begins once the record of the previous one has been appended.
Arrive ==
  /\ driver = "arrive"
  /\ arrived < N
  /\ args.sequential => Len(records) = arrived
  /\ arrived' = arrived + 1
  /\ stage' = [stage EXCEPT ![arrived + 1] = "created"]
  /\ UNCHANGED <<args, driver, free, queue, agent, trace, records, summary>>

\* The event loop starts created tasks in the order they were created.
Start(t) ==
  /\ stage[t] = "created"
  /\ \A u \in 1..(t - 1) : stage[u] # "created"
  /\ Acquire(t)
  /\ UNCHANGED <<args, driver, arrived, agent, trace, records, summary>>

-------------------------------------------------------------------------------
(* _run_one.  Every call it awaits may raise.                               *)

Prepare(t) ==
  \/ Step(t, "clone", "session") /\ UNCHANGED agent
  \/ stage[t] = "clone" /\ Finish(t, Failed(t, "clone", FALSE, "none"))

\* A session exists and the prompt is rendered before the request goes out; an
\* exception of render_prompt is caught by no stage.
CreateSession(t) ==
  \/ Step(t, "session", "message") /\ UNCHANGED agent
  \/ stage[t] = "session" /\ Finish(t, Failed(t, "session", FALSE, "none"))
  \/ /\ stage[t] = "session"
     /\ Release(t, "raised")
     /\ UNCHANGED <<args, driver, arrived, agent, trace, records, summary>>

MessageReturns(t) ==
  /\ agent[t] = "ended"
  /\ Step(t, "message", "list")
  /\ UNCHANGED agent

\* Fault: a request that failed is treated like one that returned.
MessageFailureIgnored(t) ==
  /\ Step(t, "message", "list")
  /\ UNCHANGED agent

MessageFails(t) ==
  /\ stage[t] = "message"
  /\ Finish(t, Failed(t, "message", TRUE, "none"))

\* Fault: the timeout is reported at once, and again after the partial listing.
TimeoutReported(t) ==
  /\ args.timeout
  /\ stage[t] = "message"
  /\ stage' = [stage EXCEPT ![t] = "partial"]
  /\ trace' = Append(trace, Failed(t, "timeout", TRUE, "none"))
  /\ UNCHANGED <<args, driver, arrived, free, queue, agent, records, summary>>

\* wait_for gives up on the request; nothing tells the server to stop.
Timeout(t) ==
  /\ args.timeout
  /\ Step(t, "message", "partial")
  /\ UNCHANGED agent

\* _try_list_partial answers or gives up within its own 30 s.
ListPartial(t) ==
  /\ stage[t] = "partial"
  /\ \E messages \in {"none", "partial"} :
       Finish(t, Failed(t, "timeout", TRUE, messages))

ListMessages(t) ==
  /\ stage[t] = "list"
  /\ \/ Finish(t, Succeeded(t, "none", "all"))
     \/ Finish(t, Succeeded(t, "list", "none"))

-------------------------------------------------------------------------------
(* The OpenCode server: it begins the agent loop of a request it receives   *)
(* and ends it when the agent is through, or never.                         *)

AgentBegins(t) ==
  /\ stage[t] = "message"
  /\ agent[t] = "idle"
  /\ agent' = [agent EXCEPT ![t] = "running"]
  /\ UNCHANGED <<args, driver, arrived, stage, free, queue, trace, records, summary>>

AgentEnds(t) ==
  /\ agent[t] = "running"
  /\ agent' = [agent EXCEPT ![t] = "ended"]
  /\ UNCHANGED <<args, driver, arrived, stage, free, queue, trace, records, summary>>

-------------------------------------------------------------------------------
(* run() after the last arrival.                                            *)

LastArrival ==
  /\ driver = "arrive"
  /\ arrived = N
  /\ args.sequential => Len(records) = N
  /\ driver' = "gather"
  /\ UNCHANGED <<args, arrived, stage, free, queue, agent, trace, records, summary>>

\* Fault: gather(return_exceptions=True), so tasks that raised are passed over.
WriteSummaryAnyway ==
  /\ driver = "gather"
  /\ \A t \in Tasks : stage[t] \in {"done", "raised"}
  /\ driver' = "done"
  /\ summary' = Summarise(records)
  /\ UNCHANGED <<args, arrived, stage, free, queue, agent, trace, records>>

WriteSummary ==
  /\ driver = "gather"
  /\ \A t \in Tasks : stage[t] = "done"
  /\ driver' = "done"
  /\ summary' = Summarise(records)
  /\ UNCHANGED <<args, arrived, stage, free, queue, agent, trace, records>>

\* Fault: a task that failed ends the run, as a task that raised does.
AbortOnFailure ==
  /\ driver = IF args.sequential THEN "arrive" ELSE "gather"
  /\ \E i \in 1..Len(records) : ~records[i].success
  /\ driver' = "aborted"
  /\ stage' = [t \in Tasks |-> IF stage[t] \in InSlot \cup {"created", "waiting"}
                               THEN "cancelled" ELSE stage[t]]
  /\ free' = Slots
  /\ queue' = <<>>
  /\ UNCHANGED <<args, arrived, agent, trace, records, summary>>

\* An exception leaves run() where the task is awaited: at once when sequential,
\* at the gather otherwise.  asyncio.run then cancels whatever is unfinished; the
\* trace file is closed by then, so nothing more is recorded.
Abort ==
  /\ driver = IF args.sequential THEN "arrive" ELSE "gather"
  /\ \E t \in Tasks : stage[t] = "raised"
  /\ driver' = "aborted"
  /\ stage' = [t \in Tasks |-> IF stage[t] \in InSlot \cup {"created", "waiting"}
                               THEN "cancelled" ELSE stage[t]]
  /\ free' = Slots
  /\ queue' = <<>>
  /\ UNCHANGED <<args, arrived, agent, trace, records, summary>>

Client(t) ==
  \/ Start(t)
  \/ Prepare(t)
  \/ CreateSession(t)
  \/ MessageReturns(t)
  \/ MessageFails(t)
  \/ Timeout(t)
  \/ ListPartial(t)
  \/ ListMessages(t)

Next ==
  \/ Arrive
  \/ \E t \in Tasks : Client(t) \/ AgentBegins(t) \/ AgentEnds(t)
  \/ LastArrival
  \/ WriteSummary
  \/ Abort

(***************************************************************************)
(* The event loop never starves a ready coroutine, git and the session and *)
(* list calls return ("stages 1/2/4 are fast", runner.py), a set timeout   *)
(* fires, and a request reaches the server.  Nothing says an agent ends.   *)
(***************************************************************************)
Fairness ==
  /\ WF_vars(Arrive) /\ WF_vars(LastArrival) /\ WF_vars(WriteSummary) /\ WF_vars(Abort)
  /\ \A t \in Tasks :
       /\ WF_vars(Start(t) \/ Prepare(t) \/ CreateSession(t))
       /\ WF_vars(MessageReturns(t))
       /\ WF_vars(Timeout(t))
       /\ WF_vars(ListPartial(t) \/ ListMessages(t))
       /\ WF_vars(AgentBegins(t))

Spec == Init /\ [][Next]_vars
FairSpec == Spec /\ Fairness

-------------------------------------------------------------------------------
(* Properties *)

TypeOK ==
  /\ args \in [sequential : BOOLEAN, timeout : BOOLEAN, max_in_flight : MaxInFlight]
  /\ driver \in {"arrive", "gather", "done", "aborted"}
  /\ arrived \in 0..N
  /\ stage \in [Tasks -> Stages]
  /\ free \in Nat
  /\ queue \in Seq(Tasks)
  /\ agent \in [Tasks -> {"idle", "running", "ended"}]
  /\ trace \in Seq(Record)
  /\ records \in Seq(Record)
  /\ summary \in [count : Int, ok : Int]

\* No path through _run_one (a failure of any stage, a timeout, an exception it
\* does not catch, a cancellation) leaks a slot or frees one twice, and a slot is
\* never idle while a task waits for one.
NoSlotLost ==
  /\ free + Cardinality(Holders) = Slots
  /\ queue # <<>> => free = 0

\* Tasks get their slots in arrival order: the waiters are queued oldest first,
\* none is missing or listed twice, and a task that was served never overtook one
\* that arrived earlier.
Unserved == {"pending", "created", "waiting"}
ArrivalOrder ==
  /\ {queue[i] : i \in 1..Len(queue)} = {t \in Tasks : stage[t] = "waiting"}
  /\ \A i, j \in 1..Len(queue) : i < j => queue[i] < queue[j]
  /\ \A t, u \in Tasks : u < t /\ stage[t] \notin Unserved => stage[u] \notin Unserved

\* trace.jsonl holds exactly one line per task that finished, in the order of the
\* in-memory records, and at most one for a task whose report raised, so what is on
\* disk is usable whenever the run stops.
OneLinePerTask ==
  /\ \A i, j \in 1..Len(trace) : trace[i].task = trace[j].task => i = j
  /\ \A t \in Tasks :
       /\ stage[t] = "done" <=> \E i \in 1..Len(records) : records[i].task = t
       /\ stage[t] = "done" => \E i \in 1..Len(trace) : trace[i].task = t
  /\ \A i \in 1..Len(trace) : stage[trace[i].task] \in {"done", "raised"}

\* A line says what the server saw: success means the agent loop of that session
\* ended, a clone or session error means no agent ever ran, and a loop that still
\* runs without a client is one whose task timed out, failed or was cancelled.
HonestTrace ==
  /\ \A i \in 1..Len(trace) :
       /\ trace[i].success => agent[trace[i].task] = "ended"
       /\ trace[i].error \in {"clone", "session"} => agent[trace[i].task] = "idle"
  /\ \A t \in Tasks : agent[t] = "running" =>
       \/ stage[t] \in {"message", "partial", "raised", "cancelled"}
       \/ \E i \in 1..Len(trace) :
            trace[i].task = t /\ trace[i].error \in {"message", "timeout"}

\* summary.json is only written over a complete trace and counts what is in it.
SummaryCoversTrace ==
  summary # NoSummary =>
    /\ {trace[i].task : i \in 1..Len(trace)} = Tasks
    /\ summary = [count |-> N,
                  ok |-> Cardinality({i \in 1..Len(trace) : trace[i].success})]

\* The run keeps the promises of TaskLedger, with the slot holders as the tasks being
\* worked on, the records as its ledger and the tasks whose report raised as lost.
Lines == {[task |-> records[i].task, success |-> records[i].success] : i \in 1..Len(records)}
Lost == {t \in Tasks : stage[t] = "raised"}
Status == CASE driver = "done" -> "complete"
            [] driver = "aborted" -> "abandoned"
            [] OTHER -> "open"

Ledger == INSTANCE TaskLedger WITH
  Task <- Tasks, slots <- Slots, busy <- Holders,
  ledger <- Lines, lost <- Lost, status <- Status

RefinesLedger == Ledger!Spec

\* With a task timeout the run comes to an end even if agents hang for ever;
\* without one it does when no agent does.
Drains ==
  args.timeout \/ (\A t \in Tasks : []<>(agent[t] # "running"))
    => <>(driver \in {"done", "aborted"})

\* cli.py, --sequential: "Guarantees exactly one request in flight at all times".
OneAgentWhenSequential ==
  args.sequential => Cardinality({t \in Tasks : agent[t] = "running"}) <= 1
===============================================================================
