--------------------------------- MODULE Serving ---------------------------------
(* Requests of sessions on their way through dynamo's frontend and the vLLM workers, *)
(* prefill and then decode, and everything the testbed records of them: the          *)
(* SCHED_DELAY lines of dynamo-scheduling-log.patch in the worker logs, the          *)
(* frontend's "request completed" lines, the metrics scrape_vllm_metrics.py polls,   *)
(* the prompts of dynamo-prompt-dump.patch and the sessions' profile.  Dynamo and    *)
(* vLLM are external: they schedule as they like, and a request that was on a worker *)
(* when it died is sent again or given up.                                           *)
EXTENDS Prompts, FiniteSets

CONSTANTS
  Requests, Session, Before, Text,   \* a request's session, the request it follows or None, its prompt
  Workers, Role,                     \* a sequence of names, and "prefill" or "decode" for each
  Plans,                             \* [observer, requests, workers, crashes, until]: what is
                                     \* watched of which requests on which workers, in the
                                     \* order of the scraper's endpoints, how often these die,
                                     \* and when time stops
  Interval,                          \* of the scraper
  MaxNow, MaxTicks

VARIABLES
  plan, now,
  req,         \* [Requests -> state of a request]
  up, crashes,
  sched,       \* [worker -> its SCHED_DELAY lines]: testbed.sh appends to the log
  frontend,    \* the frontend's lines
  profile,     \* events of the sessions' profiles
  meters,      \* [worker -> bag of queue times observed since its start]
  tick, rows,  \* the scraper's tick under way, and what it wrote
  dump,        \* [worker -> prompts dumped by its processes]
  waited,      \* ghost: [request -> [role -> time in queues it got out of]]
  ever, born   \* ghosts: the bag over all of a worker's lives, and which life it is

servingVars == <<plan, now, req, up, crashes, sched, frontend, profile, meters,
                 tick, rows, dump, waited, ever, born>>
fleet == <<up, crashes, born>>
written == <<tick, rows>>

WorkerNames == ToSet(Workers)
Roles == {"prefill", "decode"}

\* The requests of a session of which the logs are kept follow one another.
InTurn(asked, turn) ==
  \A r, s \in asked : Session[r] = Session[s] /\ r # s =>
    /\ turn[r] # turn[s]
    /\ turn[r] < turn[s] =>
         /\ Before[s] \in asked /\ Before[s] # None /\ Session[Before[s]] = Session[s]
         /\ turn[r] <= turn[Before[s]] /\ turn[Before[s]] < turn[s]

\* load_workers ends the scraper when there is nothing to scrape.
ASSUME ServingAssumption ==
  /\ MaxNow \in Nat /\ None \notin Int
  /\ Workers \in Seq(WorkerNames) /\ Role \in [WorkerNames -> Roles]
  /\ \A p \in Plans :
       /\ p.requests \subseteq Requests /\ IsFiniteSet(p.requests)
       /\ p.observer = "logs" => \E turn \in [p.requests -> 1..Cardinality(p.requests)] :
                                  InTurn(p.requests, turn)
       /\ p.until \in 0..MaxNow
       /\ p.workers \in Seq(WorkerNames)
       /\ p.observer = "scraper" => p.workers # <<>>

Running == ToSet(plan.workers)
Watched == plan.observer
Fresh == [at |-> "new", worker |-> None, since |-> 0, from |-> 0, wait |-> None,
          first |-> None, late |-> FALSE]
NoneYet == [d \in 0..MaxNow |-> 0]

ServingInit ==
  /\ plan \in Plans
  /\ now = 0
  /\ req = [r \in Requests |-> Fresh]
  /\ up = [w \in WorkerNames |-> TRUE] /\ crashes = 0
  /\ sched = [w \in WorkerNames |-> <<>>]
  /\ frontend = <<>> /\ profile = <<>>
  /\ meters = [w \in WorkerNames |-> NoneYet]
  /\ tick = None /\ rows = <<>>
  /\ dump = [w \in WorkerNames |-> <<>>]
  /\ waited = [r \in Requests |-> [role \in Roles |-> 0]]
  /\ ever = [w \in WorkerNames |-> NoneYet] /\ born = [w \in WorkerNames |-> 1]

Pass ==
  /\ now < plan.until
  /\ now' = now + 1
  /\ UNCHANGED <<plan, req, fleet, sched, frontend, profile, meters, written,
                 dump, waited, ever>>

-------------------------------------------------------------------------------
(* The requests *)

Mine(s) == {r \in plan.requests : Session[r] = s}
Finished(r) == req[r].at = "done"

\* _dump_engine_prompt, just before the engine is asked; time.time() tells any two apart.
Dumped(r, w) ==
  LET n == Sum([i \in 1..Len(Workers) |-> Len(dump[Workers[i]])])
      rec == [ts |-> n + 1, rid |-> r, role |-> Role[w], text |-> Text[r]]
  IN  IF Watched = "prompts" THEN [dump EXCEPT ![w] = Append(@, rec)] ELSE dump

Queued(q, w) == [q EXCEPT !.at = "queued", !.worker = w, !.since = now, !.wait = None]

\* The profile, and what the frontend remembers, is kept for the logs only.
Emitted(s, ev) ==
  IF Watched = "logs" THEN Append(profile, [sid |-> s, ts |-> now, ev |-> ev]) ELSE profile
Clock == IF Watched = "logs" THEN now ELSE 0

\* The session asks once it has the previous answer.
Arrive(r, w) ==
  /\ req[r].at = "new"
  /\ Before[r] # None => Finished(Before[r])
  /\ up[w] /\ Role[w] = "prefill"
  /\ req' = [req EXCEPT ![r] = Queued([@ EXCEPT !.from = Clock], w)]
  /\ dump' = Dumped(r, w)
  /\ profile' = IF \A o \in Mine(Session[r]) : req[o].at = "new"
                THEN Emitted(Session[r], "query.start") ELSE profile
  /\ UNCHANGED <<plan, now, fleet, sched, frontend, meters, written, waited, ever>>

Schedule(r) ==
  /\ req[r].at = "queued"
  /\ req' = [req EXCEPT ![r].at = "running", ![r].wait = now - req[r].since]
  /\ UNCHANGED <<plan, now, fleet, sched, frontend, profile, meters, written,
                 dump, waited, ever>>

\* The first token reaches the frontend from the decode worker.
FirstToken(r) ==
  /\ req[r].at = "running" /\ Role[req[r].worker] = "decode" /\ req[r].first = None
  /\ Watched = "logs"
  /\ req' = [req EXCEPT ![r].first = now]
  /\ UNCHANGED <<plan, now, fleet, sched, frontend, profile, meters, written,
                 dump, waited, ever>>

\* _log_scheduling_delay at the end of the request on its worker, and the engine's own
\* histogram of queue times.
SchedLine(r) == [rid |-> r, role |-> Role[req[r].worker], wait |-> req[r].wait]
Counted(bags, r) == [bags EXCEPT ![req[r].worker][req[r].wait] = @ + 1]
Logged(r) ==
  LET w == req[r].worker IN
  /\ sched' = IF Watched = "logs" THEN [sched EXCEPT ![w] = Append(@, SchedLine(r))] ELSE sched
  /\ waited' = IF Watched = "logs" THEN [waited EXCEPT ![r][Role[w]] = @ + req[r].wait]
               ELSE waited
  /\ meters' = IF Watched = "scraper" THEN Counted(meters, r) ELSE meters
  /\ ever' = IF Watched = "scraper" THEN Counted(ever, r) ELSE ever

\* Prefill is done, and decode queues the same request.
HandOver(r, w) ==
  /\ req[r].at = "running" /\ Role[req[r].worker] = "prefill"
  /\ up[w] /\ Role[w] = "decode"
  /\ Logged(r)
  /\ req' = [req EXCEPT ![r] = Queued(@, w)]
  /\ dump' = Dumped(r, w)
  /\ UNCHANGED <<plan, now, fleet, frontend, profile, written>>

\* The frontend's line, and the end of the session's query with its last request.
Completed(r, first, status) ==
  LET q == req[r]
      line == [rid |-> r, elapsed |-> now - q.from, status |-> status, late |-> q.late,
               ttft |-> IF first = None THEN None ELSE first - q.from]
      over == \A o \in Mine(Session[r]) \ {r} : Finished(o)
  IN  /\ frontend' = IF Watched = "logs" THEN Append(frontend, line) ELSE frontend
      /\ req' = [req EXCEPT ![r] = [Fresh EXCEPT !.at = "done"]]
      /\ profile' = Emitted(Session[r], IF over THEN "query.end" ELSE "llm.end")

Complete(r) ==
  /\ req[r].at = "running" /\ Role[req[r].worker] = "decode"
  /\ Watched = "logs" => req[r].first # None
  /\ Logged(r)
  /\ Completed(r, req[r].first, "success")
  /\ UNCHANGED <<plan, now, fleet, written, dump>>

\* What was on a dead worker is prefilled again, or answered with an error.
Resend(r, w) ==
  /\ req[r].at = "lost"
  /\ up[w] /\ Role[w] = "prefill"
  /\ req' = [req EXCEPT ![r] = Queued([@ EXCEPT !.late = req[r].first # None], w)]
  /\ dump' = Dumped(r, w)
  /\ UNCHANGED <<plan, now, fleet, sched, frontend, profile, meters, written,
                 waited, ever>>

GiveUp(r) ==
  /\ req[r].at = "lost"
  /\ Completed(r, req[r].first, "error")
  /\ UNCHANGED <<plan, now, fleet, sched, meters, written, dump, waited, ever>>

-------------------------------------------------------------------------------
(* The workers *)

Crash(w) ==
  /\ up[w] /\ crashes < plan.crashes
  /\ up' = [up EXCEPT ![w] = FALSE] /\ crashes' = crashes + 1
  /\ req' = [r \in Requests |->
               IF req[r].worker = w /\ req[r].at \in {"queued", "running"}
               THEN [req[r] EXCEPT !.at = "lost", !.worker = None, !.wait = None, !.since = 0]
               ELSE req[r]]
  /\ meters' = [meters EXCEPT ![w] = NoneYet]
  /\ UNCHANGED <<plan, now, born, sched, frontend, profile, written, dump,
                 waited, ever>>

\* The new process counts from zero; its log is appended to the old one.
Restart(w) ==
  /\ ~up[w]
  /\ up' = [up EXCEPT ![w] = TRUE] /\ born' = [born EXCEPT ![w] = @ + 1]
  /\ UNCHANGED <<plan, now, req, crashes, sched, frontend, profile, meters,
                 written, dump, waited, ever>>

-------------------------------------------------------------------------------
(* The scraper *)

Ticks == IF rows = <<>> THEN 0 ELSE Len(rows) \div Len(plan.workers)

\* run_scraper: a tick takes its time stamp once ...
BeginTick ==
  /\ Watched = "scraper" /\ tick = None /\ Ticks < MaxTicks
  /\ rows # <<>> => now >= Last(rows).ts + Interval
  /\ tick' = [ts |-> now, next |-> 1]
  /\ UNCHANGED <<plan, now, req, fleet, sched, frontend, profile, meters, rows,
                 dump, waited, ever>>

\* ... and asks one worker after the other; one that does not answer gets a row
\* without metrics.  (seen is what it wrote; ever and born are ghosts.)
ScrapeOne ==
  /\ tick # None
  /\ LET w == plan.workers[tick.next] IN
     rows' = Append(rows, [ts |-> tick.ts, worker |-> w, role |-> Role[w], ok |-> up[w],
                           seen |-> meters[w],
                           ever |-> ever[w], born |-> born[w]])
  /\ tick' = IF tick.next = Len(plan.workers) THEN None ELSE [tick EXCEPT !.next = @ + 1]
  /\ UNCHANGED <<plan, now, req, fleet, sched, frontend, profile, meters, dump,
                 waited, ever>>

-------------------------------------------------------------------------------
ServingNext ==
  \/ Pass
  \/ \E r \in plan.requests, w \in Running : Arrive(r, w) \/ HandOver(r, w) \/ Resend(r, w)
  \/ \E r \in plan.requests : Schedule(r) \/ FirstToken(r) \/ Complete(r) \/ GiveUp(r)
  \/ \E w \in Running : Crash(w) \/ Restart(w)
  \/ BeginTick \/ ScrapeOne

ServingSpec == ServingInit /\ [][ServingNext]_servingVars
===============================================================================
