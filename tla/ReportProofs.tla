------------------------------ MODULE ReportProofs ------------------------------
(***************************************************************************)
(* That what is reported after a run is what happened in it.               *)
(*                                                                         *)
(* Metrics, for any workers, plans, bounds and quantiles.  Rows are taken  *)
(* of one worker after the other while requests are served and workers die *)
(* and count from zero again: a later row of a worker Follows an earlier   *)
(* one, and so does what the worker would answer now follow its last row.  *)
(* The first and the last row of a window are such a pair, whichever rows  *)
(* are missing between them, and so a delta of the exposed counters is one *)
(* of the counts kept over all lives.  Sums over bags carry this to _count *)
(* and _sum, and the value of a rank to the bucket a quantile is read off. *)
(*                                                                         *)
(* Logs, for any requests, sessions and workers.  The lines of a request   *)
(* in the worker logs add up to what it waited (Summed), and that fits     *)
(* into the time since it was asked for (Timely), and so into what the     *)
(* frontend writes of it (Fits).  The requests of a session are asked for  *)
(* one after the other (Orderly), each when those before it are over, and  *)
(* so what they took fits between its first event and its last             *)
(* (Sequential).  Sums by request, worker and role carry this to the       *)
(* scripts' joins.                                                         *)
(*                                                                         *)
(* The SWE-agent comparison, for any samples, --out directories and        *)
(* numbers of invocations.  A line of the trace says what its invocation   *)
(* left in the workspace, and stays true (Faithful) although workspaces    *)
(* change under it: whatever changes one is the invocation that runs,      *)
(* which prepared it and so has put its number there (PreparedByIt), and   *)
(* it writes its line for a sample after its last change of it (Ahead).    *)
(* The judge holds lines that the trace may no longer have; they are kept  *)
(* true in the same way, until it has looked at the workspace, after which *)
(* nothing it noted can change.                                            *)
(***************************************************************************)
EXTENDS ServingAnalysis, Harness, SumTheorems, SequenceTheorems, WellFoundedInduction, TLAPS

-------------------------------------------------------------------------------
(* What was scraped *)

\* Queue times counted, the state of a request, a row of the scraper.
Bag == [0..MaxNow -> Nat]
RequestState ==
  [at : {"new", "queued", "running", "lost", "done"}, worker : WorkerNames \cup {None},
   since : Nat, from : Nat, wait : 0..MaxNow \cup {None}, first : Nat \cup {None},
   late : BOOLEAN]
Scrape ==
  [ts : Nat, worker : WorkerNames, role : Roles, ok : BOOLEAN, seen : Bag, ever : Bag,
   born : Nat]

ServingTyped ==
  /\ plan \in Plans /\ now \in 0..plan.until
  /\ req \in [Requests -> RequestState]
  /\ up \in [WorkerNames -> BOOLEAN] /\ born \in [WorkerNames -> Nat]
  /\ meters \in [WorkerNames -> Bag] /\ ever \in [WorkerNames -> Bag]
  /\ rows \in Seq(Scrape)
  /\ tick = None \/ (tick \in [ts : Nat, next : Nat] /\ tick.next \in 1..Len(plan.workers))

\* A request is on a worker that runs, and has waited no longer than time went on; a dead
\* worker counts nothing.
OnLive(r) ==
  /\ req[r].at \in {"queued", "running"} => req[r].worker \in WorkerNames /\ up[req[r].worker]
  /\ req[r].at = "queued" => req[r].since \in 0..now
  /\ req[r].at = "running" => req[r].wait \in 0..MaxNow
Living ==
  /\ \A r \in Requests : OnLive(r)
  /\ \A w \in WorkerNames : ~up[w] => meters[w] = NoneYet

\* A later reading b of a worker shows, beside what it did between a and b, what a showed
\* if it is of the same life, and no more than what it did since a if not.
Follows(a, b) ==
  /\ a.born <= b.born
  /\ \A d \in 0..MaxNow :
       /\ a.ever[d] <= b.ever[d]
       /\ a.born = b.born => b.seen[d] - a.seen[d] = b.ever[d] - a.ever[d]
       /\ a.born < b.born => b.seen[d] <= b.ever[d] - a.ever[d]

\* What a worker would answer now.
Reading(w) == [seen |-> meters[w], ever |-> ever[w], born |-> born[w]]
Scraped(row) ==
  LET w == row.worker IN
  /\ row.born <= born[w] /\ \A d \in 0..MaxNow : row.ever[d] <= ever[w][d]
  /\ up[w] => Follows(row, Reading(w))
ScrapedInv ==
  /\ \A i \in DOMAIN rows : rows[i].ok => Scraped(rows[i])
  /\ \A i, j \in DOMAIN rows :
       i < j /\ rows[i].worker = rows[j].worker /\ rows[i].ok /\ rows[j].ok
         => Follows(rows[i], rows[j])

ServingInv == ServingTyped /\ Living /\ ScrapedInv

LEMMA Given ==
  /\ MaxNow \in Nat /\ None \notin Int /\ \A w \in WorkerNames : Role[w] \in Roles
  /\ \A p \in Plans :
       /\ p.until \in 0..MaxNow /\ p.requests \subseteq Requests
       /\ p.workers \in Seq(WorkerNames) /\ ToSet(p.workers) \subseteq WorkerNames
       /\ p.observer = "scraper" => p.workers # <<>>
  BY ServingAssumption DEF ToSet

\* Counting a queue time of a worker once more.
OnceMore(bags, w, d) == [bags EXCEPT ![w][d] = @ + 1]
LEMMA OneMore ==
  ASSUME NEW bags \in [WorkerNames -> Bag], NEW w \in WorkerNames, NEW d \in 0..MaxNow,
         NEW m, m = OnceMore(bags, w, d)
  PROVE  /\ m \in [WorkerNames -> Bag]
         /\ \A v \in WorkerNames \ {w} : m[v] = bags[v]
         /\ \A e \in 0..MaxNow : m[w][e] = IF e = d THEN bags[w][e] + 1 ELSE bags[w][e]
  <1>1. bags[w] \in [0..MaxNow -> Nat]
    BY DEF Bag
  <1> DEFINE b == [bags[w] EXCEPT ![d] = @ + 1]
  <1>2. b \in [0..MaxNow -> Nat]
    BY <1>1
  <1>3. \A e \in 0..MaxNow : b[e] = IF e = d THEN bags[w][e] + 1 ELSE bags[w][e]
    BY <1>1
  <1>4. m = [bags EXCEPT ![w] = b]
    BY DEF OnceMore
  <1> HIDE DEF b
  <1>5. b \in Bag
    BY <1>2 DEF Bag
  <1>6. QED
    BY <1>3, <1>4, <1>5

\* A request in a state that is in order.
LEMMA OneRequest ==
  ASSUME ServingTyped, Living, NEW r \in Requests, NEW q \in RequestState,
         req' = [req EXCEPT ![r] = q], up' = up, now' = now,
         q.at \in {"queued", "running"} => q.worker \in WorkerNames /\ up[q.worker],
         q.at = "queued" => q.since \in 0..now, q.at = "running" => q.wait \in 0..MaxNow
  PROVE  req' \in [Requests -> RequestState] /\ \A o \in Requests : OnLive(o)'
  <1>1. req' \in [Requests -> RequestState]
    BY DEF ServingTyped
  <1>2. ASSUME NEW o \in Requests
        PROVE  OnLive(o)'
    <2>1. CASE o = r
      <3>1. req'[o] = q
        BY <2>1 DEF ServingTyped
      <3>2. QED
        BY <3>1 DEF OnLive
    <2>2. CASE o # r
      <3>1. req'[o] = req[o]
        BY <2>2 DEF ServingTyped
      <3>2. QED
        BY <3>1 DEF OnLive, Living
    <2>3. QED
      BY <2>1, <2>2
  <1>3. QED
    BY <1>1, <1>2

LEMMA QueuedOn ==
  ASSUME ServingTyped, NEW q \in RequestState, NEW w \in WorkerNames
  PROVE  /\ Queued(q, w) \in RequestState
         /\ Queued(q, w).at = "queued" /\ Queued(q, w).worker = w /\ Queued(q, w).since = now
  <1>1. now \in Nat
    BY Given DEF ServingTyped
  <1>2. QED
    BY <1>1 DEF Queued, RequestState

\* What a step means for the workers and what was scraped of them: nothing,
Calm == UNCHANGED <<fleet, meters, ever, rows>>
\* or a worker that runs counts a queue time, once in its life and once over all of them.
Counts(w, d) ==
  /\ up[w] /\ UNCHANGED <<fleet, rows>>
  /\ meters' = OnceMore(meters, w, d) /\ ever' = OnceMore(ever, w, d)

LEMMA CountsOrNot ==
  ASSUME ServingInv, NEW r \in Requests, req[r].at = "running", Logged(r), UNCHANGED <<fleet, rows>>
  PROVE  Calm \/ \E w \in WorkerNames, d \in 0..MaxNow : Counts(w, d)
  <1>1. req[r].worker \in WorkerNames /\ up[req[r].worker] /\ req[r].wait \in 0..MaxNow
    BY DEF ServingInv, Living, OnLive
  <1>2. CASE Watched = "scraper"
    BY <1>1, <1>2 DEF Logged, Counted, Counts, OnceMore
  <1>3. CASE Watched # "scraper"
    BY <1>3 DEF Logged, Calm
  <1>4. QED
    BY <1>2, <1>3

\* A request that is asked for, sent on or sent again waits on a worker that runs.
LEMMA Waiting ==
  ASSUME ServingInv, NEW r \in Requests, NEW w \in WorkerNames, up[w], NEW q \in RequestState,
         req' = [req EXCEPT ![r] = Queued(q, w)], up' = up, now' = now
  PROVE  req' \in [Requests -> RequestState] /\ \A o \in Requests : OnLive(o)'
  <1>1. /\ Queued(q, w) \in RequestState
        /\ Queued(q, w).at = "queued" /\ Queued(q, w).worker = w /\ Queued(q, w).since = now
    BY QueuedOn DEF ServingInv
  <1>2. now \in Nat /\ now \in 0..now
    BY Given DEF ServingInv, ServingTyped
  <1>3. QED
    BY <1>1, <1>2, OneRequest DEF ServingInv

LEMMA RequestsMove ==
  ASSUME ServingInv, NEW r \in plan.requests, NEW w,
         \/ w \in Running /\ (Arrive(r, w) \/ HandOver(r, w) \/ Resend(r, w))
         \/ Schedule(r) \/ FirstToken(r) \/ Complete(r) \/ GiveUp(r)
  PROVE  /\ UNCHANGED <<plan, now, fleet, written>>
         /\ req' \in [Requests -> RequestState] /\ \A o \in Requests : OnLive(o)'
         /\ Calm \/ \E v \in WorkerNames, d \in 0..MaxNow : Counts(v, d)
  <1>1. r \in Requests /\ (w \in Running => w \in WorkerNames)
    BY Given DEF ServingInv, ServingTyped, Running
  <1>2. req[r] \in RequestState /\ now \in Nat /\ now <= MaxNow
    BY <1>1, Given DEF ServingInv, ServingTyped
  <1>3. CASE w \in Running /\ Arrive(r, w)
    <2>1. [req[r] EXCEPT !.from = Clock] \in RequestState
      BY <1>2 DEF RequestState, Clock
    <2>2. req' = [req EXCEPT ![r] = Queued([req[r] EXCEPT !.from = Clock], w)]
      BY <1>1, <1>3 DEF Arrive, ServingInv, ServingTyped
    <2>3. QED
      BY <1>1, <1>3, <2>1, <2>2, Waiting DEF Arrive, Calm, written, fleet
  <1>4. CASE w \in Running /\ HandOver(r, w)
    <2>1. req' = [req EXCEPT ![r] = Queued(req[r], w)]
      BY <1>1, <1>4 DEF HandOver, ServingInv, ServingTyped
    <2>2. req[r].at = "running" /\ Logged(r) /\ UNCHANGED <<fleet, rows>>
      BY <1>4 DEF HandOver, written
    <2>3. QED
      BY <1>1, <1>2, <1>4, <2>1, <2>2, Waiting, CountsOrNot DEF HandOver, written, fleet
  <1>5. CASE w \in Running /\ Resend(r, w)
    <2>1. [req[r] EXCEPT !.late = req[r].first # None] \in RequestState
      BY <1>2 DEF RequestState
    <2>2. req' = [req EXCEPT ![r] = Queued([req[r] EXCEPT !.late = req[r].first # None], w)]
      BY <1>1, <1>5 DEF Resend, ServingInv, ServingTyped
    <2>3. QED
      BY <1>1, <1>5, <2>1, <2>2, Waiting DEF Resend, Calm, written, fleet
  <1>6. CASE Schedule(r)
    <2> DEFINE q == [req[r] EXCEPT !.at = "running", !.wait = now - req[r].since]
    <2>1. /\ req[r].at = "queued" /\ req[r].since \in 0..now
          /\ req[r].worker \in WorkerNames /\ up[req[r].worker]
      BY <1>1, <1>6 DEF Schedule, ServingInv, Living, OnLive
    <2>2. now - req[r].since \in 0..MaxNow
      BY <1>2, <2>1, Given
    <2>3. q \in RequestState /\ q.at = "running" /\ q.worker = req[r].worker /\ q.wait \in 0..MaxNow
      BY <1>2, <2>2 DEF RequestState
    <2>4. req' = [req EXCEPT ![r] = q]
      BY <1>1, <1>6 DEF Schedule, ServingInv, ServingTyped
    <2> HIDE DEF q
    <2>5. UNCHANGED <<plan, now, fleet, written>> /\ Calm
      BY <1>6 DEF Schedule, Calm, written, fleet
    <2>6. QED
      BY <1>1, <2>1, <2>3, <2>4, <2>5, OneRequest DEF ServingInv, fleet
  <1>7. CASE FirstToken(r)
    <2> DEFINE q == [req[r] EXCEPT !.first = now]
    <2>1. q \in RequestState /\ q.at = req[r].at /\ q.worker = req[r].worker
          /\ q.since = req[r].since /\ q.wait = req[r].wait
      BY <1>2 DEF RequestState
    <2>2. req' = [req EXCEPT ![r] = q]
      BY <1>1, <1>7 DEF FirstToken, ServingInv, ServingTyped
    <2> HIDE DEF q
    <2>3. UNCHANGED <<plan, now, fleet, written>> /\ Calm
      BY <1>7 DEF FirstToken, Calm, written, fleet
    <2>4. OnLive(r)
      BY <1>1 DEF ServingInv, Living
    <2>5. QED
      BY <1>1, <2>1, <2>2, <2>3, <2>4, OneRequest DEF ServingInv, OnLive, fleet
  <1>8. ASSUME \E first, status : Completed(r, first, status), UNCHANGED <<now, up>>
        PROVE  req' \in [Requests -> RequestState] /\ \A o \in Requests : OnLive(o)'
    <2> DEFINE q == [Fresh EXCEPT !.at = "done"]
    <2>1. q \in RequestState /\ q.at = "done"
      BY DEF Fresh, RequestState
    <2>2. req' = [req EXCEPT ![r] = q]
      BY <1>8 DEF Completed
    <2> HIDE DEF q
    <2>3. QED
      BY <1>1, <1>8, <2>1, <2>2, OneRequest DEF ServingInv
  <1>9. CASE Complete(r)
    <2>1. req[r].at = "running" /\ Logged(r) /\ UNCHANGED <<plan, now, fleet, written>>
      BY <1>9 DEF Complete
    <2>2. UNCHANGED <<fleet, rows, now, up>>
      BY <2>1 DEF written, fleet
    <2>3. QED
      BY <1>1, <1>8, <1>9, <2>1, <2>2, CountsOrNot DEF Complete
  <1>10. CASE GiveUp(r)
    <2>1. UNCHANGED <<plan, now, fleet, written>> /\ Calm /\ up' = up
      BY <1>10 DEF GiveUp, Calm, written, fleet
    <2>2. QED
      BY <1>8, <1>10, <2>1 DEF GiveUp
  <1>11. QED
    BY <1>3, <1>4, <1>5, <1>6, <1>7, <1>9, <1>10

\* Bags by their counts.
LEMMA MeterTyped ==
  ASSUME ServingTyped, NEW w \in WorkerNames
  PROVE  /\ \A d \in 0..MaxNow : meters[w][d] \in Nat /\ ever[w][d] \in Nat
         /\ born[w] \in Nat
  BY DEF ServingTyped, Bag

LEMMA RowTyped ==
  ASSUME ServingTyped, NEW i \in DOMAIN rows
  PROVE  /\ rows[i] \in Scrape /\ rows[i].worker \in WorkerNames /\ rows[i].born \in Nat
         /\ \A d \in 0..MaxNow : rows[i].seen[d] \in Nat /\ rows[i].ever[d] \in Nat
  <1>1. rows[i] \in Scrape
    BY DEF ServingTyped
  <1>2. rows[i].seen \in Bag /\ rows[i].ever \in Bag
    BY <1>1 DEF Scrape
  <1>3. QED
    BY <1>1, <1>2 DEF Scrape, Bag

LEMMA CountsKeep ==
  ASSUME ServingInv, NEW w \in WorkerNames, NEW d \in 0..MaxNow, Counts(w, d)
  PROVE  /\ meters' \in [WorkerNames -> Bag] /\ ever' \in [WorkerNames -> Bag]
         /\ \A v \in WorkerNames : ~up'[v] => meters'[v] = NoneYet
         /\ ScrapedInv'
  <1>1. /\ meters' \in [WorkerNames -> Bag] /\ ever' \in [WorkerNames -> Bag]
        /\ \A v \in WorkerNames \ {w} : meters'[v] = meters[v] /\ ever'[v] = ever[v]
        /\ \A e \in 0..MaxNow :
             /\ meters'[w][e] = IF e = d THEN meters[w][e] + 1 ELSE meters[w][e]
             /\ ever'[w][e] = IF e = d THEN ever[w][e] + 1 ELSE ever[w][e]
    <2>1. meters \in [WorkerNames -> Bag] /\ ever \in [WorkerNames -> Bag]
      BY DEF ServingInv, ServingTyped
    <2>2. meters' = OnceMore(meters, w, d) /\ ever' = OnceMore(ever, w, d)
      BY DEF Counts
    <2>3. QED
      BY <2>1, <2>2, OneMore
  <1>2. up' = up /\ born' = born /\ rows' = rows /\ up[w]
    BY DEF Counts, fleet
  <1>3. \A v \in WorkerNames : ~up'[v] => meters'[v] = NoneYet
    BY <1>1, <1>2 DEF ServingInv, Living
  <1>4. ASSUME NEW i \in DOMAIN rows, rows[i].ok
        PROVE  Scraped(rows[i])'
    <2>1. Scraped(rows[i]) /\ rows[i].worker \in WorkerNames
      BY <1>4, RowTyped DEF ServingInv, ScrapedInv
    <2>2. CASE rows[i].worker = w
      <3>1. ASSUME NEW e \in 0..MaxNow
            PROVE  /\ rows[i].ever[e] <= ever'[w][e]
                   /\ rows[i].born = born[w] =>
                        meters'[w][e] - rows[i].seen[e] = ever'[w][e] - rows[i].ever[e]
                   /\ rows[i].born < born[w] => meters'[w][e] <= ever'[w][e] - rows[i].ever[e]
        <4>1. /\ rows[i].ever[e] \in Nat /\ rows[i].seen[e] \in Nat
              /\ meters[w][e] \in Nat /\ ever[w][e] \in Nat
          BY RowTyped, MeterTyped DEF ServingInv
        <4>2. /\ rows[i].ever[e] <= ever[w][e]
              /\ rows[i].born = born[w] =>
                   meters[w][e] - rows[i].seen[e] = ever[w][e] - rows[i].ever[e]
              /\ rows[i].born < born[w] => meters[w][e] <= ever[w][e] - rows[i].ever[e]
          BY <1>2, <2>1, <2>2 DEF Scraped, Follows, Reading
        <4>3. QED
          BY <1>1, <4>1, <4>2
      <3>2. QED
        BY <1>2, <2>1, <2>2, <3>1 DEF Scraped, Follows, Reading
    <2>3. CASE rows[i].worker # w
      BY <1>1, <1>2, <2>1, <2>3 DEF Scraped, Follows, Reading
    <2>4. QED
      BY <2>2, <2>3
  <1>5. ScrapedInv'
    BY <1>2, <1>4 DEF ServingInv, ScrapedInv
  <1>6. QED
    BY <1>1, <1>3, <1>5

LEMMA CalmKeeps ==
  ASSUME ServingInv, Calm
  PROVE  /\ meters' \in [WorkerNames -> Bag] /\ ever' \in [WorkerNames -> Bag]
         /\ \A v \in WorkerNames : ~up'[v] => meters'[v] = NoneYet
         /\ ScrapedInv'
  <1>1. up' = up /\ born' = born /\ meters' = meters /\ ever' = ever /\ rows' = rows
    BY DEF Calm, fleet
  <1>2. QED
    BY <1>1 DEF ServingInv, ServingTyped, Living, ScrapedInv, Scraped, Follows, Reading

\* A dead worker has no reading,
LEMMA CrashKeeps ==
  ASSUME ServingInv, NEW w \in Running, Crash(w)
  PROVE  ServingInv'
  <1>1. w \in WorkerNames
    BY Given DEF ServingInv, ServingTyped, Running
  <1>2. /\ up' \in [WorkerNames -> BOOLEAN] /\ ~up'[w]
        /\ \A v \in WorkerNames \ {w} : up'[v] = up[v]
    BY <1>1 DEF Crash, ServingInv, ServingTyped
  <1>3. NoneYet \in Bag
    BY DEF NoneYet, Bag
  <1>4. /\ meters' \in [WorkerNames -> Bag] /\ meters'[w] = NoneYet
        /\ \A v \in WorkerNames \ {w} : meters'[v] = meters[v]
    BY <1>1, <1>3 DEF Crash, ServingInv, ServingTyped
  <1>5. UNCHANGED <<plan, now, born, rows, tick, ever>>
    BY DEF Crash, written
  <1>6. ASSUME NEW r \in Requests
        PROVE  req'[r] \in RequestState /\ OnLive(r)'
    <2> DEFINE lost == [req[r] EXCEPT !.at = "lost", !.worker = None, !.wait = None, !.since = 0]
    <2>1. req[r] \in RequestState /\ OnLive(r)
      BY DEF ServingInv, ServingTyped, Living
    <2>2. lost \in RequestState /\ lost.at = "lost"
      BY <2>1 DEF RequestState
    <2>3. req'[r] = IF req[r].worker = w /\ req[r].at \in {"queued", "running"} THEN lost ELSE req[r]
      BY DEF Crash
    <2> HIDE DEF lost
    <2>4. CASE req[r].worker = w /\ req[r].at \in {"queued", "running"}
      BY <2>2, <2>3, <2>4 DEF OnLive
    <2>5. CASE ~(req[r].worker = w /\ req[r].at \in {"queued", "running"})
      <3>1. req'[r] = req[r]
        BY <2>3, <2>5
      <3>2. req[r].at \in {"queued", "running"} => up'[req[r].worker]
        BY <1>2, <2>1, <2>5 DEF OnLive
      <3>3. QED
        BY <1>5, <2>1, <3>1, <3>2 DEF OnLive
    <2>6. QED
      BY <2>4, <2>5
  <1>7. req' \in [Requests -> RequestState]
    BY <1>6 DEF Crash
  <1>8. ServingTyped' /\ Living'
    BY <1>2, <1>4, <1>5, <1>6, <1>7 DEF ServingInv, ServingTyped, Living
  <1>9. ASSUME NEW i \in DOMAIN rows, rows[i].ok
        PROVE  Scraped(rows[i])'
    <2>1. Scraped(rows[i]) /\ rows[i].worker \in WorkerNames
      BY <1>9, RowTyped DEF ServingInv, ScrapedInv
    <2>2. CASE rows[i].worker = w
      BY <1>2, <1>5, <2>1, <2>2 DEF Scraped
    <2>3. CASE rows[i].worker # w
      BY <1>2, <1>4, <1>5, <2>1, <2>3 DEF Scraped, Follows, Reading
    <2>4. QED
      BY <2>2, <2>3
  <1>10. ScrapedInv'
    BY <1>5, <1>9 DEF ServingInv, ScrapedInv
  <1>11. QED
    BY <1>8, <1>10 DEF ServingInv

\* and one that was started again counts from zero in a new life.
LEMMA RestartKeeps ==
  ASSUME ServingInv, NEW w \in Running, Restart(w)
  PROVE  ServingInv'
  <1>1. w \in WorkerNames
    BY Given DEF ServingInv, ServingTyped, Running
  <1>2. /\ up' \in [WorkerNames -> BOOLEAN] /\ up'[w] /\ ~up[w]
        /\ \A v \in WorkerNames \ {w} : up'[v] = up[v]
    BY <1>1 DEF Restart, ServingInv, ServingTyped
  <1>3. /\ born' \in [WorkerNames -> Nat] /\ born'[w] = born[w] + 1
        /\ \A v \in WorkerNames \ {w} : born'[v] = born[v]
    BY <1>1 DEF Restart, ServingInv, ServingTyped
  <1>4. UNCHANGED <<plan, now, req, meters, rows, tick, ever>>
    BY DEF Restart, written
  <1>5. ServingTyped' /\ Living'
    BY <1>2, <1>3, <1>4 DEF ServingInv, ServingTyped, Living, OnLive
  <1>6. ASSUME NEW i \in DOMAIN rows, rows[i].ok
        PROVE  Scraped(rows[i])'
    <2>1. Scraped(rows[i]) /\ rows[i].worker \in WorkerNames
      BY <1>6, RowTyped DEF ServingInv, ScrapedInv
    <2>2. CASE rows[i].worker = w
      <3>1. rows[i].born < born'[w] /\ rows[i].born <= born'[w] /\ rows[i].born # born'[w]
        BY <1>1, <1>3, <2>1, <2>2, RowTyped, MeterTyped DEF ServingInv, Scraped
      <3>2. ASSUME NEW d \in 0..MaxNow
            PROVE  rows[i].ever[d] <= ever[w][d] /\ meters[w][d] <= ever[w][d] - rows[i].ever[d]
        <4>1. rows[i].ever[d] <= ever[w][d] /\ rows[i].ever[d] \in Nat /\ ever[w][d] \in Nat
          BY <1>1, <2>1, <2>2, RowTyped, MeterTyped DEF ServingInv, Scraped
        <4>2. meters[w][d] = 0
          BY <1>1, <1>2 DEF ServingInv, Living, NoneYet
        <4>3. QED
          BY <4>1, <4>2
      <3>3. QED
        BY <1>4, <2>2, <3>1, <3>2 DEF Scraped, Follows, Reading
    <2>3. CASE rows[i].worker # w
      BY <1>2, <1>3, <1>4, <2>1, <2>3 DEF Scraped, Follows, Reading
    <2>4. QED
      BY <2>2, <2>3
  <1>7. ScrapedInv'
    BY <1>4, <1>6 DEF ServingInv, ScrapedInv
  <1>8. QED
    BY <1>5, <1>7 DEF ServingInv

\* The scraper writes down what the next worker answers.
LEMMA ScrapeKeeps ==
  ASSUME ServingInv, ScrapeOne
  PROVE  ServingInv'
  <1>1. PICK w : w = plan.workers[tick.next]
    OBVIOUS
  <1>2. tick.ts \in Nat /\ tick.next \in Nat /\ tick.next \in 1..Len(plan.workers)
    BY DEF ScrapeOne, ServingInv, ServingTyped
  <1>3. plan.workers \in Seq(WorkerNames) /\ Len(plan.workers) \in Nat
    BY Given DEF ServingInv, ServingTyped
  <1>4. w \in WorkerNames
    BY <1>1, <1>2, <1>3
  <1>5. PICK row : row = [ts |-> tick.ts, worker |-> w, role |-> Role[w], ok |-> up[w],
                          seen |-> meters[w], ever |-> ever[w], born |-> born[w]]
    OBVIOUS
  <1>6. row \in Scrape
    BY <1>2, <1>4, <1>5, Given DEF Scrape, ServingInv, ServingTyped
  <1>7. rows' = Append(rows, row)
    BY <1>1, <1>5 DEF ScrapeOne
  <1>8. rows \in Seq(Scrape) /\ Len(rows) \in Nat
    BY DEF ServingInv, ServingTyped
  <1>9. /\ rows' \in Seq(Scrape) /\ Len(rows') = Len(rows) + 1
        /\ \A i \in DOMAIN rows : rows'[i] = rows[i]
        /\ rows'[Len(rows) + 1] = row
    BY <1>6, <1>7, <1>8
  <1>10. UNCHANGED <<plan, now, req, up, born, meters, ever>>
    BY DEF ScrapeOne, fleet
  <1>11. tick' = None \/ (tick' \in [ts : Nat, next : Nat] /\ tick'.next \in 1..Len(plan.workers))
    <2>1. CASE tick.next = Len(plan.workers)
      BY <2>1 DEF ScrapeOne
    <2>2. CASE tick.next # Len(plan.workers)
      <3>1. tick \in [ts : Nat, next : Nat]
        BY DEF ScrapeOne, ServingInv, ServingTyped
      <3>2. tick' = [tick EXCEPT !.next = tick.next + 1]
        BY <2>2 DEF ScrapeOne
      <3>3. tick' \in [ts : Nat, next : Nat] /\ tick'.next = tick.next + 1
        BY <1>2, <3>1, <3>2
      <3>4. tick.next + 1 \in 1..Len(plan.workers)
        BY <1>2, <1>3, <2>2
      <3>5. QED
        BY <3>3, <3>4
    <2>3. QED
      BY <2>1, <2>2
  <1>12. ServingTyped' /\ Living'
    BY <1>9, <1>10, <1>11 DEF ServingInv, ServingTyped, Living, OnLive
  <1>13. /\ row.worker = w /\ row.ok = up[w] /\ row.born = born[w]
         /\ row.seen = meters[w] /\ row.ever = ever[w]
    BY <1>5
  <1>14. Scraped(row)
    <2>1. /\ born[w] \in Nat
          /\ \A d \in 0..MaxNow : row.seen[d] \in Nat /\ row.ever[d] \in Nat
      BY <1>4, <1>13, MeterTyped DEF ServingInv
    <2>2. \A d \in 0..MaxNow : /\ row.ever[d] <= row.ever[d]
                               /\ row.seen[d] - row.seen[d] = row.ever[d] - row.ever[d]
      BY <2>1
    <2>3. row.born <= row.born /\ ~(row.born < row.born)
      BY <1>13, <2>1
    <2>4. Follows(row, Reading(w))
      BY <1>13, <2>2, <2>3 DEF Follows, Reading
    <2>5. row.born <= born[w] /\ \A d \in 0..MaxNow : row.ever[d] <= ever[w][d]
      BY <1>13, <2>2, <2>3
    <2>6. QED
      BY <1>13, <2>4, <2>5 DEF Scraped
  <1>15. ASSUME NEW i \in DOMAIN rows, rows[i].worker = w, rows[i].ok, row.ok
         PROVE  Follows(rows[i], row)
    <2>1. Scraped(rows[i])
      BY <1>15 DEF ServingInv, ScrapedInv
    <2>2. Follows(rows[i], Reading(w))
      BY <1>13, <1>15, <2>1 DEF Scraped
    <2>3. Reading(w).seen = row.seen /\ Reading(w).ever = row.ever /\ Reading(w).born = row.born
      BY <1>13 DEF Reading
    <2>4. QED
      BY <2>2, <2>3 DEF Follows
  <1>16. DOMAIN rows' = DOMAIN rows \cup {Len(rows) + 1} /\ \A i \in DOMAIN rows : i <= Len(rows)
    BY <1>8, <1>9
  <1>17. \A a : Scraped(a)' <=> Scraped(a)
    BY <1>10 DEF Scraped, Follows, Reading
  <1>18. ASSUME NEW i \in DOMAIN rows', rows'[i].ok
         PROVE  Scraped(rows'[i])
    BY <1>9, <1>14, <1>16, <1>18 DEF ServingInv, ScrapedInv
  <1>19. ASSUME NEW i \in DOMAIN rows', NEW j \in DOMAIN rows', i < j,
                rows'[i].worker = rows'[j].worker, rows'[i].ok, rows'[j].ok
         PROVE  Follows(rows'[i], rows'[j])
    <2>1. i \in DOMAIN rows
      BY <1>8, <1>9, <1>16, <1>19
    <2>2. CASE j \in DOMAIN rows
      BY <1>9, <1>19, <2>1, <2>2 DEF ServingInv, ScrapedInv
    <2>3. CASE j = Len(rows) + 1
      BY <1>9, <1>13, <1>15, <1>19, <2>1, <2>3
    <2>4. QED
      BY <1>16, <2>2, <2>3
  <1>20. ScrapedInv'
    BY <1>17, <1>18, <1>19 DEF ScrapedInv, Follows
  <1>21. QED
    BY <1>12, <1>20 DEF ServingInv

LEMMA ServingStarts == ServingInit => ServingInv
  <1> SUFFICES ASSUME ServingInit PROVE ServingInv
    OBVIOUS
  <1>1. Fresh \in RequestState /\ NoneYet \in Bag
    BY DEF Fresh, RequestState, NoneYet, Bag
  <1>2. plan \in Plans /\ plan.until \in 0..MaxNow /\ 0 \in 0..plan.until
    BY Given DEF ServingInit
  <1>3. ServingTyped
    BY <1>1, <1>2 DEF ServingInit, ServingTyped
  <1>4. Living
    BY DEF ServingInit, Living, OnLive, Fresh
  <1>5. ScrapedInv
    BY DEF ServingInit, ScrapedInv
  <1>6. QED
    BY <1>3, <1>4, <1>5 DEF ServingInv

LEMMA ServingSteps == ServingInv /\ [ServingNext]_servingVars => ServingInv'
  <1> SUFFICES ASSUME ServingInv, [ServingNext]_servingVars PROVE ServingInv'
    OBVIOUS
  <1>0. plan.until \in Nat /\ now \in Nat /\ now <= plan.until
    BY Given DEF ServingInv, ServingTyped
  <1>1. CASE Pass
    <2>1. now' = now + 1 /\ now' \in 0..plan.until
      BY <1>0, <1>1 DEF Pass
    <2>2. UNCHANGED <<plan, req, up, born, meters, ever, rows, tick>>
      BY <1>1 DEF Pass, fleet, written
    <2>3. ServingTyped'
      BY <2>1, <2>2 DEF ServingInv, ServingTyped
    <2>4. ASSUME NEW r \in Requests PROVE OnLive(r)'
      <3>1. OnLive(r)
        BY DEF ServingInv, Living
      <3>2. 0..now \subseteq 0..now'
        BY <1>0, <2>1
      <3>3. QED
        BY <2>2, <3>1, <3>2 DEF OnLive
    <2>5. Living'
      BY <2>2, <2>4 DEF ServingInv, Living
    <2>6. ScrapedInv'
      BY <2>2 DEF ServingInv, ScrapedInv, Scraped, Follows, Reading
    <2>7. QED
      BY <2>3, <2>5, <2>6 DEF ServingInv
  <1>2. ASSUME NEW r \in plan.requests, NEW w,
               \/ w \in Running /\ (Arrive(r, w) \/ HandOver(r, w) \/ Resend(r, w))
               \/ Schedule(r) \/ FirstToken(r) \/ Complete(r) \/ GiveUp(r)
        PROVE  ServingInv'
    <2>1. /\ UNCHANGED <<plan, now, fleet, written>>
          /\ req' \in [Requests -> RequestState] /\ \A o \in Requests : OnLive(o)'
          /\ Calm \/ \E v \in WorkerNames, d \in 0..MaxNow : Counts(v, d)
      BY <1>2, RequestsMove
    <2>2. /\ meters' \in [WorkerNames -> Bag] /\ ever' \in [WorkerNames -> Bag]
          /\ \A v \in WorkerNames : ~up'[v] => meters'[v] = NoneYet
          /\ ScrapedInv'
      BY <2>1, CalmKeeps, CountsKeep
    <2>3. UNCHANGED <<plan, now, up, born, rows, tick>>
      BY <2>1 DEF fleet, written
    <2>4. ServingTyped'
      BY <2>1, <2>2, <2>3 DEF ServingInv, ServingTyped
    <2>5. Living'
      BY <2>1, <2>2 DEF Living
    <2>6. QED
      BY <2>2, <2>4, <2>5 DEF ServingInv
  <1>3. ASSUME NEW w \in Running, Crash(w) \/ Restart(w)
        PROVE  ServingInv'
    BY <1>3, CrashKeeps, RestartKeeps
  <1>4. CASE BeginTick
    <2>1. tick' = [ts |-> now, next |-> 1] /\ plan.observer = "scraper"
      BY <1>4 DEF BeginTick, Watched
    <2>2. Len(plan.workers) \in Nat /\ Len(plan.workers) # 0
      BY <2>1, Given DEF ServingInv, ServingTyped
    <2>3. tick' \in [ts : Nat, next : Nat] /\ tick'.next \in 1..Len(plan.workers)
      BY <1>0, <2>1, <2>2
    <2>4. UNCHANGED <<plan, now, req, up, born, meters, ever, rows>>
      BY <1>4 DEF BeginTick, fleet
    <2>5. ServingTyped' /\ Living'
      BY <2>3, <2>4 DEF ServingInv, ServingTyped, Living, OnLive
    <2>6. ScrapedInv'
      BY <2>4 DEF ServingInv, ScrapedInv, Scraped, Follows, Reading
    <2>7. QED
      BY <2>5, <2>6 DEF ServingInv
  <1>5. CASE ScrapeOne
    BY <1>5, ScrapeKeeps
  <1>6. CASE UNCHANGED servingVars
    <2>1. UNCHANGED <<plan, now, req, up, born, meters, ever, rows, tick>>
      BY <1>6 DEF servingVars
    <2>2. QED
      BY <2>1 DEF ServingInv, ServingTyped, Living, OnLive, ScrapedInv, Scraped, Follows, Reading
  <1>7. QED
    BY <1>1, <1>2, <1>3, <1>4, <1>5, <1>6 DEF ServingNext

\* What the scraper reads of a worker, and reads of it again, always fits together.
LEMMA ServingInvariant == ServingSpec => []ServingInv
  BY ServingStarts, ServingSteps, PTL DEF ServingSpec

-------------------------------------------------------------------------------
(* Bags of queue times *)

LEMMA BagFinite ==
  /\ IsFiniteSet(0..MaxNow)
  /\ \A le : IsFiniteSet({d \in 0..MaxNow : d <= le})
  <1>1. IsFiniteSet(0..MaxNow)
    BY Given, FS_Interval
  <1>2. QED
    BY <1>1, FS_Subset

\* Sums over the whole of a bag or what is at most a bound, where it is the sum of two.
BothOf(a, g, b) == \A d \in 0..MaxNow : b[d] = a[d] + g[d]
LEMMA BagPlus ==
  ASSUME NEW a \in [0..MaxNow -> Int], NEW g \in [0..MaxNow -> Int], NEW b \in [0..MaxNow -> Int],
         BothOf(a, g, b), NEW le
  PROVE  /\ AtMost(b, le) = AtMost(a, le) + AtMost(g, le)
         /\ AtMost(a, le) \in Int /\ AtMost(g, le) \in Int /\ AtMost(b, le) \in Int
  <1> DEFINE R == {d \in 0..MaxNow : d <= le}
  <1>1. IsFiniteSet(R)
    BY BagFinite
  <1>2. \A d \in R : a[d] \in Int /\ g[d] \in Int /\ b[d] \in Int /\ b[d] = a[d] + g[d]
    BY DEF BothOf
  <1>3. AtMost(a, le) = SumOver(R, a) /\ AtMost(g, le) = SumOver(R, g) /\ AtMost(b, le) = SumOver(R, b)
    BY DEF AtMost
  <1> HIDE DEF R
  <1>4. SumOver(R, b) = SumOver(R, a) + SumOver(R, g)
    BY <1>1, <1>2, SumPlus
  <1>5. SumOver(R, a) \in Int /\ SumOver(R, g) \in Int /\ SumOver(R, b) \in Int
    BY <1>1, <1>2, SumInt
  <1>6. QED
    BY <1>3, <1>4, <1>5

LEMMA BagGrows ==
  ASSUME NEW a \in [0..MaxNow -> Int], NEW b \in [0..MaxNow -> Int],
         \A d \in 0..MaxNow : a[d] <= b[d], NEW le
  PROVE  /\ AtMost(a, le) <= AtMost(b, le)
         /\ AtMost(a, le) \in Int /\ AtMost(b, le) \in Int
  <1> DEFINE R == {d \in 0..MaxNow : d <= le}
  <1>1. IsFiniteSet(R)
    BY BagFinite
  <1>2. \A d \in R : a[d] \in Int /\ b[d] \in Int /\ a[d] <= b[d]
    OBVIOUS
  <1>3. AtMost(a, le) = SumOver(R, a) /\ AtMost(b, le) = SumOver(R, b)
    BY DEF AtMost
  <1> HIDE DEF R
  <1>4. SumOver(R, a) <= SumOver(R, b)
    BY <1>1, <1>2, SumAtMost
  <1>5. SumOver(R, a) \in Int /\ SumOver(R, b) \in Int
    BY <1>1, <1>2, SumInt
  <1>6. QED
    BY <1>3, <1>4, <1>5

LEMMA BagNat ==
  ASSUME NEW a \in Bag, NEW le
  PROVE  AtMost(a, le) \in Nat /\ a \in [0..MaxNow -> Int]
  <1>1. a \in [0..MaxNow -> Nat]
    BY DEF Bag
  <1> DEFINE R == {d \in 0..MaxNow : d <= le}
  <1>2. AtMost(a, le) = SumOver(R, a)
    BY <1>1 DEF AtMost
  <1>3. IsFiniteSet(R) /\ \A d \in R : a[d] \in Nat
    BY <1>1, BagFinite
  <1> HIDE DEF R
  <1>4. SumOver(R, a) \in Nat
    BY <1>3, SumNat
  <1>5. QED
    BY <1>1, <1>2, <1>4

\* The same for the time they add up to.
LEMMA SpentPlus ==
  ASSUME NEW a \in [0..MaxNow -> Int], NEW g \in [0..MaxNow -> Int], NEW b \in [0..MaxNow -> Int],
         BothOf(a, g, b)
  PROVE  /\ Spent(b) = Spent(a) + Spent(g)
         /\ Spent(a) \in Int /\ Spent(g) \in Int /\ Spent(b) \in Int
  <1> DEFINE R == 0..MaxNow
             fa == [d \in R |-> d * a[d]]
             fg == [d \in R |-> d * g[d]]
             fb == [d \in R |-> d * b[d]]
  <1>1. IsFiniteSet(R)
    BY BagFinite
  <1>2. \A d \in R : fa[d] \in Int /\ fg[d] \in Int /\ fb[d] \in Int /\ fb[d] = fa[d] + fg[d]
    <2>1. SUFFICES ASSUME NEW d \in R
                   PROVE  /\ fa[d] \in Int /\ fg[d] \in Int /\ fb[d] \in Int
                          /\ fb[d] = fa[d] + fg[d]
      OBVIOUS
    <2>2. d \in Int /\ a[d] \in Int /\ g[d] \in Int /\ b[d] = a[d] + g[d]
      BY DEF BothOf
    <2>3. d * (a[d] + g[d]) = d * a[d] + d * g[d] /\ d * a[d] \in Int /\ d * g[d] \in Int
      BY <2>2
    <2>4. fa[d] = d * a[d] /\ fg[d] = d * g[d] /\ fb[d] = d * b[d]
      OBVIOUS
    <2>5. QED
      BY <2>2, <2>3, <2>4
  <1>3. Spent(a) = SumOver(R, fa) /\ Spent(g) = SumOver(R, fg) /\ Spent(b) = SumOver(R, fb)
    BY DEF Spent
  <1> HIDE DEF R, fa, fg, fb
  <1>4. SumOver(R, fb) = SumOver(R, fa) + SumOver(R, fg)
    BY <1>1, <1>2, SumPlus
  <1>5. SumOver(R, fa) \in Int /\ SumOver(R, fg) \in Int /\ SumOver(R, fb) \in Int
    BY <1>1, <1>2, SumInt
  <1>6. QED
    BY <1>3, <1>4, <1>5

LEMMA SpentNat ==
  ASSUME NEW a \in Bag
  PROVE  Spent(a) \in Nat
  <1> DEFINE R == 0..MaxNow
             fa == [d \in R |-> d * a[d]]
  <1>1. IsFiniteSet(R)
    BY BagFinite
  <1>2. \A d \in R : fa[d] \in Nat
    <2>1. SUFFICES ASSUME NEW d \in R PROVE fa[d] \in Nat
      OBVIOUS
    <2>2. d \in Nat /\ a[d] \in Nat
      BY DEF Bag
    <2>3. d * a[d] \in Nat
      BY <2>2
    <2>4. QED
      BY <2>3
  <1>3. Spent(a) = SumOver(R, fa)
    BY DEF Spent, Bag
  <1> HIDE DEF R, fa
  <1>4. QED
    BY <1>1, <1>2, <1>3, SumNat

\* What readings of a worker say of one another: what was counted in between is what the
\* later one counts more if they are of the same life, and at least what it counts if not.
Between(a, b) == [d \in 0..MaxNow |-> b.ever[d] - a.ever[d]]

LEMMA ReadingsTyped ==
  ASSUME NEW a \in Scrape, NEW b \in Scrape, Follows(a, b)
  PROVE  /\ a.ever \in Bag /\ b.ever \in Bag /\ a.seen \in Bag /\ b.seen \in Bag
         /\ Between(a, b) \in Bag
         /\ BothOf(a.ever, Between(a, b), b.ever)
         /\ a.born = b.born => BothOf(a.seen, Between(a, b), b.seen)
         /\ a.born = b.born \/ \A d \in 0..MaxNow : b.seen[d] <= Between(a, b)[d]
  <1>1. PICK ea, eb, sa, sb : ea = a.ever /\ eb = b.ever /\ sa = a.seen /\ sb = b.seen
    OBVIOUS
  <1>2. /\ ea \in Bag /\ eb \in Bag /\ sa \in Bag /\ sb \in Bag
        /\ a.born \in Nat /\ b.born \in Nat
    BY <1>1 DEF Scrape
  <1>3. \A d \in 0..MaxNow : ea[d] \in Nat /\ eb[d] \in Nat /\ sa[d] \in Nat /\ sb[d] \in Nat
    BY <1>2 DEF Bag
  <1>4. /\ \A d \in 0..MaxNow : /\ ea[d] <= eb[d]
                                /\ a.born = b.born => sb[d] - sa[d] = eb[d] - ea[d]
                                /\ a.born < b.born => sb[d] <= eb[d] - ea[d]
        /\ a.born = b.born \/ a.born < b.born
    BY <1>1, <1>2 DEF Follows
  <1>5. PICK g : g = Between(a, b)
    OBVIOUS
  <1>6. \A d \in 0..MaxNow : g[d] = eb[d] - ea[d]
    BY <1>1, <1>5 DEF Between
  <1>7. \A d \in 0..MaxNow : eb[d] - ea[d] \in Nat
    BY <1>3, <1>4
  <1>8. g \in Bag
    BY <1>1, <1>5, <1>7 DEF Between, Bag
  <1>9. BothOf(ea, g, eb)
    BY <1>3, <1>6 DEF BothOf
  <1>10. a.born = b.born => BothOf(sa, g, sb)
    BY <1>3, <1>4, <1>6 DEF BothOf
  <1>11. a.born < b.born => \A d \in 0..MaxNow : sb[d] <= g[d]
    BY <1>4, <1>6
  <1>12. QED
    BY <1>1, <1>2, <1>4, <1>5, <1>8, <1>9, <1>10, <1>11

LEMMA ReadingsDiffer ==
  ASSUME NEW a \in Scrape, NEW b \in Scrape, Follows(a, b), NEW le
  PROVE  /\ AtMost(b.ever, le) - AtMost(a.ever, le) = AtMost(Between(a, b), le)
         /\ AtMost(Between(a, b), le) \in Nat
         /\ AtMost(b.seen, le) - AtMost(a.seen, le) \in Int
         /\ AtMost(b.seen, le) - AtMost(a.seen, le) <= AtMost(Between(a, b), le)
         /\ a.born = b.born =>
              AtMost(b.seen, le) - AtMost(a.seen, le) = AtMost(Between(a, b), le)
  <1>1. PICK ea, eb, sa, sb, g :
          ea = a.ever /\ eb = b.ever /\ sa = a.seen /\ sb = b.seen /\ g = Between(a, b)
    OBVIOUS
  <1>2. /\ ea \in Bag /\ eb \in Bag /\ sa \in Bag /\ sb \in Bag /\ g \in Bag
        /\ BothOf(ea, g, eb)
        /\ a.born = b.born => BothOf(sa, g, sb)
        /\ a.born = b.born \/ \A d \in 0..MaxNow : sb[d] <= g[d]
    BY <1>1, ReadingsTyped
  <1>3. /\ AtMost(ea, le) \in Nat /\ AtMost(eb, le) \in Nat /\ AtMost(g, le) \in Nat
        /\ AtMost(sa, le) \in Nat /\ AtMost(sb, le) \in Nat
        /\ ea \in [0..MaxNow -> Int] /\ eb \in [0..MaxNow -> Int] /\ g \in [0..MaxNow -> Int]
        /\ sa \in [0..MaxNow -> Int] /\ sb \in [0..MaxNow -> Int]
    BY <1>2, BagNat
  <1>4. AtMost(eb, le) = AtMost(ea, le) + AtMost(g, le)
    BY <1>2, <1>3, BagPlus
  <1>5. a.born = b.born => AtMost(sb, le) = AtMost(sa, le) + AtMost(g, le)
    <2>1. SUFFICES ASSUME a.born = b.born PROVE AtMost(sb, le) = AtMost(sa, le) + AtMost(g, le)
      OBVIOUS
    <2>2. BothOf(sa, g, sb)
      BY <1>2, <2>1
    <2>3. sa \in [0..MaxNow -> Int] /\ g \in [0..MaxNow -> Int] /\ sb \in [0..MaxNow -> Int]
      BY <1>3
    <2>4. QED
      BY <2>2, <2>3, BagPlus
  <1>6. a.born # b.born => AtMost(sb, le) <= AtMost(g, le)
    BY <1>2, <1>3, BagGrows
  <1>7. /\ AtMost(eb, le) - AtMost(ea, le) = AtMost(g, le)
        /\ AtMost(sb, le) - AtMost(sa, le) \in Int
        /\ AtMost(sb, le) - AtMost(sa, le) <= AtMost(g, le)
        /\ a.born = b.born => AtMost(sb, le) - AtMost(sa, le) = AtMost(g, le)
    BY <1>3, <1>4, <1>5, <1>6
  <1>8. QED
    BY <1>1, <1>3, <1>7

LEMMA SpentsDiffer ==
  ASSUME NEW a \in Scrape, NEW b \in Scrape, Follows(a, b), a.born = b.born
  PROVE  Spent(b.seen) - Spent(a.seen) = Spent(Between(a, b)) /\ Spent(Between(a, b)) \in Nat
  <1>1. PICK sa, sb, g : sa = a.seen /\ sb = b.seen /\ g = Between(a, b)
    OBVIOUS
  <1>2. sa \in Bag /\ sb \in Bag /\ g \in Bag /\ BothOf(sa, g, sb)
    BY <1>1, ReadingsTyped
  <1>3. sa \in [0..MaxNow -> Int] /\ sb \in [0..MaxNow -> Int] /\ g \in [0..MaxNow -> Int]
    BY <1>2, BagNat
  <1>4. Spent(sb) = Spent(sa) + Spent(g) /\ Spent(sa) \in Int
    BY <1>2, <1>3, SpentPlus
  <1>5. Spent(g) \in Nat
    BY <1>2, SpentNat
  <1>6. Spent(sb) - Spent(sa) = Spent(g)
    BY <1>4, <1>5
  <1>7. QED
    BY <1>1, <1>5, <1>6

-------------------------------------------------------------------------------
(* What a counter gained *)

LEMMA WorkersFinite == IsFiniteSet(WorkerNames)
  <1>1. Workers \in Seq(WorkerNames) /\ Len(Workers) \in Nat
    BY ServingAssumption
  <1>2. Workers \in [1..Len(Workers) -> WorkerNames]
    BY <1>1
  <1>3. \A w \in WorkerNames : \E i \in 1..Len(Workers) : Workers[i] = w
    BY <1>1 DEF WorkerNames, ToSet
  <1>4. Workers \in Surjection(1..Len(Workers), WorkerNames)
    BY <1>2, <1>3 DEF Surjection
  <1>5. IsFiniteSet(1..Len(Workers))
    BY <1>1, FS_Interval
  <1>6. QED
    BY <1>4, <1>5, FS_Surjection

\* The first and the last row of a worker in a window with two of it.
LEMMA EndsFollow ==
  ASSUME ServingInv, NEW loaded \in LoadedWindows, NEW w, Cardinality(Series(loaded, w)) >= 2
  PROVE  /\ Oldest(Series(loaded, w)) \in Scrape /\ Latest(Series(loaded, w)) \in Scrape
         /\ Follows(Oldest(Series(loaded, w)), Latest(Series(loaded, w)))
  <1> DEFINE S == Series(loaded, w)
  <1>1. /\ S \subseteq DOMAIN rows /\ \A i \in S : rows[i].ok /\ rows[i].worker = w
        /\ rows \in Seq(Scrape) /\ Len(rows) \in Nat
    BY DEF Series, LoadedWindows, LoadRows, ServingInv, ServingTyped
  <1>2. S \subseteq 0..Len(rows) /\ S \subseteq Nat
    BY <1>1
  <1> HIDE DEF S
  <1>3. IsFiniteSet(0..Len(rows))
    BY <1>1, FS_Interval
  <1>4. IsFiniteSet(S) /\ Cardinality(S) >= 2
    BY <1>2, <1>3, FS_Subset DEF S
  <1>5. S # {} /\ \A x : S # {x}
    BY <1>4, FS_EmptySet, FS_Singleton
  <1>6. PICK i \in S : i = Min(S) /\ \A x \in S : i <= x
    BY <1>2, <1>5, MinIsLeast
  <1>7. PICK j \in S : j = Max(S) /\ \A x \in S : x <= j
    BY <1>1, <1>2, <1>5, MaxIsGreatest
  <1>8. i < j
    <2>1. i <= j /\ i \in Nat /\ j \in Nat
      BY <1>2, <1>6, <1>7
    <2>2. CASE i = j
      <3>1. \A x \in S : x = i
        BY <1>2, <1>6, <1>7, <2>1, <2>2
      <3>2. S = {i}
        BY <1>6, <3>1
      <3>3. QED
        BY <1>5, <3>2
    <2>3. QED
      BY <2>1, <2>2
  <1>9. Oldest(S) = rows[i] /\ Latest(S) = rows[j]
    BY <1>6, <1>7 DEF Oldest, Latest
  <1>10. i \in DOMAIN rows /\ j \in DOMAIN rows /\ rows[i] \in Scrape /\ rows[j] \in Scrape
    BY <1>1, <1>6, <1>7
  <1>11. Follows(rows[i], rows[j])
    BY <1>1, <1>6, <1>7, <1>8, <1>10 DEF ServingInv, ScrapedInv
  <1>12. QED
    BY <1>9, <1>10, <1>11 DEF S

\* What the scripts find for a worker.
LEMMA WorkerCounted ==
  ASSUME ServingInv, NEW loaded \in LoadedWindows, NEW w, Cardinality(Series(loaded, w)) >= 2
  PROVE  LET series == Series(loaded, w)
             delta == CounterStats(series).delta
         IN  /\ delta \in Nat /\ Served(series) \in Nat /\ delta <= Served(series)
             /\ OneLife(series) => delta = Served(series)
  <1> DEFINE series == Series(loaded, w)
  <1>1. PICK a \in Scrape, b \in Scrape :
          a = Oldest(series) /\ b = Latest(series) /\ Follows(a, b)
    BY EndsFollow
  <1>2. /\ AtMost(b.ever, Inf) - AtMost(a.ever, Inf) \in Nat
        /\ AtMost(b.seen, Inf) - AtMost(a.seen, Inf) \in Int
        /\ AtMost(b.seen, Inf) - AtMost(a.seen, Inf) <= AtMost(b.ever, Inf) - AtMost(a.ever, Inf)
        /\ a.born = b.born => AtMost(b.seen, Inf) - AtMost(a.seen, Inf)
                                = AtMost(b.ever, Inf) - AtMost(a.ever, Inf)
    BY <1>1, ReadingsDiffer
  <1>3. Cardinality(series) \in Nat /\ ~(Cardinality(series) < 2)
    <2>1. series \subseteq 1..Len(rows) /\ Len(rows) \in Nat
      BY DEF Series, LoadedWindows, LoadRows, ServingInv, ServingTyped
    <2> HIDE DEF series
    <2>2. IsFiniteSet(1..Len(rows))
      BY <2>1, FS_Interval
    <2>3. IsFiniteSet(series)
      BY <2>1, <2>2, FS_Subset
    <2>4. Cardinality(series) \in Nat
      BY <2>3, FS_CardinalityType
    <2>5. QED
      BY <2>4 DEF series
  <1> HIDE DEF series
  <1>4. CounterStats(series).delta = Bigger(0, AtMost(b.seen, Inf) - AtMost(a.seen, Inf))
    BY <1>1, <1>3 DEF CounterStats, Count
  <1>5. /\ Served(series) = AtMost(b.ever, Inf) - AtMost(a.ever, Inf)
        /\ OneLife(series) <=> a.born = b.born
    BY <1>1 DEF Served, OneLife, Count
  <1>6. /\ CounterStats(series).delta \in Nat /\ Served(series) \in Nat
        /\ CounterStats(series).delta <= Served(series)
        /\ OneLife(series) => CounterStats(series).delta = Served(series)
    BY <1>2, <1>4, <1>5 DEF Bigger
  <1>7. QED
    BY <1>6 DEF series

\* What they find for a role is at most what its workers did.
LEMMA RoleCounted ==
  ASSUME ServingInv, NEW loaded \in LoadedWindows, NEW role, Counting(loaded, role) # {}
  PROVE  RoleCounter(loaded, role).delta
           <= SumOver(Counting(loaded, role),
                      [w \in Counting(loaded, role) |-> Served(Series(loaded, w))])
  <1> DEFINE mine == Counting(loaded, role)
             f == [w \in mine |-> CounterStats(Series(loaded, w)).delta]
             g == [w \in mine |-> Served(Series(loaded, w))]
  <1>1. mine \subseteq WorkerNames /\ \A w \in mine : Cardinality(Series(loaded, w)) >= 2
    BY DEF Counting
  <1>2. IsFiniteSet(mine)
    BY <1>1, WorkersFinite, FS_Subset
  <1>3. \A w \in mine : f[w] \in Int /\ g[w] \in Int /\ f[w] <= g[w]
    <2>1. SUFFICES ASSUME NEW w \in mine PROVE f[w] \in Int /\ g[w] \in Int /\ f[w] <= g[w]
      OBVIOUS
    <2>2. /\ CounterStats(Series(loaded, w)).delta \in Nat /\ Served(Series(loaded, w)) \in Nat
          /\ CounterStats(Series(loaded, w)).delta <= Served(Series(loaded, w))
      BY <1>1, WorkerCounted
    <2>3. QED
      BY <2>2
  <1>4. RoleCounter(loaded, role).delta = SumOver(mine, f)
    <2>1. \A w \in mine :
            [v \in mine |-> CounterStats(Series(loaded, v))][w].delta
              = CounterStats(Series(loaded, w)).delta
      OBVIOUS
    <2>2. [w \in mine |-> [v \in mine |-> CounterStats(Series(loaded, v))][w].delta] = f
      BY <2>1
    <2>3. mine # {}
      OBVIOUS
    <2>4. QED
      BY <2>2, <2>3 DEF RoleCounter
  <1> HIDE DEF f, g, mine
  <1>5. SumOver(mine, f) <= SumOver(mine, g)
    BY <1>2, <1>3, SumAtMost
  <1>6. QED
    BY <1>4, <1>5 DEF g, mine

\* A counter's delta is what the worker did between the first and the last scrape of it in
\* the window; it is less, and never negative, if the worker was restarted in between
\* (analyze_vllm_metrics.py:counter_stats over the rows of scrape_vllm_metrics.py).
THEOREM CountersAreTrue == ServingSpec => []CountersTrue
  <1>1. ServingInv => CountersTrue
    <2>1. SUFFICES ASSUME ServingInv, rows # <<>>, NEW loaded \in LoadedWindows
          PROVE  /\ \A w \in WorkerNames :
                      LET series == Series(loaded, w)
                          delta == CounterStats(series).delta
                      IN  Cardinality(series) >= 2 =>
                            /\ 0 <= delta /\ delta <= Served(series)
                            /\ OneLife(series) => delta = Served(series)
                 /\ \A role \in Roles :
                      LET mine == Counting(loaded, role) IN
                      mine # {} =>
                        RoleCounter(loaded, role).delta
                          <= SumOver(mine, [w \in mine |-> Served(Series(loaded, w))])
      BY DEF CountersTrue
    <2>2. ASSUME NEW w \in WorkerNames, Cardinality(Series(loaded, w)) >= 2
          PROVE  LET series == Series(loaded, w)
                     delta == CounterStats(series).delta
                 IN  /\ 0 <= delta /\ delta <= Served(series)
                     /\ OneLife(series) => delta = Served(series)
      BY <2>1, <2>2, WorkerCounted
    <2>3. ASSUME NEW role \in Roles, Counting(loaded, role) # {}
          PROVE  RoleCounter(loaded, role).delta
                   <= SumOver(Counting(loaded, role),
                              [w \in Counting(loaded, role) |-> Served(Series(loaded, w))])
      BY <2>1, <2>3, RoleCounted
    <2>4. QED
      BY <2>2, <2>3
  <1>2. QED
    BY <1>1, ServingInvariant, PTL

-------------------------------------------------------------------------------
(* Quantiles of a bag *)

\* The rank of a quantile: the least number of values that are q[1]/q[2] of all.
LEMMA RankOf ==
  ASSUME NEW p \in Nat \ {0}, NEW q \in Nat, p <= q, NEW n \in Nat \ {0}
  PROVE  /\ CeilDiv(p * n, q) \in 1..n
         /\ \A c \in Nat : c * q >= p * n <=> c >= CeilDiv(p * n, q)
  <1> DEFINE x == p * n
             k == CeilDiv(x, q)
  <1>1. x \in Nat /\ x >= 1 /\ x <= n * q /\ q >= 1
    <2>1. p * n >= n
      OBVIOUS
    <2>2. p * n <= q * n
      OBVIOUS
    <2>3. q * n = n * q
      OBVIOUS
    <2>4. QED
      BY <2>1, <2>2, <2>3
  <1> HIDE DEF x
  <1>2. k = (x + q - 1) \div q
    BY DEF CeilDiv
  <1>3. k \in Int /\ k * q <= x + q - 1 /\ x + q - 1 < k * q + q
    <2>1. PICK y : y = x + q - 1
      OBVIOUS
    <2>2. y \in Nat /\ k = y \div q
      BY <1>1, <1>2, <2>1
    <2>3. y = q * (y \div q) + (y % q) /\ y % q \in 0..(q - 1) /\ y \div q \in Int
      BY <1>1, <2>2
    <2>4. q * k = k * q
      BY <1>1, <2>2, <2>3
    <2>5. QED
      BY <1>1, <2>1, <2>2, <2>3, <2>4
  <1> HIDE DEF k
  <1>4. \A c \in Nat : c >= k => c * q >= x
    <2>1. SUFFICES ASSUME NEW c \in Nat, c >= k PROVE c * q >= x
      OBVIOUS
    <2>2. c * q >= k * q
      BY <1>1, <1>3, <2>1
    <2>3. k * q >= x /\ k * q \in Int /\ c * q \in Int
      BY <1>1, <1>3
    <2>4. QED
      BY <1>1, <2>2, <2>3
  <1>5. \A c \in Nat : c < k => c * q < x
    <2>1. SUFFICES ASSUME NEW c \in Nat, c < k PROVE c * q < x
      OBVIOUS
    <2>2. c * q <= (k - 1) * q
      BY <1>1, <1>3, <2>1
    <2>3. (k - 1) * q = k * q - q /\ k * q \in Int /\ c * q \in Int
      BY <1>1, <1>3
    <2>4. QED
      BY <1>1, <1>3, <2>2, <2>3
  <1>6. \A c \in Nat : c * q >= x <=> c >= k
    <2>1. SUFFICES ASSUME NEW c \in Nat PROVE c * q >= x <=> c >= k
      OBVIOUS
    <2>2. c * q \in Int /\ (c >= k \/ c < k)
      BY <1>1, <1>3
    <2>3. QED
      BY <1>1, <1>4, <1>5, <2>2
  <1>7. k <= n
    BY <1>1, <1>3, <1>6
  <1>8. k >= 1
    <2>1. ~(0 * q >= x)
      BY <1>1
    <2>2. ~(0 >= k)
      BY <1>6, <2>1
    <2>3. QED
      BY <1>3, <2>2
  <1>9. k \in 1..n
    BY <1>3, <1>7, <1>8
  <1>10. QED
    BY <1>6, <1>9 DEF k, x

LEMMA UppersAscend ==
  /\ Len(Uppers) \in Nat /\ Len(Uppers) = Len(Bounds) + 1 /\ Len(Bounds) >= 1
  /\ Inf \in Nat /\ Uppers[Len(Uppers)] = Inf
  /\ \A i \in 1..Len(Bounds) : Uppers[i] = Bounds[i] /\ Bounds[i] \in 1..MaxNow
  /\ \A i \in 1..Len(Uppers) : Uppers[i] \in Nat
  /\ \A i \in 2..Len(Uppers) : Uppers[i - 1] \in Nat /\ Uppers[i - 1] < Uppers[i]
  <1>1. Bounds \in Seq(1..MaxNow) /\ Bounds # <<>> /\ Len(Bounds) \in Nat /\ MaxNow \in Nat
    BY Given, BoundsAssumption
  <1>2. Len(Bounds) >= 1
    BY <1>1
  <1>3. Inf \in Nat /\ Inf = MaxNow + 1
    BY <1>1 DEF Inf
  <1>4. /\ Len(Uppers) = Len(Bounds) + 1
        /\ \A i \in 1..Len(Bounds) : Uppers[i] = Bounds[i]
        /\ Uppers[Len(Bounds) + 1] = Inf
    BY <1>1, <1>3 DEF Uppers
  <1>5. \A i \in 1..Len(Bounds) : Bounds[i] \in 1..MaxNow
    BY <1>1
  <1>6. ASSUME NEW i \in 1..Len(Uppers) PROVE Uppers[i] \in Nat
    <2>1. i \in 1..Len(Bounds) \/ i = Len(Bounds) + 1
      BY <1>1, <1>4
    <2>2. QED
      BY <1>3, <1>4, <1>5, <2>1
  <1>7. ASSUME NEW i \in 2..Len(Uppers)
        PROVE  Uppers[i - 1] \in Nat /\ Uppers[i - 1] < Uppers[i]
    <2>1. i - 1 \in 1..Len(Bounds) /\ (i \in 2..Len(Bounds) \/ i = Len(Bounds) + 1)
      BY <1>1, <1>4
    <2>2. Uppers[i - 1] = Bounds[i - 1] /\ Bounds[i - 1] \in 1..MaxNow
      BY <1>4, <1>5, <2>1
    <2>3. CASE i \in 2..Len(Bounds)
      <3>1. Uppers[i] = Bounds[i] /\ Bounds[i - 1] < Bounds[i]
        BY <1>1, <1>4, <2>3, BoundsAssumption
      <3>2. QED
        BY <1>1, <2>2, <3>1
    <2>4. CASE i = Len(Bounds) + 1
      BY <1>1, <1>3, <1>4, <2>2, <2>4
    <2>5. QED
      BY <2>1, <2>3, <2>4
  <1>8. QED
    BY <1>1, <1>2, <1>3, <1>4, <1>5, <1>6, <1>7

\* More values are at most a larger bound, and all are at most the largest.
LEMMA AtMostAscends ==
  ASSUME NEW bag \in Bag, NEW e \in Int, NEW f \in Int
  PROVE  /\ AtMost(bag, e) \in Nat /\ AtMost(bag, f) \in Nat /\ Count(bag) \in Nat
         /\ e <= f => AtMost(bag, e) <= AtMost(bag, f)
         /\ e >= MaxNow => AtMost(bag, e) = Count(bag)
  <1>1. bag \in [0..MaxNow -> Nat] /\ MaxNow \in Nat
    BY Given DEF Bag
  <1>2. AtMost(bag, e) \in Nat /\ AtMost(bag, f) \in Nat /\ AtMost(bag, Inf) \in Nat
    BY BagNat
  <1>3. e <= f => AtMost(bag, e) <= AtMost(bag, f)
    <2> DEFINE Q == {d \in 0..MaxNow : d <= e}
               R == {d \in 0..MaxNow : d <= f}
    <2>1. SUFFICES ASSUME e <= f PROVE AtMost(bag, e) <= AtMost(bag, f)
      OBVIOUS
    <2>2. Q \in SUBSET R
      <3>1. ASSUME NEW d \in Q PROVE d \in R
        <4>1. d \in 0..MaxNow /\ d \in Int /\ d <= e
          BY <1>1
        <4>2. d <= f
          BY <2>1, <4>1
        <4>3. QED
          BY <4>1, <4>2
      <3>2. QED
        BY <3>1
    <2>3. IsFiniteSet(R) /\ \A d \in R : bag[d] \in Nat
      BY <1>1, BagFinite
    <2>4. AtMost(bag, e) = SumOver(Q, bag) /\ AtMost(bag, f) = SumOver(R, bag)
      BY <1>1 DEF AtMost
    <2> HIDE DEF Q, R
    <2>5. QED
      BY <2>2, <2>3, <2>4, SumPart
  <1>4. e >= MaxNow => AtMost(bag, e) = AtMost(bag, Inf)
    <2>1. SUFFICES ASSUME e >= MaxNow PROVE AtMost(bag, e) = AtMost(bag, Inf)
      OBVIOUS
    <2>2. \A d \in 0..MaxNow : d <= e /\ d <= MaxNow + 1
      BY <1>1, <2>1
    <2>3. {d \in 0..MaxNow : d <= e} = 0..MaxNow /\ {d \in 0..MaxNow : d <= Inf} = 0..MaxNow
      BY <2>2 DEF Inf
    <2>4. QED
      BY <1>1, <2>3 DEF AtMost
  <1>5. QED
    BY <1>2, <1>3, <1>4 DEF Count

\* The value at a rank is the least bound that so many values do not exceed.
LEMMA RankedIsLeast ==
  ASSUME NEW bag \in Bag, NEW k \in 1..Count(bag)
  PROVE  /\ Ranked(bag, k) \in 0..MaxNow
         /\ \A e \in Nat : AtMost(bag, e) >= k <=> Ranked(bag, k) <= e
  <1> DEFINE D == {d \in 0..MaxNow : AtMost(bag, d) >= k}
  <1>0. Count(bag) \in Nat /\ MaxNow \in Nat
    BY AtMostAscends, Given
  <1>1. MaxNow \in D
    <2>1. AtMost(bag, MaxNow) = Count(bag)
      BY <1>0, AtMostAscends
    <2>2. QED
      BY <1>0, <2>1
  <1>2. D \subseteq Nat /\ D # {}
    BY <1>0, <1>1
  <1>3. Ranked(bag, k) = Min(D)
    BY DEF Ranked, Bag
  <1>4. PICK m \in D : m = Min(D) /\ \A x \in D : m <= x
    <2> HIDE DEF D
    <2>1. QED
      BY <1>2, MinIsLeast
  <1>5. m \in 0..MaxNow /\ AtMost(bag, m) >= k
    BY <1>4
  <1>6. ASSUME NEW e \in Nat PROVE AtMost(bag, e) >= k <=> m <= e
    <2>1. AtMost(bag, m) \in Nat /\ AtMost(bag, e) \in Nat /\ (m <= e => AtMost(bag, m) <= AtMost(bag, e))
      BY <1>0, <1>5, AtMostAscends
    <2>2. m <= e => AtMost(bag, e) >= k
      BY <1>0, <1>5, <2>1
    <2>3. ASSUME AtMost(bag, e) >= k PROVE m <= e
      <3>1. CASE e <= MaxNow
        <4>1. e \in D
          BY <1>0, <2>3, <3>1
        <4>2. QED
          BY <1>4, <4>1
      <3>2. CASE e > MaxNow
        BY <1>0, <1>5, <3>2
      <3>3. QED
        BY <1>0, <3>1, <3>2
    <2>4. QED
      BY <2>2, <2>3
  <1>7. QED
    BY <1>3, <1>4, <1>5, <1>6

\* Interpolation stays within the bucket.
LEMMA Interpolated ==
  ASSUME NEW l \in Nat, NEW u \in Nat, l < u, NEW b \in Nat, NEW c \in Nat, NEW q \in Nat,
         NEW x \in Nat, b * q < x, c * q >= x
  PROVE  LET v == l * q * (c - b) + (x - q * b) * (u - l)
         IN  b # c /\ l * (q * (c - b)) <= v /\ v <= u * (q * (c - b))
  <1>1. PICK y, z, w : y = x - q * b /\ z = q * (c - b) /\ w = u - l
    OBVIOUS
  <1>2. w \in Nat /\ u = l + w
    BY <1>1
  <1>3. q * b = b * q /\ q * c = c * q /\ q * b \in Int /\ q * c \in Int
    OBVIOUS
  <1>4. q * (c - b) = q * c - q * b
    OBVIOUS
  <1>5. y \in Nat /\ z \in Nat /\ y <= z
    <2>1. y \in Int /\ z \in Int
      BY <1>1, <1>3, <1>4
    <2>2. y >= 0 /\ y <= z
      BY <1>1, <1>3, <1>4
    <2>3. QED
      BY <2>1, <2>2
  <1>6. y * w \in Nat /\ y * w <= z * w
    BY <1>2, <1>5
  <1>7. (l + w) * z = l * z + z * w
    BY <1>2, <1>5
  <1>8. l * q * (c - b) = l * z
    <2>1. c - b \in Int
      OBVIOUS
    <2>2. (l * q) * (c - b) = l * (q * (c - b))
      BY <2>1
    <2>3. QED
      BY <1>1, <2>2
  <1>9. l * z \in Int /\ z * w \in Int
    BY <1>2, <1>5
  <1>10. b # c
    OBVIOUS
  <1>11. l * z <= l * z + y * w /\ l * z + y * w <= u * z
    BY <1>2, <1>6, <1>7, <1>9
  <1>12. QED
    BY <1>1, <1>8, <1>10, <1>11

\* histogram_quantile over the counts of a bag's values lies where the bag's quantile does.
Cumulative(bag) == [i \in 1..Len(Uppers) |-> AtMost(bag, Uppers[i])]

LEMMA QuantileInBucket ==
  ASSUME NEW bag \in Bag, Count(bag) > 0, NEW q \in Quantiles
  PROVE  InItsBucket(HistogramQuantile(q, Cumulative(bag)), q, bag)
  <1>1. PICK n : n = Count(bag)
    OBVIOUS
  <1>2. PICK cum : cum = Cumulative(bag)
    OBVIOUS
  <1>3. PICK p, r : p = q[1] /\ r = q[2]
    OBVIOUS
  <1>4. PICK k : k = CeilDiv(p * n, r)
    OBVIOUS
  <1>5. PICK d : d = Ranked(bag, k)
    OBVIOUS
  <1>6. p \in Nat \ {0} /\ r \in Nat /\ p <= r
    BY <1>3, QuantilesAssumption
  <1>7. n \in Nat \ {0}
    <2>1. n \in Nat
      BY <1>1, AtMostAscends
    <2>2. QED
      BY <1>1, <2>1
  <1>8. k \in 1..n /\ \A c \in Nat : c * r >= p * n <=> c >= k
    BY <1>4, <1>6, <1>7, RankOf
  <1>9. d \in 0..MaxNow /\ \A e \in Nat : AtMost(bag, e) >= k <=> d <= e
    BY <1>1, <1>5, <1>8, RankedIsLeast
  <1>10. PICK L : L = Len(Uppers)
    OBVIOUS
  <1>11. /\ L \in Nat /\ L >= 2 /\ Inf \in Nat /\ Uppers[L] = Inf
         /\ \A i \in 1..L : Uppers[i] \in Nat
         /\ \A i \in 2..L : Uppers[i - 1] \in Nat /\ Uppers[i - 1] < Uppers[i]
    BY <1>10, UppersAscend
  <1>12. Len(cum) = L /\ \A i \in 1..L : cum[i] = AtMost(bag, Uppers[i]) /\ cum[i] \in Nat
    <2>1. cum = [i \in 1..L |-> AtMost(bag, Uppers[i])]
      BY <1>2, <1>10 DEF Cumulative
    <2>2. Len(cum) = L
      BY <1>11, <2>1
    <2>3. ASSUME NEW i \in 1..L PROVE AtMost(bag, Uppers[i]) \in Nat
      BY <1>11, BagNat
    <2>4. QED
      BY <2>1, <2>2, <2>3
  <1>13. \A i \in 1..L : cum[i] * r >= p * n <=> d <= Uppers[i]
    BY <1>8, <1>9, <1>11, <1>12
  <1>14. cum[L] = n
    <2>1. Inf \in Int /\ Inf >= MaxNow
      BY Given DEF Inf
    <2>2. AtMost(bag, Inf) = Count(bag)
      BY DEF Count
    <2>3. QED
      BY <1>1, <1>11, <1>12, <2>2
  <1> DEFINE J == {j \in 1..L : d <= Uppers[j]}
  <1>15. {j \in 1..L : cum[j] * r >= p * n} = J
    BY <1>13
  <1>16. L \in J /\ J \subseteq Nat
    <2>1. d <= Inf
      BY <1>9, Given DEF Inf
    <2>2. QED
      BY <1>11, <2>1
  <1>17. PICK i \in J : i = Min(J) /\ \A x \in J : i <= x
    <2> HIDE DEF J
    <2>1. QED
      BY <1>16, MinIsLeast
  <1>18. i \in 1..L /\ d <= Uppers[i] /\ \A j \in 1..L : d <= Uppers[j] => i <= j
    BY <1>17
  <1>19. i = Min({j \in 1..L : cum[j] * r >= p * n}) /\ i = Min({j \in 1..L : d <= Uppers[j]})
    BY <1>15, <1>17
  <1> HIDE DEF J
  <1>20. PICK lower : lower = IF i = 1 THEN 0 ELSE Uppers[i - 1]
    OBVIOUS
  <1>21. PICK below : below = IF i = 1 THEN 0 ELSE cum[i - 1]
    OBVIOUS
  <1>22. PICK v : v = HistogramQuantile(q, cum)
    OBVIOUS
  <1>23. v = IF n <= 0 THEN None
             ELSE IF Uppers[i] = Inf THEN (IF lower > 0 THEN <<lower, 1>> ELSE None)
             ELSE IF cum[i] = below THEN <<Uppers[i], 1>>
             ELSE <<lower * r * (cum[i] - below) + (p * n - r * below) * (Uppers[i] - lower),
                    r * (cum[i] - below)>>
    BY <1>3, <1>12, <1>14, <1>19, <1>20, <1>21, <1>22 DEF HistogramQuantile
  <1>24. InItsBucket(v, q, bag) <=>
           IF Uppers[i] = Inf THEN v = IF lower > 0 THEN <<lower, 1>> ELSE None
           ELSE lower * v[2] <= v[1] /\ v[1] <= Uppers[i] * v[2]
    BY <1>1, <1>3, <1>4, <1>5, <1>10, <1>19, <1>20 DEF InItsBucket
  <1>25. CASE Uppers[i] = Inf
    BY <1>2, <1>7, <1>22, <1>23, <1>24, <1>25
  <1>26. CASE Uppers[i] # Inf
    <2>1. lower \in Nat /\ lower < Uppers[i] /\ Uppers[i] \in Nat
      <3>1. CASE i = 1
        <4>1. Uppers[1] \in Nat /\ Uppers[2 - 1] < Uppers[2]
          BY <1>11
        <4>2. Uppers[1] = Bounds[1] /\ Bounds[1] \in 1..MaxNow
          BY UppersAscend
        <4>3. QED
          BY <1>20, <3>1, <4>1, <4>2
      <3>2. CASE i # 1
        <4>1. i \in 2..L
          BY <1>11, <1>18, <3>2
        <4>2. QED
          BY <1>11, <1>18, <1>20, <3>2, <4>1
      <3>3. QED
        BY <3>1, <3>2
    <2>2. below \in Nat /\ below * r < p * n
      <3>1. p * n \in Nat /\ p * n > 0
        BY <1>6, <1>7
      <3>2. CASE i = 1
        <4>1. 0 * r = 0
          BY <1>6
        <4>2. QED
          BY <1>21, <3>1, <3>2, <4>1
      <3>3. CASE i # 1
        <4>1. i - 1 \in 1..L /\ ~(i <= i - 1)
          BY <1>11, <1>18, <3>3
        <4>2. ~(d <= Uppers[i - 1])
          BY <1>18, <4>1
        <4>3. below = cum[i - 1] /\ below \in Nat /\ ~(below * r >= p * n)
          BY <1>12, <1>13, <1>21, <3>3, <4>1, <4>2
        <4>4. below * r \in Nat
          BY <1>6, <4>3
        <4>5. QED
          BY <3>1, <4>3, <4>4
      <3>4. QED
        BY <3>2, <3>3
    <2>3. cum[i] \in Nat /\ cum[i] * r >= p * n /\ p * n \in Nat
      BY <1>6, <1>7, <1>12, <1>13, <1>18
    <2>4. PICK c, x, u : c = cum[i] /\ x = p * n /\ u = Uppers[i]
      OBVIOUS
    <2>5. /\ below # c
          /\ lower * (r * (c - below)) <= lower * r * (c - below) + (x - r * below) * (u - lower)
          /\ lower * r * (c - below) + (x - r * below) * (u - lower) <= u * (r * (c - below))
      <3>1. /\ lower \in Nat /\ u \in Nat /\ lower < u /\ below \in Nat /\ c \in Nat /\ r \in Nat
            /\ x \in Nat /\ below * r < x /\ c * r >= x
        BY <1>6, <2>1, <2>2, <2>3, <2>4
      <3>2. QED
        BY <3>1, Interpolated
    <2>6. v = <<lower * r * (c - below) + (x - r * below) * (u - lower), r * (c - below)>>
      BY <1>7, <1>23, <1>26, <2>4, <2>5
    <2>7. lower * v[2] <= v[1] /\ v[1] <= u * v[2]
      BY <2>5, <2>6
    <2>8. InItsBucket(v, q, bag)
      BY <1>24, <1>26, <2>4, <2>7
    <2>9. QED
      BY <1>2, <1>22, <2>8
  <1>27. QED
    BY <1>25, <1>26

-------------------------------------------------------------------------------
(* Histograms *)

\* Over a window in which a worker was not restarted its rows tell what it served.
LEMMA WorkerGained ==
  ASSUME ServingInv, NEW loaded \in LoadedWindows, NEW w,
         Cardinality(Series(loaded, w)) >= 2, OneLife(Series(loaded, w))
  PROVE  LET series == Series(loaded, w)
             bag == Gain(series)
         IN  /\ bag \in Bag
             /\ CounterStats(series).delta = Count(bag)
             /\ SumDelta(series) = Spent(bag)
             /\ BucketDeltas(series) = Cumulative(bag)
  <1> DEFINE S == Series(loaded, w)
  <1>1. PICK a \in Scrape, b \in Scrape : a = Oldest(S) /\ b = Latest(S) /\ Follows(a, b)
    BY EndsFollow
  <1>2. a.born = b.born
    BY <1>1 DEF OneLife
  <1>3. CounterStats(S).delta = Served(S)
    BY WorkerCounted
  <1> HIDE DEF S
  <1>4. Gain(S) = Between(a, b)
    BY <1>1 DEF Gain, Between
  <1>5. Between(a, b) \in Bag
    BY <1>1, ReadingsTyped
  <1>6. ASSUME NEW le
        PROVE  /\ AtMost(b.ever, le) - AtMost(a.ever, le) = AtMost(Between(a, b), le)
               /\ Bigger(0, AtMost(b.seen, le) - AtMost(a.seen, le)) = AtMost(Between(a, b), le)
    <2>1. /\ AtMost(b.ever, le) - AtMost(a.ever, le) = AtMost(Between(a, b), le)
          /\ AtMost(Between(a, b), le) \in Nat
          /\ AtMost(b.seen, le) - AtMost(a.seen, le) = AtMost(Between(a, b), le)
      BY <1>1, <1>2, ReadingsDiffer
    <2>2. QED
      BY <2>1 DEF Bigger
  <1>7. Served(S) = Count(Between(a, b))
    BY <1>1, <1>6 DEF Served, Count
  <1>8. SumDelta(S) = Spent(Between(a, b))
    <2>1. Spent(b.seen) - Spent(a.seen) = Spent(Between(a, b)) /\ Spent(Between(a, b)) \in Nat
      BY <1>1, <1>2, SpentsDiffer
    <2>2. QED
      BY <1>1, <2>1 DEF SumDelta, Bigger
  <1>9. BucketDeltas(S) = Cumulative(Between(a, b))
    <2>1. BucketDeltas(S) =
            [i \in 1..Len(Uppers) |-> Bigger(0, AtMost(b.seen, Uppers[i]) - AtMost(a.seen, Uppers[i]))]
      BY <1>1 DEF BucketDeltas
    <2>2. \A i \in 1..Len(Uppers) :
            Bigger(0, AtMost(b.seen, Uppers[i]) - AtMost(a.seen, Uppers[i]))
              = AtMost(Between(a, b), Uppers[i])
      BY <1>6
    <2>3. QED
      BY <2>1, <2>2 DEF Cumulative
  <1>10. QED
    BY <1>3, <1>4, <1>5, <1>7, <1>8, <1>9 DEF S

\* Statistics of what a bag holds are about it.
LEMMA HistogramOfBag ==
  ASSUME NEW bag \in Bag, Count(bag) > 0
  PROVE  LET h == Histogram(Count(bag), Spent(bag), Cumulative(bag)) IN
         /\ h.delta = Count(bag) /\ h.mean = <<Spent(bag), Count(bag)>>
         /\ \A q \in Quantiles : InItsBucket(h.quantile[q], q, bag)
         /\ \A d \in 0..Last(Bounds) : bag[d] > 0 => d <= h.max
  <1>1. PICK n, s, cum : n = Count(bag) /\ s = Spent(bag) /\ cum = Cumulative(bag)
    OBVIOUS
  <1>2. n \in Nat /\ n # 0
    BY <1>1, AtMostAscends
  <1>3. PICK h : h = Histogram(n, s, cum)
    OBVIOUS
  <1>4. /\ h.delta = n /\ h.mean = <<s, n>> /\ h.max = HistogramMax(cum)
        /\ \A q \in Quantiles : h.quantile[q] = HistogramQuantile(q, cum)
    BY <1>2, <1>3 DEF Histogram
  <1>5. \A q \in Quantiles : InItsBucket(h.quantile[q], q, bag)
    BY <1>1, <1>4, QuantileInBucket
  <1>6. ASSUME NEW d \in 0..Last(Bounds), bag[d] > 0
        PROVE  d <= HistogramMax(cum)
    <2>1. PICK m : m = Len(Bounds)
      OBVIOUS
    <2>2. m \in Nat /\ m >= 1 /\ Len(Uppers) = m + 1 /\ Uppers[m] = Bounds[m] /\ Bounds[m] \in 1..MaxNow
      BY <2>1, UppersAscend
    <2>3. Last(Bounds) = Bounds[m]
      BY <2>1 DEF Last
    <2>4. d \in 0..MaxNow /\ d \in Int /\ d <= Bounds[m] /\ bag[d] \in Nat
      BY <2>2, <2>3, Given DEF Bag
    <2>5. cum[m] = AtMost(bag, Bounds[m])
      BY <1>1, <2>2 DEF Cumulative
    <2>6. AtMost(bag, Bounds[m]) > 0
      <3> DEFINE R == {e \in 0..MaxNow : e <= Bounds[m]}
      <3>1. AtMost(bag, Bounds[m]) = SumOver(R, bag)
        BY DEF AtMost, Bag
      <3>2. IsFiniteSet(R) /\ {d} \in SUBSET R /\ \A e \in R : bag[e] \in Nat
        BY <2>4, BagFinite DEF Bag
      <3> HIDE DEF R
      <3>3. SumOver({d}, bag) <= SumOver(R, bag) /\ SumOver(R, bag) \in Nat
        BY <3>2, SumPart, SumNat
      <3>4. SumOver({d}, bag) = bag[d]
        <4>1. IsFiniteSet({}) /\ d \notin {} /\ \A e \in {} \cup {d} : bag[e] \in Int
          BY <2>4, FS_EmptySet
        <4>2. SumOver({} \cup {d}, bag) = SumOver({}, bag) + bag[d]
          BY <4>1, SumAdd
        <4>3. SumOver({}, bag) = 0 /\ {} \cup {d} = {d}
          BY SumEmpty
        <4>4. QED
          BY <2>4, <4>2, <4>3
      <3>5. QED
        BY <1>6, <2>4, <3>1, <3>3, <3>4
    <2> DEFINE grew == {i \in 1..Len(Bounds) : cum[i] > 0}
    <2>7. m \in grew /\ grew \subseteq 0..m
      BY <2>1, <2>2, <2>5, <2>6
    <2>8. HistogramMax(cum) = IF grew = {} THEN None ELSE Bounds[Max(grew)]
      BY DEF HistogramMax
    <2> HIDE DEF grew
    <2>9. PICK y \in grew : y = Max(grew) /\ m <= y
      BY <2>2, <2>7, MaxIsGreatest
    <2>10. Max(grew) = m
      <3>1. y \in 0..m
        BY <2>7
      <3>2. y = m
        BY <2>2, <2>9, <3>1
      <3>3. QED
        BY <2>9, <3>2
    <2>11. QED
      BY <2>4, <2>7, <2>8, <2>10
  <1>7. QED
    BY <1>1, <1>3, <1>4, <1>5, <1>6

LEMMA WorkerHistogram ==
  ASSUME ServingInv, NEW loaded \in LoadedWindows, NEW w,
         Cardinality(Series(loaded, w)) >= 2, OneLife(Series(loaded, w)),
         Count(Gain(Series(loaded, w))) > 0
  PROVE  LET series == Series(loaded, w)
             h == HistogramStats(series)
             bag == Gain(series)
         IN  /\ h.delta = Count(bag)
             /\ h.mean = IF Spent(bag) = 0 THEN None ELSE <<Spent(bag), Count(bag)>>
             /\ \A q \in Quantiles : InItsBucket(h.quantile[q], q, bag)
             /\ \A d \in 0..Last(Bounds) : bag[d] > 0 => d <= h.max
  <1> DEFINE S == Series(loaded, w)
  <1>1. PICK bag : bag = Gain(S)
    OBVIOUS
  <1>2. /\ bag \in Bag /\ Count(bag) > 0
        /\ CounterStats(S).delta = Count(bag) /\ SumDelta(S) = Spent(bag)
        /\ BucketDeltas(S) = Cumulative(bag)
    BY <1>1, WorkerGained
  <1>3. ~(Cardinality(S) < 2)
    <2>1. S \subseteq 1..Len(rows) /\ Len(rows) \in Nat
      BY DEF Series, LoadedWindows, LoadRows, ServingInv, ServingTyped
    <2>2. Cardinality(S) >= 2
      OBVIOUS
    <2> HIDE DEF S
    <2>3. IsFiniteSet(1..Len(rows))
      BY <2>1, FS_Interval
    <2>4. IsFiniteSet(S)
      BY <2>1, <2>3, FS_Subset
    <2>5. Cardinality(S) \in Nat
      BY <2>4, FS_CardinalityType
    <2>6. QED
      BY <2>2, <2>5
  <1> HIDE DEF S
  <1>4. PICK h : h = Histogram(Count(bag), Spent(bag), Cumulative(bag))
    OBVIOUS
  <1>5. /\ h.delta = Count(bag) /\ h.mean = <<Spent(bag), Count(bag)>>
        /\ \A q \in Quantiles : InItsBucket(h.quantile[q], q, bag)
        /\ \A d \in 0..Last(Bounds) : bag[d] > 0 => d <= h.max
    BY <1>2, <1>4, HistogramOfBag
  <1>6. HistogramStats(S) = [h EXCEPT !.mean = IF Spent(bag) = 0 THEN None ELSE @]
    BY <1>2, <1>3, <1>4 DEF HistogramStats
  <1>7. h = [delta |-> h.delta, mean |-> h.mean, quantile |-> h.quantile, max |-> h.max]
    BY <1>4 DEF Histogram
  <1>8. PICK x : x = HistogramStats(S)
    OBVIOUS
  <1>9. /\ x.delta = h.delta /\ x.quantile = h.quantile /\ x.max = h.max
        /\ x.mean = IF Spent(bag) = 0 THEN None ELSE h.mean
    BY <1>6, <1>7, <1>8
  <1>10. QED
    BY <1>1, <1>5, <1>8, <1>9 DEF S

\* A bag that is several together holds what they hold.
Together(mine, G) == [d \in 0..MaxNow |-> SumOver(mine, [w \in mine |-> G[w][d]])]

LEMMA AtMostTogether ==
  ASSUME NEW mine, IsFiniteSet(mine), NEW G \in [mine -> Bag], NEW le
  PROVE  AtMost(Together(mine, G), le) = SumOver(mine, [w \in mine |-> AtMost(G[w], le)])
  <1> DEFINE Q == {d \in 0..MaxNow : d <= le}
             g == Together(mine, G)
             h == [w \in mine |-> AtMost(G[w], le)]
  <1>1. IsFiniteSet(Q) /\ Q \subseteq 0..MaxNow
    BY BagFinite
  <1>2. Table(mine, Q, G)
    <2>1. SUFFICES ASSUME NEW w \in mine, NEW d \in 0..MaxNow PROVE G[w][d] \in Int
      BY DEF Table
    <2>2. G[w] \in [0..MaxNow -> Nat]
      BY DEF Bag
    <2>3. QED
      BY <2>2
  <1>3. \A d \in Q : g[d] = SumOver(mine, Column(mine, G, d))
    BY DEF Together, Column
  <1>4. \A w \in mine : h[w] = SumOver(Q, G[w])
    BY DEF AtMost, Bag
  <1>5. AtMost(g, le) = SumOver(Q, g)
    BY DEF AtMost, Together
  <1> HIDE DEF Q, g, h
  <1>6. PICK T : T = G
    OBVIOUS
  <1>7. /\ Table(mine, Q, T) /\ \A d \in Q : g[d] = SumOver(mine, Column(mine, T, d))
        /\ \A w \in mine : h[w] = SumOver(Q, T[w])
    BY <1>2, <1>3, <1>4, <1>6
  <1>8. SumOver(Q, g) = SumOver(mine, h)
    <2>1. IsFiniteSet(Q)
      BY <1>1
    <2>2. QED
      BY <1>7, <2>1, SumExchange
  <1>9. QED
    BY <1>5, <1>8 DEF g, h

LEMMA SpentTogether ==
  ASSUME NEW mine, IsFiniteSet(mine), NEW G \in [mine -> Bag]
  PROVE  Spent(Together(mine, G)) = SumOver(mine, [w \in mine |-> Spent(G[w])])
  <1> DEFINE Q == 0..MaxNow
             T == [w \in mine |-> [d \in Q |-> d * G[w][d]]]
             g == [d \in Q |-> d * Together(mine, G)[d]]
             h == [w \in mine |-> Spent(G[w])]
  <1>1. IsFiniteSet(Q)
    BY BagFinite
  <1>2. ASSUME NEW w \in mine, NEW d \in Q
        PROVE  G[w][d] \in Int /\ d \in Int /\ T[w][d] = d * G[w][d] /\ T[w][d] \in Int
    <2>1. G[w] \in [0..MaxNow -> Nat]
      BY DEF Bag
    <2>2. G[w][d] \in Int /\ d \in Int
      BY <2>1
    <2>3. d * G[w][d] \in Int
      BY <2>2
    <2>4. QED
      BY <2>2, <2>3
  <1>3. Table(mine, Q, T)
    BY <1>2 DEF Table
  <1>4. ASSUME NEW d \in Q
        PROVE  g[d] = SumOver(mine, Column(mine, T, d))
    <2> DEFINE f == [w \in mine |-> G[w][d]]
               x == Column(mine, T, d)
    <2>1. d \in Int /\ \A w \in mine : f[w] \in Int /\ x[w] = d * f[w]
      BY <1>2 DEF Column
    <2>2. g[d] = d * SumOver(mine, f)
      BY DEF Together
    <2> HIDE DEF f, x
    <2>3. SumOver(mine, x) = d * SumOver(mine, f)
      BY <2>1, SumTimes
    <2>4. QED
      BY <2>2, <2>3 DEF x
  <1>5. ASSUME NEW w \in mine
        PROVE  h[w] = SumOver(Q, T[w])
    <2>1. DOMAIN G[w] = Q
      BY DEF Bag
    <2>2. Spent(G[w]) = SumOver(Q, [d \in Q |-> d * G[w][d]])
      BY <2>1 DEF Spent
    <2>3. QED
      BY <2>2
  <1>6. Spent(Together(mine, G)) = SumOver(Q, g)
    <2>1. DOMAIN Together(mine, G) = Q
      BY DEF Together
    <2>2. QED
      BY <2>1 DEF Spent
  <1> HIDE DEF Q, T, g, h
  <1>7. SumOver(Q, g) = SumOver(mine, h)
    BY <1>1, <1>3, <1>4, <1>5, SumExchange
  <1>8. QED
    BY <1>6, <1>7 DEF h

LEMMA TogetherTyped ==
  ASSUME NEW mine, IsFiniteSet(mine), NEW G \in [mine -> Bag]
  PROVE  Together(mine, G) \in Bag
  <1>1. ASSUME NEW d \in 0..MaxNow
        PROVE  SumOver(mine, [w \in mine |-> G[w][d]]) \in Nat
    <2> DEFINE f == [w \in mine |-> G[w][d]]
    <2>1. \A w \in mine : f[w] \in Nat
      BY DEF Bag
    <2> HIDE DEF f
    <2>2. SumOver(mine, f) \in Nat
      BY <2>1, SumNat
    <2>3. QED
      BY <2>2 DEF f
  <1>2. QED
    BY <1>1 DEF Together, Bag

LEMMA RoleHistogramIsOfBag ==
  ASSUME ServingInv, NEW loaded \in LoadedWindows, NEW role,
         \A w \in Counting(loaded, role) : OneLife(Series(loaded, w)),
         NEW G, G = [w \in Counting(loaded, role) |-> Gain(Series(loaded, w))],
         NEW bag, bag = Together(Counting(loaded, role), G), Count(bag) > 0
  PROVE  bag \in Bag /\ RoleHistogram(loaded, role) = Histogram(Count(bag), Spent(bag), Cumulative(bag))
  <1> DEFINE mine == Counting(loaded, role)
  <1>1. mine \subseteq WorkerNames /\ \A w \in mine : Cardinality(Series(loaded, w)) >= 2
    BY DEF Counting
  <1>2. IsFiniteSet(mine)
    BY <1>1, WorkersFinite, FS_Subset
  <1>3. ASSUME NEW w \in mine
        PROVE  /\ G[w] \in Bag
               /\ CounterStats(Series(loaded, w)).delta = Count(G[w])
               /\ SumDelta(Series(loaded, w)) = Spent(G[w])
               /\ BucketDeltas(Series(loaded, w)) = Cumulative(G[w])
    BY <1>1, WorkerGained
  <1>4. G \in [mine -> Bag]
    BY <1>3
  <1>5. bag \in Bag
    BY <1>2, <1>4, TogetherTyped
  <1>6. \A le : AtMost(bag, le) = SumOver(mine, [w \in mine |-> AtMost(G[w], le)])
    BY <1>2, <1>4, AtMostTogether
  <1>7. Spent(bag) = SumOver(mine, [w \in mine |-> Spent(G[w])])
    BY <1>2, <1>4, SpentTogether
  <1>8. Count(bag) = SumOver(mine, [w \in mine |-> Count(G[w])])
    BY <1>6 DEF Count
  <1>9. mine # {}
    <2>1. CASE mine = {}
      <3>1. SumOver(mine, [w \in mine |-> Count(G[w])]) = 0
        BY <2>1, SumEmpty
      <3>2. QED
        BY <1>8, <3>1
    <2>2. QED
      BY <2>1
  <1>10. OrZero(RoleCounter(loaded, role).delta) = Count(bag)
    <2>1. \A w \in mine :
            [v \in mine |-> CounterStats(Series(loaded, v))][w].delta = Count(G[w])
      BY <1>3
    <2>2. [w \in mine |-> [v \in mine |-> CounterStats(Series(loaded, v))][w].delta]
            = [w \in mine |-> Count(G[w])]
      BY <2>1
    <2>3. RoleCounter(loaded, role).delta = SumOver(mine, [w \in mine |-> Count(G[w])])
      BY <1>9, <2>2 DEF RoleCounter
    <2>4. Count(bag) \in Nat /\ Count(bag) # None
      BY <1>5, AtMostAscends, Given
    <2>5. QED
      BY <1>8, <2>3, <2>4 DEF OrZero
  <1>11. SumOver(mine, [w \in mine |-> SumDelta(Series(loaded, w))]) = Spent(bag)
    <2>1. [w \in mine |-> SumDelta(Series(loaded, w))] = [w \in mine |-> Spent(G[w])]
      BY <1>3
    <2>2. QED
      BY <1>7, <2>1
  <1>12. ASSUME NEW i \in 1..Len(Uppers)
         PROVE  SumOver(mine, [w \in mine |-> BucketDeltas(Series(loaded, w))[i]])
                  = AtMost(bag, Uppers[i])
    <2>1. \A w \in mine : BucketDeltas(Series(loaded, w))[i] = AtMost(G[w], Uppers[i])
      BY <1>3 DEF Cumulative
    <2>2. [w \in mine |-> BucketDeltas(Series(loaded, w))[i]]
            = [w \in mine |-> AtMost(G[w], Uppers[i])]
      BY <2>1
    <2>3. QED
      BY <1>6, <2>2
  <1>13. [i \in 1..Len(Uppers) |->
            SumOver(mine, [w \in mine |-> BucketDeltas(Series(loaded, w))[i]])] = Cumulative(bag)
    BY <1>12 DEF Cumulative
  <1>14. RoleHistogram(loaded, role) =
           Histogram(OrZero(RoleCounter(loaded, role).delta),
                     SumOver(mine, [w \in mine |-> SumDelta(Series(loaded, w))]),
                     [i \in 1..Len(Uppers) |->
                        SumOver(mine, [w \in mine |-> BucketDeltas(Series(loaded, w))[i]])])
    BY DEF RoleHistogram
  <1>15. QED
    BY <1>5, <1>10, <1>11, <1>13, <1>14

\* Over a window without a restart a histogram's quantiles are right to within a bucket, its
\* mean is right and no queue time in a finite bucket exceeds its max, and so for a role
\* (analyze_vllm_metrics.py:histogram_stats, histogram_quantile and aggregate_by_role).
THEOREM HistogramsAreTrue == ServingSpec => []HistogramTrue
  <1>1. ServingInv => HistogramTrue
    <2>1. SUFFICES ASSUME ServingInv, NEW loaded \in LoadedWindows
          PROVE  /\ \A w \in WorkerNames :
                      LET series == Series(loaded, w)
                          h == HistogramStats(series)
                          bag == Gain(series)
                      IN  Cardinality(series) >= 2 /\ OneLife(series) /\ Count(bag) > 0 =>
                            /\ h.delta = Count(bag)
                            /\ h.mean = IF Spent(bag) = 0 THEN None
                                        ELSE <<Spent(bag), Count(bag)>>
                            /\ \A q \in Quantiles : InItsBucket(h.quantile[q], q, bag)
                            /\ \A d \in 0..Last(Bounds) : bag[d] > 0 => d <= h.max
                 /\ \A role \in Roles :
                      LET mine == Counting(loaded, role)
                          h == RoleHistogram(loaded, role)
                          bag == [d \in 0..MaxNow |->
                                    SumOver(mine, [w \in mine |-> Gain(Series(loaded, w))[d]])]
                      IN  (\A w \in mine : OneLife(Series(loaded, w))) /\ Count(bag) > 0 =>
                            /\ h.mean = <<Spent(bag), Count(bag)>>
                            /\ \A q \in Quantiles : InItsBucket(h.quantile[q], q, bag)
      BY DEF HistogramTrue
    <2>2. ASSUME NEW w \in WorkerNames, Cardinality(Series(loaded, w)) >= 2,
                 OneLife(Series(loaded, w)), Count(Gain(Series(loaded, w))) > 0
          PROVE  LET series == Series(loaded, w)
                     h == HistogramStats(series)
                     bag == Gain(series)
                 IN  /\ h.delta = Count(bag)
                     /\ h.mean = IF Spent(bag) = 0 THEN None ELSE <<Spent(bag), Count(bag)>>
                     /\ \A q \in Quantiles : InItsBucket(h.quantile[q], q, bag)
                     /\ \A d \in 0..Last(Bounds) : bag[d] > 0 => d <= h.max
      BY <2>1, <2>2, WorkerHistogram
    <2>3. ASSUME NEW role \in Roles, NEW bag,
                 bag = [d \in 0..MaxNow |->
                          SumOver(Counting(loaded, role),
                                  [w \in Counting(loaded, role) |-> Gain(Series(loaded, w))[d]])],
                 \A w \in Counting(loaded, role) : OneLife(Series(loaded, w)), Count(bag) > 0
          PROVE  LET h == RoleHistogram(loaded, role)
                 IN  /\ h.mean = <<Spent(bag), Count(bag)>>
                     /\ \A q \in Quantiles : InItsBucket(h.quantile[q], q, bag)
      <3> DEFINE mine == Counting(loaded, role)
      <3>1. PICK G : G = [w \in mine |-> Gain(Series(loaded, w))]
        OBVIOUS
      <3>2. bag = Together(mine, G)
        <4>1. \A d \in 0..MaxNow : \A w \in mine : G[w][d] = Gain(Series(loaded, w))[d]
          BY <3>1
        <4>2. \A d \in 0..MaxNow :
                [w \in mine |-> G[w][d]] = [w \in mine |-> Gain(Series(loaded, w))[d]]
          BY <4>1
        <4>3. QED
          BY <2>3, <4>2 DEF Together
      <3>3. /\ bag \in Bag
            /\ RoleHistogram(loaded, role) = Histogram(Count(bag), Spent(bag), Cumulative(bag))
        BY <2>1, <2>3, <3>1, <3>2, RoleHistogramIsOfBag
      <3>4. QED
        BY <2>3, <3>3, HistogramOfBag
    <2>4. QED
      BY <2>2, <2>3
  <1>2. QED
    BY <1>1, ServingInvariant, PTL

-------------------------------------------------------------------------------
(* The logs *)

SchedLines == [rid : Requests, role : Roles, wait : 0..MaxNow]
LogsTyped ==
  /\ sched \in [WorkerNames -> Seq(SchedLines)] /\ IsFiniteSet(SchedRecords)
  /\ \A p \in SchedRecords : LineAt(p).rid \in plan.requests /\ LineAt(p).role = Role[p[1]]
  /\ waited \in [Requests -> [Roles -> Nat]]

\* The queue times of a request's lines are what it waited.
Summed == \A r \in Requests, role \in Roles : Waits(WorkerWaits(r, role)) = waited[r][role]

\* The line of a worker's log about a request is one more.
LineOf(r, w, d) == [rid |-> r, role |-> Role[w], wait |-> d]
NewLine(p, r, w, d) ==
  /\ p \notin SchedRecords /\ SchedRecords' = SchedRecords \cup {p} /\ p[1] = w
  /\ LineAt(p)' = LineOf(r, w, d) /\ \A q \in SchedRecords : LineAt(q)' = LineAt(q)

LEMMA PlaceOf ==
  ASSUME NEW p
  PROVE  p \in SchedRecords <=>
           \E w \in WorkerNames : \E i \in 1..Len(sched[w]) : p = <<w, i>>
  BY DEF SchedRecords

LEMMA LineAdded ==
  ASSUME LogsTyped, NEW r \in Requests, NEW w \in WorkerNames, NEW d \in 0..MaxNow,
         sched' = [sched EXCEPT ![w] = Append(sched[w], LineOf(r, w, d))]
  PROVE  sched' \in [WorkerNames -> Seq(SchedLines)] /\ \E p : NewLine(p, r, w, d)
  <1>1. LineOf(r, w, d) \in SchedLines
    BY Given DEF LineOf, SchedLines
  <1>2. sched[w] \in Seq(SchedLines) /\ Len(sched[w]) \in Nat
    BY DEF LogsTyped
  <1> DEFINE s == Append(sched[w], LineOf(r, w, d))
             n == Len(sched[w])
  <1>3. /\ s \in Seq(SchedLines) /\ Len(s) = n + 1 /\ s[n + 1] = LineOf(r, w, d)
        /\ \A i \in 1..n : s[i] = sched[w][i]
    BY <1>1, <1>2
  <1> HIDE DEF s
  <1>4. sched' = [sched EXCEPT ![w] = s]
    BY DEF s
  <1>5. /\ sched' \in [WorkerNames -> Seq(SchedLines)] /\ sched'[w] = s
        /\ \A v \in WorkerNames \ {w} : sched'[v] = sched[v]
    BY <1>3, <1>4 DEF LogsTyped
  <1>6. n \in Nat /\ 1..(n + 1) = 1..n \cup {n + 1} /\ n + 1 \notin 1..n
    BY <1>2
  <1> HIDE DEF n
  <1>7. PICK p : p = <<w, n + 1>>
    OBVIOUS
  <1>8. p \notin SchedRecords
    BY <1>6, <1>7, PlaceOf DEF n
  <1>9. ASSUME NEW q
        PROVE  q \in SchedRecords' <=> q \in SchedRecords \/ q = p
    <2>1. q \in SchedRecords' <=>
            \E v \in WorkerNames : \E i \in 1..Len(sched'[v]) : q = <<v, i>>
      BY DEF SchedRecords
    <2>2. Len(sched'[w]) = n + 1 /\ \A v \in WorkerNames \ {w} : Len(sched'[v]) = Len(sched[v])
      BY <1>3, <1>5
    <2>3. q \in SchedRecords' <=>
            \/ \E v \in WorkerNames \ {w} : \E i \in 1..Len(sched[v]) : q = <<v, i>>
            \/ \E i \in 1..(n + 1) : q = <<w, i>>
      BY <2>1, <2>2
    <2>4. q \in SchedRecords <=>
            \/ \E v \in WorkerNames \ {w} : \E i \in 1..Len(sched[v]) : q = <<v, i>>
            \/ \E i \in 1..n : q = <<w, i>>
      BY PlaceOf DEF n
    <2>5. (\E i \in 1..(n + 1) : q = <<w, i>>) <=> (\E i \in 1..n : q = <<w, i>>) \/ q = p
      BY <1>6, <1>7
    <2>6. QED
      BY <2>3, <2>4, <2>5
  <1>10. LineAt(p)' = LineOf(r, w, d) /\ p[1] = w
    BY <1>3, <1>5, <1>7 DEF LineAt
  <1>11. ASSUME NEW q \in SchedRecords PROVE LineAt(q)' = LineAt(q)
    <2>1. PICK v \in WorkerNames : \E i \in 1..Len(sched[v]) : q = <<v, i>>
      BY PlaceOf
    <2>2. PICK i \in 1..Len(sched[v]) : q = <<v, i>>
      BY <2>1
    <2>3. sched'[v][i] = sched[v][i]
      BY <1>3, <1>5 DEF n
    <2>4. QED
      BY <2>2, <2>3 DEF LineAt
  <1>12. SchedRecords' = SchedRecords \cup {p}
    BY <1>9
  <1>13. \A q \in SchedRecords : LineAt(q)' = LineAt(q)
    BY <1>11
  <1>14. NewLine(p, r, w, d)
    BY <1>8, <1>10, <1>12, <1>13 DEF NewLine
  <1>15. QED
    BY <1>5, <1>14

LEMMA LineTyped ==
  ASSUME LogsTyped, NEW p \in SchedRecords
  PROVE  LineAt(p) \in SchedLines /\ LineAt(p).wait \in Nat /\ p[1] \in WorkerNames
  <1>1. PICK w \in WorkerNames : \E i \in 1..Len(sched[w]) : p = <<w, i>>
    BY PlaceOf
  <1>2. PICK i \in 1..Len(sched[w]) : p = <<w, i>>
    BY <1>1
  <1>3. sched[w] \in Seq(SchedLines)
    BY DEF LogsTyped
  <1>4. LineAt(p) \in SchedLines
    BY <1>2, <1>3 DEF LineAt
  <1>5. QED
    BY <1>2, <1>4, Given DEF SchedLines

LEMMA WaitsFinite ==
  ASSUME LogsTyped, NEW r, NEW role
  PROVE  /\ IsFiniteSet(WorkerWaits(r, role)) /\ IsFiniteSet(ByRole(role))
         /\ WorkerWaits(r, role) \subseteq ByRole(role) /\ ByRole(role) \subseteq SchedRecords
  <1>1. WorkerWaits(r, role) \subseteq ByRole(role) /\ ByRole(role) \subseteq SchedRecords
    BY DEF WorkerWaits, ByRole
  <1>2. IsFiniteSet(SchedRecords)
    BY DEF LogsTyped
  <1>3. IsFiniteSet(ByRole(role))
    BY <1>1, <1>2, FS_Subset
  <1>4. QED
    BY <1>1, <1>3, FS_Subset

\* Waiting once more.
Longer(times, r, role, d) == [times EXCEPT ![r][role] = @ + d]
LEMMA OneLonger ==
  ASSUME NEW times \in [Requests -> [Roles -> Nat]], NEW r \in Requests, NEW role \in Roles,
         NEW d \in Nat, NEW m, m = Longer(times, r, role, d)
  PROVE  /\ m \in [Requests -> [Roles -> Nat]] /\ m[r][role] = times[r][role] + d
         /\ \A o \in Requests : o # r => m[o] = times[o]
         /\ \A k \in Roles : k # role => m[r][k] = times[r][k]
  <1>1. times[r] \in [Roles -> Nat]
    OBVIOUS
  <1> DEFINE b == [times[r] EXCEPT ![role] = @ + d]
  <1>2. b \in [Roles -> Nat] /\ b[role] = times[r][role] + d
        /\ \A k \in Roles : k # role => b[k] = times[r][k]
    BY <1>1
  <1>3. m = [times EXCEPT ![r] = b]
    BY DEF Longer
  <1> HIDE DEF b
  <1>4. QED
    BY <1>2, <1>3

LEMMA SumsKept ==
  ASSUME Summed, UNCHANGED <<sched, waited>>
  PROVE  Summed'
  <1>1. \A r, role : Waits(WorkerWaits(r, role))' = Waits(WorkerWaits(r, role))
    BY DEF Waits, WorkerWaits, ByRole, SchedRecords, LineAt
  <1>2. QED
    BY <1>1 DEF Summed

LEMMA SumsGrow ==
  ASSUME LogsTyped, Summed, NEW r \in Requests, NEW w \in WorkerNames, NEW d \in 0..MaxNow,
         NEW p, NewLine(p, r, w, d), waited' = Longer(waited, r, Role[w], d)
  PROVE  Summed'
  <1>1. Role[w] \in Roles /\ d \in Nat
    BY Given
  <1>2. /\ waited'[r][Role[w]] = waited[r][Role[w]] + d
        /\ \A o \in Requests : o # r => waited'[o] = waited[o]
        /\ \A k \in Roles : k # Role[w] => waited'[r][k] = waited[r][k]
    <2>1. PICK times, m, k : times = waited /\ m = waited' /\ k = Role[w]
      OBVIOUS
    <2>2. times \in [Requests -> [Roles -> Nat]] /\ k \in Roles /\ m = Longer(times, r, k, d)
      BY <1>1, <2>1 DEF LogsTyped
    <2>3. /\ m[r][k] = times[r][k] + d
          /\ \A o \in Requests : o # r => m[o] = times[o]
          /\ \A j \in Roles : j # k => m[r][j] = times[r][j]
      BY <1>1, <2>2, OneLonger
    <2>4. QED
      BY <2>1, <2>3
  <1>3. LineAt(p)'.rid = r /\ LineAt(p)'.role = Role[w] /\ LineAt(p)'.wait = d
    BY DEF NewLine, LineOf
  <1>4. SUFFICES ASSUME NEW o \in Requests, NEW k \in Roles
                 PROVE  Waits(WorkerWaits(o, k))' = waited'[o][k]
    BY DEF Summed
  <1>5. PICK Q, f : Q = WorkerWaits(o, k) /\ f = [q \in Q |-> LineAt(q).wait]
    OBVIOUS
  <1>6. PICK R, g : R = WorkerWaits(o, k)' /\ g = [q \in R |-> LineAt(q)'.wait]
    OBVIOUS
  <1>7. SumOver(Q, f) = waited[o][k]
    BY <1>4, <1>5 DEF Summed, Waits
  <1>8. Waits(WorkerWaits(o, k))' = SumOver(R, g)
    BY <1>6 DEF Waits
  <1>9. IsFiniteSet(Q) /\ Q \subseteq SchedRecords
    BY <1>5, WaitsFinite
  <1>10. \A q \in Q : f[q] \in Int /\ f[q] = LineAt(q).wait
    BY <1>5, <1>9, LineTyped
  <1>11. \A q \in SchedRecords : LineAt(q)' = LineAt(q)
    BY DEF NewLine
  <1>12. p \notin SchedRecords /\ SchedRecords' = SchedRecords \cup {p}
    BY DEF NewLine
  <1>13. Q = {q \in SchedRecords : LineAt(q).role = k /\ LineAt(q).rid = o}
    BY <1>5 DEF WorkerWaits, ByRole
  <1>14. R = {q \in SchedRecords' : LineAt(q)'.role = k /\ LineAt(q)'.rid = o}
    BY <1>6 DEF WorkerWaits, ByRole
  <1>15. CASE o = r /\ k = Role[w]
    <2>1. R = Q \cup {p}
      BY <1>3, <1>11, <1>12, <1>13, <1>14, <1>15
    <2>2. /\ \A q \in Q : g[q] = f[q]
          /\ g[p] = d
      BY <1>3, <1>6, <1>9, <1>10, <1>11, <2>1
    <2>3. SumOver(Q, g) = SumOver(Q, f)
      BY <1>9, <1>10, <2>2, SumSame
    <2>4. p \notin Q /\ \A q \in Q \cup {p} : g[q] \in Int
      BY <1>1, <1>9, <1>10, <1>12, <2>2
    <2>5. SumOver(Q \cup {p}, g) = SumOver(Q, g) + g[p]
      BY <1>9, <2>4, SumAdd
    <2>6. QED
      BY <1>2, <1>7, <1>8, <1>15, <2>1, <2>2, <2>3, <2>5
  <1>16. CASE ~(o = r /\ k = Role[w])
    <2>1. R = Q
      BY <1>3, <1>11, <1>12, <1>13, <1>14, <1>16
    <2>2. \A q \in Q : g[q] = f[q]
      BY <1>6, <1>9, <1>10, <1>11, <2>1
    <2>3. SumOver(Q, g) = SumOver(Q, f)
      BY <1>9, <1>10, <2>2, SumSame
    <2>4. waited'[o][k] = waited[o][k]
      BY <1>2, <1>16
    <2>5. QED
      BY <1>7, <1>8, <2>1, <2>3, <2>4
  <1>17. QED
    BY <1>15, <1>16

\* What a request spent in queues it got out of.
Queue(r) == waited[r]["prefill"] + waited[r]["decode"]

\* The end of a request on its worker, with its line.
LEMMA LoggedAdds ==
  ASSUME ServingInv, LogsTyped, Summed, NEW r \in plan.requests, req[r].at = "running",
         Logged(r), plan' = plan
  PROVE  /\ LogsTyped' /\ Summed'
         /\ \A o \in Requests : o # r => waited'[o] = waited[o]
         /\ Queue(r)' <= Queue(r) + req[r].wait
         /\ Role[req[r].worker] = "decode" => waited'[r]["prefill"] = waited[r]["prefill"]
  <1>1. PICK w, d : w = req[r].worker /\ d = req[r].wait
    OBVIOUS
  <1>2. w \in WorkerNames /\ d \in 0..MaxNow /\ r \in Requests /\ d \in Nat /\ Role[w] \in Roles
    BY <1>1, Given DEF ServingInv, ServingTyped, Living, OnLive
  <1>3. Queue(r) \in Nat /\ waited[r]["prefill"] \in Nat /\ waited[r]["decode"] \in Nat
    BY <1>2 DEF LogsTyped, Queue, Roles
  <1>4. CASE Watched = "logs"
    <2>1. SchedLine(r) = LineOf(r, w, d)
      BY <1>1 DEF SchedLine, LineOf
    <2>2. /\ sched' = [sched EXCEPT ![w] = Append(sched[w], LineOf(r, w, d))]
          /\ waited' = Longer(waited, r, Role[w], d)
      BY <1>1, <1>2, <1>4, <2>1 DEF Logged, Longer, LogsTyped
    <2>3. sched' \in [WorkerNames -> Seq(SchedLines)] /\ \E p : NewLine(p, r, w, d)
      BY <1>2, <2>2, LineAdded
    <2>4. PICK p : NewLine(p, r, w, d)
      BY <2>3
    <2>5. Summed'
      BY <1>2, <2>2, <2>4, SumsGrow
    <2>6. PICK times, m, k : times = waited /\ m = waited' /\ k = Role[w]
      OBVIOUS
    <2>7. times \in [Requests -> [Roles -> Nat]] /\ k \in Roles /\ m = Longer(times, r, k, d)
      BY <1>2, <2>2, <2>6 DEF LogsTyped
    <2>8. /\ m \in [Requests -> [Roles -> Nat]] /\ m[r][k] = times[r][k] + d
          /\ \A o \in Requests : o # r => m[o] = times[o]
          /\ \A j \in Roles : j # k => m[r][j] = times[r][j]
      <3>1. r \in Requests /\ d \in Nat
        BY <1>2
      <3>2. QED
        BY ONLY <2>7, <3>1, OneLonger
    <2>9. IsFiniteSet(SchedRecords')
      <3>1. IsFiniteSet(SchedRecords) /\ SchedRecords' = SchedRecords \cup {p}
        BY <2>4 DEF NewLine, LogsTyped
      <3>2. QED
        BY <3>1, FS_AddElement
    <2>10. \A q \in SchedRecords' : LineAt(q)'.rid \in plan.requests /\ LineAt(q)'.role = Role[q[1]]
      BY <2>4 DEF NewLine, LineOf, LogsTyped
    <2>11. LogsTyped'
      BY <2>3, <2>6, <2>8, <2>9, <2>10 DEF LogsTyped
    <2>12. m[r]["prefill"] + m[r]["decode"] = Queue(r) + d
      <3>1. k = "prefill" \/ k = "decode"
        BY <2>7 DEF Roles
      <3>2. k = "prefill" => m[r]["prefill"] = waited[r]["prefill"] + d /\ m[r]["decode"] = waited[r]["decode"]
        BY <2>6, <2>8 DEF Roles
      <3>3. k = "decode" => m[r]["prefill"] = waited[r]["prefill"] /\ m[r]["decode"] = waited[r]["decode"] + d
        BY <2>6, <2>8 DEF Roles
      <3>4. QED
        BY <1>2, <1>3, <3>1, <3>2, <3>3 DEF Queue
    <2>13. Role[w] = "decode" => m[r]["prefill"] = waited[r]["prefill"]
      BY <2>6, <2>8 DEF Roles
    <2>14. QED
      BY <1>1, <1>2, <1>3, <2>5, <2>6, <2>8, <2>11, <2>12, <2>13 DEF Queue
  <1>5. CASE Watched # "logs"
    <2>1. sched' = sched /\ waited' = waited
      BY <1>5 DEF Logged
    <2>2. Summed'
      BY <2>1, SumsKept
    <2>3. LogsTyped'
      BY <2>1 DEF LogsTyped, SchedRecords, LineAt
    <2>4. Queue(r)' = Queue(r)
      BY <2>1 DEF Queue
    <2>5. QED
      BY <1>1, <1>2, <1>3, <2>1, <2>2, <2>3, <2>4
  <1>6. QED
    BY <1>4, <1>5

-------------------------------------------------------------------------------
(* Time in queues is part of the time since a request was sent *)

Asked(r) == req[r].at \in {"queued", "running", "lost"}
Timely(r) ==
  LET q == req[r] IN
  /\ q.at = "new" => Queue(r) = 0 /\ q.first = None /\ ~q.late
  /\ q.at = "queued" => q.from + Queue(r) <= q.since
  /\ q.at = "running" => q.from + Queue(r) + q.wait <= now
  /\ q.at = "lost" => q.from + Queue(r) <= now
  /\ Asked(r) /\ q.first # None =>
       /\ q.from <= q.first /\ q.first <= now
       /\ q.late \/ q.from + waited[r]["prefill"] <= q.first
       /\ q.at # "lost" /\ Role[q.worker] = "prefill" => q.late
TimelyInv == \A r \in Requests : Timely(r)

\* The numbers of a request.
LEMMA Numbers ==
  ASSUME ServingInv, LogsTyped, NEW r \in Requests
  PROVE  /\ now \in Nat /\ req[r] \in RequestState
         /\ req[r].from \in Nat /\ req[r].first \in Nat \cup {None} /\ None \notin Nat
         /\ req[r].late \in BOOLEAN
         /\ req[r].at = "queued" => req[r].since \in 0..now
         /\ req[r].at = "running" => req[r].wait \in Nat
         /\ Queue(r) \in Nat /\ waited[r]["prefill"] \in Nat
         /\ waited[r]["prefill"] <= Queue(r)
  <1>1. req[r] \in RequestState /\ OnLive(r)
    BY DEF ServingInv, ServingTyped, Living
  <1>2. now \in Nat /\ None \notin Nat
    BY Given DEF ServingInv, ServingTyped
  <1>3. waited[r]["prefill"] \in Nat /\ waited[r]["decode"] \in Nat
    BY DEF LogsTyped, Roles
  <1>4. req[r].at = "running" => req[r].wait \in Nat
    BY <1>1, Given DEF OnLive
  <1>5. QED
    BY <1>1, <1>2, <1>3, <1>4 DEF RequestState, OnLive, Queue

LEMMA TimelyRests ==
  ASSUME ServingInv, LogsTyped, NEW r \in Requests, Timely(r), req'[r] = req[r],
         waited'[r] = waited[r], now' \in Nat, now <= now'
  PROVE  Timely(r)'
  <1>1. Queue(r)' = Queue(r) /\ (Asked(r)' <=> Asked(r))
    BY DEF Queue, Asked
  <1>2. /\ now \in Nat /\ req[r].from \in Nat /\ req[r].first \in Nat \cup {None}
        /\ req[r].at = "running" => req[r].wait \in Nat
        /\ Queue(r) \in Nat
    BY Numbers
  <1>3. QED
    BY <1>1, <1>2 DEF Timely

LEMMA QueuedFields ==
  ASSUME NEW q \in RequestState, NEW w, NEW u, u = Queued(q, w)
  PROVE  /\ u.at = "queued" /\ u.worker = w /\ u.since = now
         /\ u.from = q.from /\ u.first = q.first /\ u.late = q.late
  BY DEF Queued, RequestState

\* A request that is asked for the first time,
LEMMA TimelyArrives ==
  ASSUME ServingInv, LogsTyped, NEW r \in Requests, Timely(r), NEW w \in WorkerNames, Arrive(r, w)
  PROVE  Timely(r)'
  <1>1. PICK q : q = [req[r] EXCEPT !.from = Clock]
    OBVIOUS
  <1>2. /\ now \in Nat /\ req[r] \in RequestState /\ Queue(r) \in Nat
        /\ req[r].at = "new" /\ Queue(r) = 0 /\ req[r].first = None /\ ~req[r].late
    BY Numbers DEF Arrive, Timely
  <1>3. q \in RequestState /\ q.from = Clock /\ q.first = None /\ Clock \in Nat /\ Clock <= now
    BY <1>1, <1>2 DEF RequestState, Clock
  <1>4. req'[r] = Queued(q, w)
    BY <1>1 DEF Arrive, ServingInv, ServingTyped
  <1>5. now' = now /\ Queue(r)' = Queue(r)
    BY DEF Arrive, Queue
  <1>6. /\ req'[r].at = "queued" /\ req'[r].since = now
        /\ req'[r].from = Clock /\ req'[r].first = None
    BY <1>3, <1>4, QueuedFields
  <1>7. QED
    BY <1>2, <1>3, <1>5, <1>6 DEF Timely

\* or again,
LEMMA TimelyResends ==
  ASSUME ServingInv, LogsTyped, NEW r \in Requests, Timely(r), NEW w \in WorkerNames, Resend(r, w)
  PROVE  Timely(r)'
  <1>1. PICK q : q = [req[r] EXCEPT !.late = req[r].first # None]
    OBVIOUS
  <1>2. /\ now \in Nat /\ req[r] \in RequestState /\ Queue(r) \in Nat
        /\ req[r].from \in Nat /\ req[r].first \in Nat \cup {None}
        /\ req[r].at = "lost" /\ req[r].from + Queue(r) <= now /\ Asked(r)
    BY Numbers DEF Resend, Timely, Asked
  <1>3. /\ q \in RequestState /\ q.from = req[r].from /\ q.first = req[r].first
        /\ q.late = (req[r].first # None)
    BY <1>1, <1>2 DEF RequestState
  <1>4. req'[r] = Queued(q, w)
    BY <1>1 DEF Resend, ServingInv, ServingTyped
  <1>5. now' = now /\ Queue(r)' = Queue(r) /\ waited'[r] = waited[r]
    BY DEF Resend, Queue
  <1>6. /\ req'[r].at = "queued" /\ req'[r].since = now /\ req'[r].from = req[r].from
        /\ req'[r].first = req[r].first /\ (req'[r].first # None => req'[r].late)
    <2>1. PICK u : u = req'[r]
      OBVIOUS
    <2>2. u = Queued(q, w)
      BY <1>4, <2>1
    <2>3. /\ u.at = "queued" /\ u.since = now /\ u.from = q.from
          /\ u.first = q.first /\ u.late = q.late
      BY <1>3, <2>2, QueuedFields
    <2>4. u.first # None => u.late
      BY <1>3, <2>3
    <2>5. QED
      BY <1>3, <2>1, <2>3, <2>4
  <1>7. req[r].first # None => req[r].from <= req[r].first /\ req[r].first <= now
    BY <1>2 DEF Timely
  <1>8. QED
    BY <1>2, <1>5, <1>6, <1>7 DEF Timely

\* one that goes on to decode,
LEMMA TimelyHandsOver ==
  ASSUME ServingInv, LogsTyped, LogsTyped', NEW r \in Requests, Timely(r), NEW w \in WorkerNames,
         HandOver(r, w), Queue(r)' <= Queue(r) + req[r].wait
  PROVE  Timely(r)'
  <1>1. /\ now \in Nat /\ req[r] \in RequestState /\ Queue(r) \in Nat
        /\ req[r].from \in Nat /\ req[r].first \in Nat \cup {None} /\ req[r].wait \in Nat
        /\ req[r].at = "running" /\ req[r].from + Queue(r) + req[r].wait <= now /\ Asked(r)
    BY Numbers DEF HandOver, Timely, Asked
  <1>2. Queue(r)' \in Nat
    BY DEF LogsTyped, Queue, Roles
  <1>3. req[r].first # None => req[r].from <= req[r].first /\ req[r].first <= now /\ req[r].late
    BY <1>1 DEF Timely, HandOver
  <1>4. req'[r] = Queued(req[r], w) /\ now' = now
    BY DEF HandOver, ServingInv, ServingTyped
  <1>5. /\ req'[r].at = "queued" /\ req'[r].since = now /\ req'[r].from = req[r].from
        /\ req'[r].first = req[r].first /\ req'[r].late = req[r].late
    <2>1. PICK q, u : q = req[r] /\ u = req'[r]
      OBVIOUS
    <2>2. q \in RequestState /\ u = Queued(q, w)
      BY <1>1, <1>4, <2>1
    <2>3. /\ u.at = "queued" /\ u.since = now /\ u.from = q.from
          /\ u.first = q.first /\ u.late = q.late
      BY <2>2, QueuedFields
    <2>4. QED
      BY <2>1, <2>3
  <1>6. req'[r].from + Queue(r)' <= now
    BY <1>1, <1>2, <1>5
  <1>7. QED
    BY <1>3, <1>4, <1>5, <1>6 DEF Timely

\* one that is scheduled, or answers its first token,
LEMMA TimelyRuns ==
  ASSUME ServingInv, LogsTyped, NEW r \in Requests, Timely(r), Schedule(r) \/ FirstToken(r)
  PROVE  Timely(r)'
  <1>1. /\ now \in Nat /\ req[r] \in RequestState /\ Queue(r) \in Nat
        /\ req[r].from \in Nat /\ req[r].first \in Nat \cup {None} /\ None \notin Nat
        /\ waited[r]["prefill"] \in Nat /\ waited[r]["prefill"] <= Queue(r)
        /\ req[r].at = "queued" => req[r].since \in 0..now
        /\ req[r].at = "running" => req[r].wait \in Nat
    BY Numbers
  <1>2. now' = now /\ Queue(r)' = Queue(r) /\ waited'[r] = waited[r]
    BY DEF Schedule, FirstToken, Queue
  <1>3. CASE Schedule(r)
    <2>1. req[r].at = "queued"
      BY <1>3 DEF Schedule
    <2>2. PICK q : q = [req[r] EXCEPT !.at = "running", !.wait = now - req[r].since]
      OBVIOUS
    <2>3. /\ q.at = "running" /\ q.wait = now - req[r].since /\ q.from = req[r].from
          /\ q.first = req[r].first /\ q.late = req[r].late /\ q.worker = req[r].worker
      BY <1>1, <2>2 DEF RequestState
    <2>4. req'[r] = q
      BY <1>3, <2>2 DEF Schedule, ServingInv, ServingTyped
    <2>5. req[r].from + Queue(r) <= req[r].since
      BY <2>1 DEF Timely
    <2>6. q.from + Queue(r) + q.wait <= now
      BY <1>1, <2>1, <2>3, <2>5
    <2>7. req[r].first # None =>
            /\ req[r].from <= req[r].first /\ req[r].first <= now
            /\ req[r].late \/ req[r].from + waited[r]["prefill"] <= req[r].first
            /\ Role[req[r].worker] = "prefill" => req[r].late
      BY <2>1 DEF Timely, Asked
    <2>8. QED
      BY <1>2, <2>3, <2>4, <2>6, <2>7 DEF Timely
  <1>4. CASE FirstToken(r)
    <2>1. req[r].at = "running" /\ Role[req[r].worker] = "decode"
      BY <1>4 DEF FirstToken
    <2>2. PICK q : q = [req[r] EXCEPT !.first = now]
      OBVIOUS
    <2>3. /\ q.at = "running" /\ q.wait = req[r].wait /\ q.from = req[r].from
          /\ q.first = now /\ q.late = req[r].late /\ q.worker = req[r].worker
      BY <1>1, <2>1, <2>2 DEF RequestState
    <2>4. req'[r] = q
      BY <1>4, <2>2 DEF FirstToken, ServingInv, ServingTyped
    <2>5. req[r].from + Queue(r) + req[r].wait <= now
      BY <2>1 DEF Timely
    <2>6. q.from <= now /\ q.from + waited[r]["prefill"] <= now
      BY <1>1, <2>1, <2>3, <2>5
    <2>7. QED
      BY <1>1, <1>2, <2>1, <2>3, <2>4, <2>5, <2>6 DEF Timely
  <1>5. QED
    BY <1>3, <1>4

\* and one whose worker died.
LEMMA TimelyCrashes ==
  ASSUME ServingInv, LogsTyped, NEW r \in Requests, Timely(r), NEW w, Crash(w)
  PROVE  Timely(r)'
  <1>1. /\ now \in Nat /\ req[r] \in RequestState /\ Queue(r) \in Nat
        /\ req[r].from \in Nat /\ req[r].first \in Nat \cup {None}
        /\ req[r].at = "queued" => req[r].since \in 0..now
        /\ req[r].at = "running" => req[r].wait \in Nat
    BY Numbers
  <1>2. now' = now /\ Queue(r)' = Queue(r) /\ waited'[r] = waited[r]
    BY DEF Crash, Queue
  <1>3. PICK q : q = [req[r] EXCEPT !.at = "lost", !.worker = None, !.wait = None, !.since = 0]
    OBVIOUS
  <1>4. q.at = "lost" /\ q.from = req[r].from /\ q.first = req[r].first /\ q.late = req[r].late
    BY <1>1, <1>3 DEF RequestState
  <1>5. req'[r] = IF req[r].worker = w /\ req[r].at \in {"queued", "running"} THEN q ELSE req[r]
    BY <1>3 DEF Crash
  <1>6. CASE req[r].worker = w /\ req[r].at \in {"queued", "running"}
    <2>1. req'[r] = q /\ Asked(r)
      BY <1>5, <1>6 DEF Asked
    <2>2. q.from + Queue(r) <= now
      BY <1>1, <1>4, <1>6 DEF Timely
    <2>3. QED
      BY <1>2, <1>4, <2>1, <2>2 DEF Timely
  <1>7. CASE ~(req[r].worker = w /\ req[r].at \in {"queued", "running"})
    <2>1. req'[r] = req[r]
      BY <1>5, <1>7
    <2>2. now' \in Nat /\ now <= now'
      BY <1>1, <1>2
    <2>3. QED
      BY <1>2, <2>1, <2>2, TimelyRests
  <1>8. QED
    BY <1>6, <1>7

-------------------------------------------------------------------------------
(* The lines of the frontend *)

Completion ==
  [rid : Requests, elapsed : Int, status : {"success", "error"}, late : BOOLEAN,
   ttft : Int \cup {None}]

\* What the line of a request says, beside what it waited.
Fits(line) ==
  LET r == line.rid IN
  /\ r \in plan.requests /\ Finished(r) /\ Queue(r) <= line.elapsed
  /\ line.ttft # None =>
       line.ttft <= line.elapsed /\ (line.late \/ waited[r]["prefill"] <= line.ttft)
FrontInv ==
  /\ frontend \in Seq(Completion) /\ (Watched # "logs" => frontend = <<>>)
  /\ \A i \in DOMAIN frontend : Fits(frontend[i])

LEMMA ParsedLine ==
  ASSUME FrontInv, NEW r \in DOMAIN ParseFrontend
  PROVE  \E i \in DOMAIN frontend : frontend[i].rid = r /\ ParseFrontend[r] = frontend[i]
  <1>1. frontend \in Seq(Completion) /\ Len(frontend) \in Nat /\ DOMAIN frontend = 1..Len(frontend)
    BY DEF FrontInv
  <1>2. PICK i \in 1..Len(frontend) : r = frontend[i].rid
    BY DEF ParseFrontend
  <1>3. LinesOf(r) \subseteq 0..Len(frontend) /\ LinesOf(r) # {}
    BY <1>1, <1>2 DEF LinesOf
  <1>4. Max(LinesOf(r)) \in LinesOf(r)
    BY <1>1, <1>3, MaxIsGreatest
  <1>5. ParseFrontend[r] = frontend[Max(LinesOf(r))]
    BY DEF ParseFrontend
  <1>6. QED
    BY <1>1, <1>4, <1>5 DEF LinesOf

\* A request whose line is written for the first time.
LEMMA LineParsed ==
  ASSUME FrontInv, NEW line \in Completion, frontend' = Append(frontend, line),
         \A i \in DOMAIN frontend : frontend[i].rid # line.rid
  PROVE  /\ frontend' \in Seq(Completion)
         /\ DOMAIN frontend' = DOMAIN frontend \cup {Len(frontend) + 1}
         /\ \A i \in DOMAIN frontend : frontend'[i] = frontend[i]
         /\ frontend'[Len(frontend) + 1] = line
         /\ DOMAIN ParseFrontend' = DOMAIN ParseFrontend \cup {line.rid}
         /\ line.rid \notin DOMAIN ParseFrontend /\ ParseFrontend'[line.rid] = line
         /\ \A r \in DOMAIN ParseFrontend : ParseFrontend'[r] = ParseFrontend[r]
  <1> DEFINE n == Len(frontend)
  <1>1. frontend \in Seq(Completion) /\ n \in Nat /\ DOMAIN frontend = 1..n
    BY DEF FrontInv
  <1>2. /\ frontend' \in Seq(Completion) /\ Len(frontend') = n + 1 /\ DOMAIN frontend' = 1..(n + 1)
        /\ \A i \in 1..n : frontend'[i] = frontend[i]
        /\ frontend'[n + 1] = line
    BY <1>1
  <1>3. 1..(n + 1) = 1..n \cup {n + 1} /\ n + 1 \notin 1..n /\ n + 1 \in Nat
    BY <1>1
  <1>4. DOMAIN ParseFrontend = {frontend[i].rid : i \in 1..n}
    BY DEF ParseFrontend
  <1>5. DOMAIN ParseFrontend' = {frontend'[i].rid : i \in 1..(n + 1)}
    BY <1>2 DEF ParseFrontend
  <1>6. ASSUME NEW r
        PROVE  LinesOf(r)' = LinesOf(r) \cup (IF r = line.rid THEN {n + 1} ELSE {})
    <2>1. LinesOf(r) = {i \in 1..n : frontend[i].rid = r}
      BY DEF LinesOf
    <2>2. LinesOf(r)' = {i \in 1..(n + 1) : frontend'[i].rid = r}
      BY <1>2 DEF LinesOf
    <2>3. QED
      BY <1>2, <1>3, <2>1, <2>2
  <1>7. \A r \in DOMAIN ParseFrontend' : ParseFrontend'[r] = frontend'[Max(LinesOf(r)')]
    BY DEF ParseFrontend
  <1>8. \A r \in DOMAIN ParseFrontend : ParseFrontend[r] = frontend[Max(LinesOf(r))]
    BY DEF ParseFrontend
  <1>9. line.rid \notin DOMAIN ParseFrontend
    BY <1>1, <1>4
  <1>10. DOMAIN ParseFrontend' = DOMAIN ParseFrontend \cup {line.rid}
    BY <1>2, <1>3, <1>4, <1>5
  <1> HIDE DEF n
  <1>11. ParseFrontend'[line.rid] = line
    <2>1. LinesOf(line.rid) = {}
      BY <1>1 DEF LinesOf, n
    <2>2. PICK T : T = LinesOf(line.rid)'
      OBVIOUS
    <2>3. T = {n + 1} /\ T \subseteq 0..(n + 1) /\ T # {}
      BY <1>3, <1>6, <2>1, <2>2
    <2>4. Max(T) \in T
      BY <1>3, <2>3, MaxIsGreatest
    <2>5. Max(LinesOf(line.rid)') = n + 1
      BY <2>2, <2>3, <2>4
    <2>6. line.rid \in DOMAIN ParseFrontend'
      BY <1>10
    <2>7. ParseFrontend'[line.rid] = frontend'[n + 1]
      BY <1>7, <2>5, <2>6
    <2>8. QED
      BY <1>2, <2>7
  <1>12. ASSUME NEW r \in DOMAIN ParseFrontend
         PROVE  ParseFrontend'[r] = ParseFrontend[r]
    <2>1. r # line.rid
      BY <1>9
    <2>2. LinesOf(r)' = LinesOf(r)
      BY <1>6, <2>1
    <2>3. LinesOf(r) \subseteq 0..n /\ LinesOf(r) # {} /\ LinesOf(r) \subseteq 1..n
      BY <1>1, <1>4 DEF LinesOf, n
    <2>4. Max(LinesOf(r)) \in LinesOf(r)
      BY <1>1, <2>3, MaxIsGreatest
    <2>5. PICK m : m = Max(LinesOf(r))
      OBVIOUS
    <2>6. m \in 1..n /\ ParseFrontend[r] = frontend[m]
      BY <1>8, <2>3, <2>4, <2>5
    <2>7. ParseFrontend'[r] = frontend'[m]
      BY <1>7, <1>10, <2>2, <2>5
    <2>8. frontend'[m] = frontend[m]
      BY <1>2, <2>6 DEF n
    <2>9. QED
      BY <2>6, <2>7, <2>8
  <1>13. QED
    BY <1>1, <1>2, <1>3, <1>9, <1>10, <1>11, <1>12 DEF n

\* The line of a request that is over.
CompletionOf(r, first, status) ==
  [rid |-> r, elapsed |-> now - req[r].from, status |-> status, late |-> req[r].late,
   ttft |-> IF first = None THEN None ELSE first - req[r].from]
LEMMA CompletedLine ==
  ASSUME ServingInv, LogsTyped, TimelyInv, NEW r \in plan.requests, NEW line,
         line = CompletionOf(r, req[r].first, IF req[r].at = "running" THEN "success" ELSE "error"),
         req[r].at \in {"running", "lost"}, Queue(r)' \in Nat, plan' = plan, req'[r].at = "done",
         waited'[r]["prefill"] = waited[r]["prefill"],
         Queue(r)' <= Queue(r) + (IF req[r].at = "running" THEN req[r].wait ELSE 0)
  PROVE  line \in Completion /\ line.rid = r /\ line.elapsed = now - req[r].from /\ Fits(line)'
  <1>1. r \in Requests
    BY Given DEF ServingInv, ServingTyped
  <1>2. /\ now \in Nat /\ req[r] \in RequestState
        /\ req[r].from \in Nat /\ req[r].first \in Nat \cup {None} /\ None \notin Nat
        /\ req[r].late \in BOOLEAN
        /\ req[r].at = "running" => req[r].wait \in Nat
        /\ Queue(r) \in Nat /\ waited[r]["prefill"] \in Nat
    BY <1>1, Numbers
  <1>3. Timely(r)
    BY <1>1 DEF TimelyInv
  <1>4. req[r].from + Queue(r)' <= now
    BY <1>2, <1>3 DEF Timely
  <1>5. req[r].first # None =>
          /\ req[r].from <= req[r].first /\ req[r].first <= now
          /\ req[r].late \/ req[r].from + waited[r]["prefill"] <= req[r].first
    BY <1>3 DEF Timely, Asked
  <1>6. /\ line.rid = r /\ line.elapsed = now - req[r].from /\ line.late = req[r].late
        /\ line.ttft = IF req[r].first = None THEN None ELSE req[r].first - req[r].from
        /\ line \in Completion
    <2>1. None \notin Int
      BY Given
    <2>2. QED
      BY <1>1, <1>2, <2>1 DEF CompletionOf, Completion
  <1>7. Queue(r)' <= line.elapsed
    BY <1>2, <1>4, <1>6
  <1>8. line.ttft # None => line.ttft <= line.elapsed /\ (line.late \/ waited[r]["prefill"] <= line.ttft)
    BY <1>2, <1>5, <1>6
  <1>9. Fits(line)'
    BY <1>6, <1>7, <1>8 DEF Fits, Finished
  <1>10. QED
    BY <1>6, <1>9

-------------------------------------------------------------------------------
(* The requests of a session, one after the other *)

Marks ==
  [sid : {Session[r] : r \in Requests}, ts : Nat, ev : {"query.start", "query.end", "llm.end"}]
ProfileTyped == profile \in Seq(Marks) /\ \A i \in DOMAIN profile : profile[i].ts <= now

\* Where a session's query begins, and what its requests took that are over.
Began(s) == profile[Max(Marked(s, "query.start"))].ts
Ended(s) == {r \in DOMAIN ParseFrontend : Session[r] = s}
Taken(s) == SumOver(Ended(s), [r \in Ended(s) |-> ParseFrontend[r].elapsed])
Reached(s) == Began(s) + Taken(s)

\* A request is sent when those before it are over, and the session ends after them all.
Sequential(s) ==
  /\ (\E r \in Mine(s) : req[r].at # "new") => Marked(s, "query.start") # {}
  /\ \A r \in Mine(s) : Asked(r) => Reached(s) <= req[r].from
  /\ (\E r \in Mine(s) : Finished(r)) => \E i \in EventsOf(s) : Reached(s) <= profile[i].ts
  /\ \A i \in Marked(s, "query.end") :
       Reached(s) <= profile[i].ts /\ \A r \in Mine(s) : Finished(r)

PlaceInTurn ==
  CHOOSE turn \in [plan.requests -> 1..Cardinality(plan.requests)] : InTurn(plan.requests, turn)
Orderly ==
  \A r, s \in plan.requests :
    Session[r] = Session[s] /\ PlaceInTurn[r] < PlaceInTurn[s] /\ req[s].at # "new" => Finished(r)

Sessions == {Session[r] : r \in plan.requests}
SessionInv ==
  ProfileTyped /\ (Watched = "logs" => Orderly /\ \A s \in Sessions : Sequential(s))

LEMMA EventTyped ==
  ASSUME ProfileTyped, NEW i \in DOMAIN profile
  PROVE  profile[i].ts \in Nat /\ profile[i].ts <= now
  <1>1. profile \in Seq(Marks)
    BY DEF ProfileTyped
  <1>2. profile[i] \in Marks
    BY <1>1
  <1>3. profile[i].ts \in Nat
    BY <1>2 DEF Marks
  <1>4. QED
    BY <1>3 DEF ProfileTyped

LEMMA EventPlaces ==
  ASSUME ProfileTyped, NEW s
  PROVE  /\ Len(profile) \in Nat /\ DOMAIN profile = 1..Len(profile)
         /\ EventsOf(s) \subseteq DOMAIN profile /\ EventsOf(s) \subseteq 0..Len(profile)
         /\ \A ev : Marked(s, ev) \subseteq EventsOf(s)
  <1>1. profile \in Seq(Marks)
    BY DEF ProfileTyped
  <1>2. Len(profile) \in Nat /\ DOMAIN profile = 1..Len(profile)
    BY <1>1
  <1>3. EventsOf(s) \subseteq 1..Len(profile) /\ \A ev : Marked(s, ev) \subseteq EventsOf(s)
    BY DEF EventsOf, Marked
  <1>4. 1..Len(profile) \subseteq 0..Len(profile)
    BY <1>2
  <1>5. QED
    BY <1>2, <1>3, <1>4

LEMMA BeganAt ==
  ASSUME ProfileTyped, NEW s, Marked(s, "query.start") # {}
  PROVE  /\ Max(Marked(s, "query.start")) \in EventsOf(s)
         /\ Max(Marked(s, "query.start")) \in DOMAIN profile
         /\ Began(s) \in Nat /\ Began(s) <= now
  <1>1. Marked(s, "query.start") \subseteq 0..Len(profile) /\ Len(profile) \in Nat
    BY EventPlaces
  <1>2. Max(Marked(s, "query.start")) \in Marked(s, "query.start")
    BY <1>1, MaxIsGreatest
  <1>3. /\ Max(Marked(s, "query.start")) \in EventsOf(s)
        /\ Max(Marked(s, "query.start")) \in DOMAIN profile
    BY <1>2, EventPlaces
  <1>4. PICK i : i = Max(Marked(s, "query.start"))
    OBVIOUS
  <1>5. i \in DOMAIN profile /\ Began(s) = profile[i].ts
    BY <1>3, <1>4 DEF Began
  <1>6. profile[i].ts \in Nat /\ profile[i].ts <= now
    BY <1>5, EventTyped
  <1>7. QED
    BY <1>3, <1>5, <1>6

\* A line more.
LEMMA MarkAdded ==
  ASSUME ProfileTyped, NEW e \in Marks, profile' = Append(profile, e), e.ts <= now', now' \in Nat,
         now <= now', now \in Nat
  PROVE  /\ ProfileTyped'
         /\ Len(profile) + 1 \notin DOMAIN profile
         /\ \A i \in DOMAIN profile : profile'[i] = profile[i]
         /\ profile'[Len(profile) + 1] = e
         /\ \A s : EventsOf(s)' = EventsOf(s) \cup (IF e.sid = s THEN {Len(profile) + 1} ELSE {})
         /\ \A s, ev : Marked(s, ev)' = Marked(s, ev)
                         \cup (IF e.sid = s /\ e.ev = ev THEN {Len(profile) + 1} ELSE {})
  <1> DEFINE n == Len(profile)
  <1>1. profile \in Seq(Marks) /\ n \in Nat /\ DOMAIN profile = 1..n
    BY DEF ProfileTyped
  <1>2. /\ profile' \in Seq(Marks) /\ Len(profile') = n + 1 /\ DOMAIN profile' = 1..(n + 1)
        /\ \A i \in 1..n : profile'[i] = profile[i]
        /\ profile'[n + 1] = e
    BY <1>1
  <1>3. 1..(n + 1) = 1..n \cup {n + 1} /\ n + 1 \notin 1..n
    BY <1>1
  <1>4. ProfileTyped'
    <2>1. ASSUME NEW i \in 1..(n + 1) PROVE profile'[i].ts <= now'
      <3>1. CASE i \in 1..n
        <4>1. profile[i].ts \in Nat /\ profile[i].ts <= now
          BY <1>1, <3>1, EventTyped
        <4>2. QED
          BY <1>2, <3>1, <4>1
      <3>2. CASE i = n + 1
        BY <1>2, <3>2
      <3>3. QED
        BY <1>3, <3>1, <3>2
    <2>2. QED
      BY <1>2, <2>1 DEF ProfileTyped
  <1>5. ASSUME NEW s
        PROVE  EventsOf(s)' = EventsOf(s) \cup (IF e.sid = s THEN {n + 1} ELSE {})
    <2>1. EventsOf(s) = {i \in 1..n : profile[i].sid = s}
      BY DEF EventsOf
    <2>2. EventsOf(s)' = {i \in 1..(n + 1) : profile'[i].sid = s}
      BY <1>2 DEF EventsOf
    <2>3. QED
      BY <1>2, <1>3, <2>1, <2>2
  <1>6. ASSUME NEW s, NEW ev
        PROVE  Marked(s, ev)' = Marked(s, ev) \cup (IF e.sid = s /\ e.ev = ev THEN {n + 1} ELSE {})
    <2>1. Marked(s, ev) = {i \in 1..n : profile[i].sid = s /\ profile[i].ev = ev}
      BY DEF EventsOf, Marked
    <2>2. Marked(s, ev)' = {i \in 1..(n + 1) : profile'[i].sid = s /\ profile'[i].ev = ev}
      BY <1>2 DEF EventsOf, Marked
    <2>3. QED
      BY <1>2, <1>3, <2>1, <2>2
  <1>7. QED
    BY <1>1, <1>2, <1>3, <1>4, <1>5, <1>6

\* What happened in a session stays so, while nothing happens in it.
SameEvents(s) ==
  EventsOf(s)' = EventsOf(s) /\ \A i \in EventsOf(s) : profile'[i] = profile[i]
SameEnds(s) ==
  Ended(s)' = Ended(s) /\ \A r \in Ended(s) : ParseFrontend'[r].elapsed = ParseFrontend[r].elapsed
SameStand(r) ==
  /\ req'[r].at = "new" <=> req[r].at = "new"
  /\ Finished(r)' <=> Finished(r)
  /\ Asked(r)' => Asked(r) /\ req'[r].from = req[r].from

LEMMA SameMarks ==
  ASSUME NEW s, SameEvents(s)
  PROVE  \A ev : Marked(s, ev)' = Marked(s, ev)
  BY DEF SameEvents, Marked

LEMMA SameTaken ==
  ASSUME NEW s, SameEnds(s)
  PROVE  Taken(s)' = Taken(s)
  <1>1. [r \in Ended(s)' |-> ParseFrontend'[r].elapsed] = [r \in Ended(s) |-> ParseFrontend[r].elapsed]
    BY DEF SameEnds
  <1>2. Ended(s)' = Ended(s)
    BY DEF SameEnds
  <1>3. QED
    BY <1>1, <1>2 DEF Taken

LEMMA SequentialKept ==
  ASSUME ProfileTyped, plan' = plan, NEW s \in Sessions, Sequential(s), SameEvents(s), SameEnds(s),
         \A r \in Mine(s) : SameStand(r)
  PROVE  Sequential(s)'
  <1>1. Mine(s)' = Mine(s) /\ \E r : r \in Mine(s)
    BY DEF Mine, Sessions
  <1>2. Taken(s)' = Taken(s) /\ \A ev : Marked(s, ev)' = Marked(s, ev)
    BY SameTaken, SameMarks
  <1>3. CASE \E r \in Mine(s) : req[r].at # "new"
    <2>1. Max(Marked(s, "query.start")) \in EventsOf(s)
      BY <1>3, BeganAt DEF Sequential
    <2>2. Reached(s)' = Reached(s)
      BY <1>2, <2>1 DEF Reached, Began, SameEvents
    <2>3. (\E r \in Mine(s)' : Finished(r)') => \E i \in EventsOf(s)' : Reached(s)' <= profile'[i].ts
      BY <1>1, <2>2 DEF Sequential, SameEvents, SameStand
    <2>4. \A r \in Mine(s)' : Asked(r)' => Reached(s)' <= req'[r].from
      BY <1>1, <2>2 DEF Sequential, SameStand
    <2>5. \A i \in Marked(s, "query.end")' : Reached(s)' <= profile'[i].ts /\ \A r \in Mine(s)' : Finished(r)'
      BY <1>1, <1>2, <2>2 DEF Sequential, SameEvents, SameStand, Marked
    <2>6. Marked(s, "query.start")' # {}
      BY <1>2, <1>3 DEF Sequential
    <2>7. QED
      BY <2>3, <2>4, <2>5, <2>6 DEF Sequential
  <1>4. CASE \A r \in Mine(s) : req[r].at = "new"
    <2>1. \A r \in Mine(s)' : req'[r].at = "new"
      BY <1>1, <1>4 DEF SameStand
    <2>2. Marked(s, "query.end")' = {}
      BY <1>1, <1>2, <1>4 DEF Sequential, Finished
    <2>3. QED
      BY <2>1, <2>2 DEF Sequential, Finished, Asked
  <1>5. QED
    BY <1>3, <1>4

LEMMA PlacesInTurn ==
  ASSUME plan \in Plans, Watched = "logs"
  PROVE  InTurn(plan.requests, PlaceInTurn) /\ \A r \in plan.requests : PlaceInTurn[r] \in Nat
  <1>1. IsFiniteSet(plan.requests)
        /\ \E turn \in [plan.requests -> 1..Cardinality(plan.requests)] : InTurn(plan.requests, turn)
    BY ServingAssumption DEF Watched
  <1>2. /\ PlaceInTurn \in [plan.requests -> 1..Cardinality(plan.requests)]
        /\ InTurn(plan.requests, PlaceInTurn)
    BY <1>1 DEF PlaceInTurn
  <1>3. Cardinality(plan.requests) \in Nat
    BY <1>1, FS_CardinalityType
  <1>4. \A r \in plan.requests : PlaceInTurn[r] \in 1..Cardinality(plan.requests)
    BY <1>2
  <1>5. QED
    BY <1>2, <1>3, <1>4

LEMMA OneAtATime ==
  ASSUME plan \in Plans, Watched = "logs", Orderly, NEW r \in plan.requests, Asked(r),
         NEW o \in plan.requests, Session[o] = Session[r], o # r
  PROVE  ~Asked(o)
  <1>1. SUFFICES ASSUME Asked(o) PROVE FALSE
    OBVIOUS
  <1>2. PlaceInTurn[r] # PlaceInTurn[o] /\ PlaceInTurn[r] \in Nat /\ PlaceInTurn[o] \in Nat
    BY PlacesInTurn DEF InTurn
  <1>3. ~Finished(r) /\ ~Finished(o) /\ req[r].at # "new" /\ req[o].at # "new"
    BY <1>1 DEF Finished, Asked
  <1>4. ~(PlaceInTurn[r] < PlaceInTurn[o]) /\ ~(PlaceInTurn[o] < PlaceInTurn[r])
    BY <1>3 DEF Orderly
  <1>5. QED
    BY <1>2, <1>4

LEMMA OrderlyKept ==
  ASSUME Orderly, plan' = plan,
         \A r \in plan.requests : (req'[r].at = "new" <=> req[r].at = "new") /\ (Finished(r) => Finished(r)')
  PROVE  Orderly'
  <1>1. PlaceInTurn' = PlaceInTurn
    BY DEF PlaceInTurn
  <1>2. QED
    BY <1>1 DEF Orderly

\* The next request of a session comes after all that are before it.
LEMMA OrderlyArrives ==
  ASSUME plan \in Plans, Watched = "logs", Orderly, NEW r \in plan.requests, NEW w, Arrive(r, w),
         \A o \in plan.requests : o # r => req'[o] = req[o]
  PROVE  Orderly'
  <1>1. PlaceInTurn' = PlaceInTurn /\ plan' = plan
    BY DEF PlaceInTurn, Arrive
  <1>2. \A o \in plan.requests : Finished(o) => Finished(o)'
    BY DEF Finished, Arrive
  <1>3. ASSUME NEW o \in plan.requests, Session[o] = Session[r], PlaceInTurn[o] < PlaceInTurn[r]
        PROVE  Finished(o)
    <2>1. o # r /\ PlaceInTurn[o] \in Nat /\ PlaceInTurn[r] \in Nat
      BY <1>3, PlacesInTurn
    <2>2. PICK b : b = Before[r]
      OBVIOUS
    <2>3. /\ b \in plan.requests /\ b # None /\ Session[b] = Session[r]
          /\ PlaceInTurn[o] <= PlaceInTurn[b] /\ PlaceInTurn[b] < PlaceInTurn[r]
      BY <1>3, <2>1, <2>2, PlacesInTurn DEF InTurn
    <2>4. Finished(b) /\ PlaceInTurn[b] \in Nat
      BY <2>2, <2>3, PlacesInTurn DEF Arrive
    <2>5. CASE o = b
      BY <2>4, <2>5
    <2>6. CASE o # b
      <3>1. PlaceInTurn[o] # PlaceInTurn[b]
        BY <1>3, <2>3, <2>6, PlacesInTurn DEF InTurn
      <3>2. PlaceInTurn[o] < PlaceInTurn[b]
        BY <2>1, <2>3, <2>4, <3>1
      <3>3. req[b].at # "new" /\ Session[o] = Session[b]
        BY <1>3, <2>3, <2>4 DEF Finished
      <3>4. QED
        BY <2>3, <3>2, <3>3 DEF Orderly
    <2>7. QED
      BY <2>5, <2>6
  <1>4. ASSUME NEW o \in plan.requests, NEW s \in plan.requests, Session[o] = Session[s],
               PlaceInTurn[o] < PlaceInTurn[s], req'[s].at # "new"
        PROVE  Finished(o)'
    <2>1. CASE s = r
      BY <1>2, <1>3, <1>4, <2>1
    <2>2. CASE s # r
      <3>1. req[s].at # "new"
        BY <1>4, <2>2
      <3>2. QED
        BY <1>2, <1>4, <3>1 DEF Orderly
    <2>3. QED
      BY <2>1, <2>2
  <1>5. QED
    BY <1>1, <1>4 DEF Orderly

\* Nothing of a session is over before one of its requests is.
LEMMA EndedAreFinished ==
  ASSUME plan \in Plans, FrontInv, NEW s
  PROVE  IsFiniteSet(Ended(s)) /\ \A r \in Ended(s) : r \in Mine(s) /\ Finished(r)
  <1>1. ASSUME NEW r \in Ended(s) PROVE r \in Mine(s) /\ Finished(r) /\ r \in plan.requests
    <2>1. r \in DOMAIN ParseFrontend /\ Session[r] = s
      BY DEF Ended
    <2>2. PICK i \in DOMAIN frontend : frontend[i].rid = r /\ ParseFrontend[r] = frontend[i]
      BY <2>1, ParsedLine
    <2>3. QED
      BY <2>1, <2>2 DEF FrontInv, Fits, Mine
  <1>2. Ended(s) \subseteq plan.requests /\ IsFiniteSet(plan.requests)
    BY <1>1, ServingAssumption
  <1>3. QED
    BY <1>1, <1>2, FS_Subset

LEMMA Unended ==
  ASSUME plan \in Plans, FrontInv, NEW s, \A r \in Mine(s) : ~Finished(r)
  PROVE  Taken(s) = 0
  <1>1. Ended(s) = {}
    BY EndedAreFinished
  <1>2. QED
    BY <1>1, SumEmpty DEF Taken

LEMMA SessionArrives ==
  ASSUME ServingInv, FrontInv, SessionInv, Watched = "logs", NEW r \in plan.requests, NEW w,
         Arrive(r, w), req'[r].at = "queued", req'[r].from = now,
         \A o \in plan.requests : o # r => req'[o] = req[o]
  PROVE  SessionInv'
  <1>1. /\ plan \in Plans /\ ProfileTyped /\ Orderly /\ \A s \in Sessions : Sequential(s)
        /\ r \in Requests /\ now \in Nat
    BY Given DEF SessionInv, ServingInv, ServingTyped
  <1>2. plan' = plan /\ now' = now /\ frontend' = frontend /\ Sessions' = Sessions
        /\ req[r].at = "new" /\ \A s : Mine(s)' = Mine(s)
    BY DEF Arrive, Sessions, Mine
  <1>3. Orderly'
    BY <1>1, OrderlyArrives
  <1>4. PICK s, e : s = Session[r] /\ e = [sid |-> s, ts |-> now, ev |-> "query.start"]
    OBVIOUS
  <1>5. s \in Sessions /\ r \in Mine(s) /\ Sequential(s) /\ s \in {Session[o] : o \in Requests}
    BY <1>1, <1>4 DEF Sessions, Mine
  <1>6. e \in Marks /\ e.ts = now /\ e.sid = s /\ e.ev = "query.start"
    BY <1>1, <1>4, <1>5 DEF Marks
  <1>7. \A z : Ended(z)' = Ended(z) /\ SameEnds(z) /\ Taken(z)' = Taken(z)
    BY <1>2 DEF Ended, ParseFrontend, LinesOf, SameEnds, Taken
  <1>8. \A z \in Sessions \ {s} : \A o \in Mine(z) : SameStand(o)
    <2>1. \A z \in Sessions \ {s} : \A o \in Mine(z) : o \in plan.requests /\ o # r
      BY <1>4 DEF Mine
    <2>2. QED
      BY <2>1 DEF SameStand, Finished, Asked
  <1>9. CASE \A o \in Mine(s) : req[o].at = "new"
    <2>1. profile' = Append(profile, e)
      BY <1>4, <1>9 DEF Arrive, Emitted
    <2>2. PICK n : n = Len(profile) + 1
      OBVIOUS
    <2>3. /\ ProfileTyped' /\ n \notin DOMAIN profile
          /\ \A i \in DOMAIN profile : profile'[i] = profile[i]
          /\ profile'[n] = e
          /\ \A z : EventsOf(z)' = EventsOf(z) \cup (IF e.sid = z THEN {n} ELSE {})
          /\ \A z, ev : Marked(z, ev)' = Marked(z, ev) \cup (IF e.sid = z /\ e.ev = ev THEN {n} ELSE {})
      BY <1>1, <1>2, <1>6, <2>1, <2>2, MarkAdded
    <2>4. ASSUME NEW z \in Sessions, z # s PROVE Sequential(z)'
      <3>1. SameEvents(z)
        BY <1>1, <1>6, <2>3, <2>4, EventPlaces DEF SameEvents
      <3>2. QED
        BY <1>1, <1>2, <1>7, <1>8, <2>4, <3>1, SequentialKept
    <2>5. Marked(s, "query.start")' = Marked(s, "query.start") \cup {n}
      BY <1>6, <2>3
    <2>6. Began(s)' = now
      <3>1. PICK T : T = Marked(s, "query.start")'
        OBVIOUS
      <3>2. Len(profile) \in Nat /\ DOMAIN profile = 1..Len(profile)
            /\ Marked(s, "query.start") \subseteq DOMAIN profile
        BY <1>1, EventPlaces
      <3>3. n \in Nat /\ T \subseteq 0..n /\ n \in T
        BY <2>2, <2>5, <3>1, <3>2
      <3>4. Max(T) \in T /\ n <= Max(T)
        BY <3>3, MaxIsGreatest
      <3>5. Max(T) = n
        <4>1. PICK m : m = Max(T)
          OBVIOUS
        <4>2. m \in 0..n /\ n <= m
          BY <3>3, <3>4, <4>1
        <4>3. QED
          BY <3>3, <4>1, <4>2
      <3>6. QED
        BY <1>6, <2>3, <3>1, <3>5 DEF Began
    <2>7. Taken(s)' = 0
      BY <1>1, <1>7, <1>9, Unended DEF Finished
    <2>8. Reached(s)' = now
      BY <1>1, <2>6, <2>7 DEF Reached
    <2>9. Marked(s, "query.end")' = {}
      BY <1>2, <1>5, <1>6, <2>3 DEF Sequential, Finished
    <2>10. \A o \in Mine(s) : ~Finished(o)' /\ (Asked(o)' => o = r)
      BY <1>9 DEF Finished, Asked, Mine
    <2>11. now <= now
      BY <1>1
    <2>12. Sequential(s)'
      BY <1>2, <2>5, <2>8, <2>9, <2>10, <2>11 DEF Sequential
    <2>13. QED
      BY <1>2, <1>3, <2>3, <2>4, <2>12 DEF SessionInv
  <1>10. CASE \E o \in Mine(s) : req[o].at # "new"
    <2>1. profile' = profile
      BY <1>4, <1>10 DEF Arrive
    <2>2. ProfileTyped' /\ \A z : SameEvents(z)
      BY <1>1, <1>2, <2>1 DEF ProfileTyped, SameEvents, EventsOf
    <2>3. ASSUME NEW z \in Sessions, z # s PROVE Sequential(z)'
      BY <1>1, <1>2, <1>7, <1>8, <2>2, <2>3, SequentialKept
    <2>4. Marked(s, "query.start") # {}
      BY <1>5, <1>10 DEF Sequential
    <2>5. Began(s) \in Nat /\ Began(s) <= now
      BY <1>1, <2>4, BeganAt
    <2>6. Reached(s) <= now
      <3>1. CASE \E o \in Mine(s) : Finished(o)
        <4>1. PICK i \in EventsOf(s) : Reached(s) <= profile[i].ts
          BY <1>5, <3>1 DEF Sequential
        <4>2. profile[i].ts \in Nat /\ profile[i].ts <= now
          BY <1>1, EventPlaces, EventTyped
        <4>3. Reached(s) \in Int
          <5>1. IsFiniteSet(Ended(s)) /\ \A o \in Ended(s) : ParseFrontend[o].elapsed \in Int
            <6>1. ASSUME NEW o \in Ended(s) PROVE ParseFrontend[o].elapsed \in Int
              <7>1. o \in DOMAIN ParseFrontend
                BY DEF Ended
              <7>2. PICK j \in DOMAIN frontend : ParseFrontend[o] = frontend[j]
                BY <7>1, ParsedLine
              <7>3. frontend[j] \in Completion
                BY DEF FrontInv
              <7>4. QED
                BY <7>2, <7>3 DEF Completion
            <6>2. QED
              BY <1>1, <6>1, EndedAreFinished
          <5>2. PICK f : f = [o \in Ended(s) |-> ParseFrontend[o].elapsed]
            OBVIOUS
          <5>3. \A o \in Ended(s) : f[o] \in Int
            BY <5>1, <5>2
          <5>4. SumOver(Ended(s), f) \in Int
            BY <5>1, <5>3, SumInt
          <5>5. QED
            BY <2>5, <5>2, <5>4 DEF Reached, Taken
        <4>4. QED
          BY <1>1, <4>1, <4>2, <4>3
      <3>2. CASE \A o \in Mine(s) : ~Finished(o)
        <4>1. Taken(s) = 0
          BY <1>1, <3>2, Unended
        <4>2. QED
          BY <2>5, <4>1 DEF Reached
      <3>3. QED
        BY <3>1, <3>2
    <2>7. Reached(s)' = Reached(s) /\ Marked(s, "query.start")' = Marked(s, "query.start")
          /\ EventsOf(s)' = EventsOf(s) /\ Marked(s, "query.end")' = Marked(s, "query.end")
      BY <1>7, <2>1 DEF Reached, Began, Marked, EventsOf
    <2>8. \A o \in Mine(s) : o # r => req'[o] = req[o]
      BY DEF Mine
    <2>9. Marked(s, "query.end") = {}
      BY <1>2, <1>5 DEF Sequential, Finished
    <2>10. \A o \in Mine(s) : Asked(o)' => Reached(s) <= req'[o].from
      BY <1>5, <2>6, <2>8 DEF Sequential, Asked
    <2>11. (\E o \in Mine(s) : Finished(o)') => \E i \in EventsOf(s) : Reached(s) <= profile[i].ts
      BY <1>5, <2>8 DEF Sequential, Finished
    <2>12. Sequential(s)'
      BY <1>2, <2>1, <2>4, <2>7, <2>9, <2>10, <2>11 DEF Sequential
    <2>13. QED
      BY <1>2, <1>3, <2>2, <2>3, <2>12 DEF SessionInv
  <1>11. QED
    BY <1>9, <1>10

LEMMA ElapsedTyped ==
  ASSUME FrontInv, NEW r \in DOMAIN ParseFrontend
  PROVE  ParseFrontend[r] \in Completion /\ ParseFrontend[r].elapsed \in Int /\ r \in Requests
  <1>1. PICK i \in DOMAIN frontend : frontend[i].rid = r /\ ParseFrontend[r] = frontend[i]
    BY ParsedLine
  <1>2. frontend[i] \in Completion
    BY DEF FrontInv
  <1>3. QED
    BY <1>1, <1>2 DEF Completion

\* What is over in a session takes it up to now.
LEMMA SessionCompletes ==
  ASSUME ServingInv, FrontInv, SessionInv, Watched = "logs", NEW r \in plan.requests, Asked(r),
         NEW line \in Completion, line.rid = r, line.elapsed = now - req[r].from,
         frontend' = Append(frontend, line),
         profile' = Emitted(Session[r], IF \A o \in Mine(Session[r]) \ {r} : Finished(o)
                                        THEN "query.end" ELSE "llm.end"),
         plan' = plan, now' = now, req'[r].at = "done",
         \A o \in plan.requests : o # r => req'[o] = req[o]
  PROVE  SessionInv'
  <1>1. /\ plan \in Plans /\ ProfileTyped /\ Orderly /\ \A s \in Sessions : Sequential(s)
        /\ r \in Requests /\ now \in Nat /\ req[r].from \in Nat
    BY Given DEF SessionInv, ServingInv, ServingTyped, RequestState
  <1>2. Sessions' = Sessions /\ ~Finished(r) /\ req[r].at # "new" /\ \A s : Mine(s)' = Mine(s)
    BY DEF Sessions, Mine, Asked, Finished
  <1>3. Orderly'
    <2>1. \A o \in plan.requests :
            (req'[o].at = "new" <=> req[o].at = "new") /\ (Finished(o) => Finished(o)')
      BY <1>2 DEF Finished
    <2>2. QED
      BY <1>1, <2>1, OrderlyKept
  <1>4. PICK s, over : s = Session[r] /\ over = (\A o \in Mine(s) \ {r} : Finished(o))
    OBVIOUS
  <1>5. PICK ev, e : ev = (IF over THEN "query.end" ELSE "llm.end") /\ e = [sid |-> s, ts |-> now, ev |-> ev]
    OBVIOUS
  <1>6. s \in Sessions /\ r \in Mine(s) /\ Sequential(s) /\ s \in {Session[o] : o \in Requests}
    BY <1>1, <1>4 DEF Sessions, Mine
  <1>7. e \in Marks /\ e.ts = now /\ e.sid = s /\ e.ev = ev /\ e.ev # "query.start"
        /\ (e.ev = "query.end" => over)
    BY <1>1, <1>5, <1>6 DEF Marks
  <1>8. profile' = Append(profile, e)
    BY <1>4, <1>5 DEF Emitted
  <1>9. PICK n : n = Len(profile) + 1
    OBVIOUS
  <1>10. /\ ProfileTyped' /\ n \notin DOMAIN profile
         /\ \A i \in DOMAIN profile : profile'[i] = profile[i]
         /\ profile'[n] = e
         /\ \A z : EventsOf(z)' = EventsOf(z) \cup (IF e.sid = z THEN {n} ELSE {})
         /\ \A z, k : Marked(z, k)' = Marked(z, k) \cup (IF e.sid = z /\ e.ev = k THEN {n} ELSE {})
    BY <1>1, <1>7, <1>8, <1>9, MarkAdded
  <1>11. \A i \in DOMAIN frontend : frontend[i].rid # line.rid
    BY <1>2 DEF FrontInv, Fits
  <1>12. /\ DOMAIN ParseFrontend' = DOMAIN ParseFrontend \cup {r}
         /\ r \notin DOMAIN ParseFrontend /\ ParseFrontend'[r] = line
         /\ \A o \in DOMAIN ParseFrontend : ParseFrontend'[o] = ParseFrontend[o]
    BY <1>11, LineParsed
  <1>13. ASSUME NEW z \in Sessions, z # s PROVE Sequential(z)'
    <2>1. SameEvents(z)
      BY <1>1, <1>7, <1>10, <1>13, EventPlaces DEF SameEvents
    <2>2. SameEnds(z)
      BY <1>4, <1>12, <1>13 DEF SameEnds, Ended
    <2>3. \A o \in Mine(z) : SameStand(o)
      <3>1. \A o \in Mine(z) : o \in plan.requests /\ o # r
        BY <1>4, <1>13 DEF Mine
      <3>2. QED
        BY <3>1 DEF SameStand, Finished, Asked
    <2>4. QED
      BY <1>1, <1>13, <2>1, <2>2, <2>3, SequentialKept
  <1>14. Ended(s)' = Ended(s) \cup {r} /\ r \notin Ended(s)
    BY <1>4, <1>12 DEF Ended
  <1>15. Taken(s) \in Int /\ Taken(s)' = Taken(s) + line.elapsed
    <2>1. PICK Q, f : Q = Ended(s) /\ f = [o \in Q |-> ParseFrontend[o].elapsed]
      OBVIOUS
    <2>2. PICK R, g : R = Ended(s)' /\ g = [o \in R |-> ParseFrontend'[o].elapsed]
      OBVIOUS
    <2>3. IsFiniteSet(Q) /\ Q \subseteq DOMAIN ParseFrontend /\ R = Q \cup {r} /\ r \notin Q
      BY <1>1, <1>14, <2>1, <2>2, EndedAreFinished DEF Ended
    <2>4. \A o \in Q : f[o] \in Int /\ g[o] = f[o]
      <3>1. ASSUME NEW o \in Q PROVE f[o] \in Int /\ g[o] = f[o]
        <4>1. o \in DOMAIN ParseFrontend /\ o \in R
          BY <2>3
        <4>2. ParseFrontend[o].elapsed \in Int
          BY <4>1, ElapsedTyped
        <4>3. QED
          BY <1>12, <2>1, <2>2, <4>1, <4>2
      <3>2. QED
        BY <3>1
    <2>5. g[r] = line.elapsed /\ line.elapsed \in Int
      BY <1>1, <1>12, <2>2, <2>3
    <2>6. SumOver(Q, f) \in Int /\ SumOver(Q, g) = SumOver(Q, f)
      BY <2>3, <2>4, SumInt, SumSame
    <2>7. \A o \in Q \cup {r} : g[o] \in Int
      BY <2>4, <2>5
    <2>8. SumOver(Q \cup {r}, g) = SumOver(Q, g) + g[r]
      <3>1. PICK x : x = r
        OBVIOUS
      <3>2. IsFiniteSet(Q) /\ x \notin Q
        BY <2>3, <3>1
      <3>3. \A o \in Q \cup {x} : g[o] \in Int
        BY <2>7, <3>1
      <3>4. SumOver(Q \cup {x}, g) = SumOver(Q, g) + g[x]
        BY ONLY <3>2, <3>3, SumAdd
      <3>5. QED
        BY <3>1, <3>4
    <2>9. Taken(s) = SumOver(Q, f) /\ Taken(s)' = SumOver(R, g)
      BY <2>1, <2>2 DEF Taken
    <2>10. QED
      BY <2>3, <2>5, <2>6, <2>8, <2>9
  <1>16. Marked(s, "query.start")' = Marked(s, "query.start") /\ Marked(s, "query.start") # {}
    BY <1>2, <1>6, <1>7, <1>10 DEF Sequential
  <1>17. Began(s)' = Began(s) /\ Began(s) \in Nat
    <2>1. PICK T : T = Marked(s, "query.start")
      OBVIOUS
    <2>2. Max(T) \in DOMAIN profile /\ Began(s) \in Nat
      BY <1>1, <1>16, <2>1, BeganAt
    <2>3. profile'[Max(T)] = profile[Max(T)]
      BY <1>10, <2>2
    <2>4. QED
      BY <1>16, <2>1, <2>2, <2>3 DEF Began
  <1>18. Reached(s)' <= now
    <2>1. Reached(s) <= req[r].from
      BY <1>6 DEF Sequential
    <2>2. QED
      BY <1>1, <1>15, <1>17, <2>1 DEF Reached
  <1>19. n \in EventsOf(s)' /\ profile'[n].ts = now
    BY <1>7, <1>10
  <1>20. Marked(s, "query.end") = {}
    BY <1>2, <1>6 DEF Sequential
  <1>21. \A i \in Marked(s, "query.end")' : i = n /\ over
    BY <1>7, <1>10, <1>20
  <1>22. \A o \in Mine(s) : ~Asked(o)'
    <2>1. ASSUME NEW o \in Mine(s) PROVE ~Asked(o)'
      <3>1. CASE o = r
        BY <3>1 DEF Asked
      <3>2. CASE o # r
        <4>1. o \in plan.requests /\ Session[o] = Session[r]
          BY <1>4 DEF Mine
        <4>2. ~Asked(o)
          BY <1>1, <3>2, <4>1, OneAtATime
        <4>3. QED
          BY <3>2, <4>1, <4>2 DEF Asked
      <3>3. QED
        BY <3>1, <3>2
    <2>2. QED
      BY <2>1
  <1>23. over => \A o \in Mine(s) : Finished(o)'
    BY <1>4 DEF Finished, Mine
  <1>24. Sequential(s)'
    BY <1>2, <1>16, <1>18, <1>19, <1>21, <1>22, <1>23 DEF Sequential
  <1>25. QED
    BY <1>2, <1>3, <1>10, <1>13, <1>24 DEF SessionInv

-------------------------------------------------------------------------------
(* What the logs say stays true *)

LogInv == LogsTyped /\ Summed /\ TimelyInv /\ FrontInv /\ SessionInv

\* What is over stays as it was.
Settled(r) == Finished(r) => Finished(r)' /\ waited'[r] = waited[r]
LEMMA FitsKept ==
  ASSUME NEW line, Fits(line), plan' = plan, Settled(line.rid)
  PROVE  Fits(line)'
  <1>1. PICK r : r = line.rid
    OBVIOUS
  <1>2. Finished(r)' /\ waited'[r] = waited[r]
    BY <1>1 DEF Fits, Settled
  <1>3. Queue(r)' = Queue(r)
    BY <1>2 DEF Queue
  <1>4. QED
    BY <1>1, <1>2, <1>3 DEF Fits

LEMMA FrontKept ==
  ASSUME FrontInv, UNCHANGED <<plan, frontend>>, \A r \in plan.requests : Settled(r)
  PROVE  FrontInv'
  <1>1. \A i \in DOMAIN frontend : Fits(frontend[i])'
    <2>1. ASSUME NEW i \in DOMAIN frontend PROVE Fits(frontend[i])'
      <3>1. Fits(frontend[i]) /\ Settled(frontend[i].rid)
        BY DEF FrontInv, Fits
      <3>2. PICK line : line = frontend[i]
        OBVIOUS
      <3>3. Fits(line)'
        BY <3>1, <3>2, FitsKept
      <3>4. QED
        BY <3>2, <3>3
    <2>2. QED
      BY <2>1
  <1>2. QED
    BY <1>1 DEF FrontInv, Watched

LEMMA FrontGrows ==
  ASSUME FrontInv, Watched = "logs", plan' = plan, \A r \in plan.requests : Settled(r),
         NEW line \in Completion, Fits(line)', ~Finished(line.rid), frontend' = Append(frontend, line)
  PROVE  FrontInv'
  <1>1. \A i \in DOMAIN frontend : frontend[i].rid # line.rid
    BY DEF FrontInv, Fits
  <1>2. PICK n : n = Len(frontend) + 1
    OBVIOUS
  <1>3. /\ frontend' \in Seq(Completion)
        /\ DOMAIN frontend' = DOMAIN frontend \cup {n}
        /\ \A i \in DOMAIN frontend : frontend'[i] = frontend[i]
        /\ frontend'[n] = line
    BY <1>1, <1>2, LineParsed
  <1>4. \A i \in DOMAIN frontend' : Fits(frontend[i])'
    <2>1. ASSUME NEW i \in DOMAIN frontend' PROVE Fits(frontend[i])'
      <3>1. PICK l : l = frontend'[i]
        OBVIOUS
      <3>2. CASE i = n
        BY <1>3, <3>1, <3>2
      <3>3. CASE i # n
        <4>1. i \in DOMAIN frontend /\ l = frontend[i]
          BY <1>3, <3>1, <3>3
        <4>2. Fits(l) /\ Settled(l.rid)
          BY <4>1 DEF FrontInv, Fits
        <4>3. Fits(l)'
          BY <4>2, FitsKept
        <4>4. QED
          BY <3>1, <4>3
      <3>4. QED
        BY <3>2, <3>3
    <2>2. QED
      BY <2>1
  <1>5. Watched' = "logs"
    BY DEF Watched
  <1>6. QED
    BY <1>3, <1>4, <1>5 DEF FrontInv

\* A step in which no request begins or ends.
LEMMA QuietSteps ==
  ASSUME ServingInv, LogInv, LogsTyped', Summed', UNCHANGED <<plan, frontend, profile>>,
         now' \in Nat, now <= now',
         \A r \in Requests : SameStand(r) /\ Settled(r) /\ Timely(r)'
  PROVE  LogInv'
  <1>1. plan.requests \subseteq Requests /\ plan \in Plans /\ now \in Nat
    BY Given DEF ServingInv, ServingTyped
  <1>2. FrontInv'
    BY <1>1, FrontKept DEF LogInv
  <1>3. ProfileTyped'
    <2>1. \A i \in DOMAIN profile : profile[i].ts \in Nat /\ profile[i].ts <= now
      BY EventTyped DEF LogInv, SessionInv
    <2>2. \A i \in DOMAIN profile : profile[i].ts <= now'
      BY <1>1, <2>1
    <2>3. QED
      BY <2>2 DEF LogInv, SessionInv, ProfileTyped
  <1>4. ASSUME Watched = "logs" PROVE Orderly'
    <2>1. \A r \in plan.requests :
            (req'[r].at = "new" <=> req[r].at = "new") /\ (Finished(r) => Finished(r)')
      BY <1>1 DEF SameStand
    <2>2. QED
      BY <1>4, <2>1, OrderlyKept DEF LogInv, SessionInv
  <1>5. ASSUME Watched = "logs", NEW s \in Sessions PROVE Sequential(s)'
    <2>1. SameEvents(s) /\ SameEnds(s)
      BY DEF SameEvents, SameEnds, EventsOf, Ended, ParseFrontend, LinesOf
    <2>2. \A r \in Mine(s) : SameStand(r)
      BY <1>1 DEF Mine
    <2>3. Sequential(s) /\ ProfileTyped
      BY <1>5 DEF LogInv, SessionInv
    <2>4. QED
      BY <2>1, <2>2, <2>3, SequentialKept
  <1>6. SessionInv'
    BY <1>3, <1>4, <1>5 DEF SessionInv, Sessions, Watched
  <1>7. QED
    BY <1>2, <1>6 DEF LogInv, TimelyInv

\* A step that ends one.
LEMMA RequestEnds ==
  ASSUME ServingInv, LogInv, LogsTyped', Summed', NEW r \in plan.requests,
         req[r].at \in {"running", "lost"}, NEW status,
         status = (IF req[r].at = "running" THEN "success" ELSE "error"),
         Completed(r, req[r].first, status), UNCHANGED <<plan, now>>,
         waited'[r]["prefill"] = waited[r]["prefill"],
         Queue(r)' <= Queue(r) + (IF req[r].at = "running" THEN req[r].wait ELSE 0),
         \A o \in Requests : o # r => waited'[o] = waited[o]
  PROVE  LogInv'
  <1>1. /\ plan.requests \subseteq Requests /\ plan \in Plans /\ now \in Nat /\ r \in Requests
        /\ Asked(r) /\ ~Finished(r)
    BY Given DEF ServingInv, ServingTyped, Asked, Finished
  <1>2. PICK line : line = CompletionOf(r, req[r].first, status)
    OBVIOUS
  <1>3. /\ frontend' = IF Watched = "logs" THEN Append(frontend, line) ELSE frontend
        /\ req' = [req EXCEPT ![r] = [Fresh EXCEPT !.at = "done"]]
        /\ profile' = Emitted(Session[r], IF \A o \in Mine(Session[r]) \ {r} : Finished(o)
                                          THEN "query.end" ELSE "llm.end")
    BY <1>2 DEF Completed, CompletionOf
  <1>4. req'[r].at = "done" /\ \A o \in Requests : o # r => req'[o] = req[o]
    <2>1. PICK q : q = [Fresh EXCEPT !.at = "done"]
      OBVIOUS
    <2>2. q.at = "done"
      BY <2>1 DEF Fresh
    <2>3. QED
      BY <1>1, <1>3, <2>1, <2>2 DEF ServingInv, ServingTyped
  <1>5. TimelyInv'
    <2>1. ASSUME NEW o \in Requests PROVE Timely(o)'
      <3>1. CASE o = r
        BY <1>4, <3>1 DEF Timely, Asked
      <3>2. CASE o # r
        <4>1. Timely(o) /\ LogsTyped /\ req'[o] = req[o] /\ waited'[o] = waited[o]
          BY <1>4, <3>2 DEF LogInv, TimelyInv
        <4>2. now' \in Nat /\ now <= now'
          BY <1>1
        <4>3. QED
          BY <4>1, <4>2, TimelyRests
      <3>3. QED
        BY <3>1, <3>2
    <2>2. QED
      BY <2>1 DEF TimelyInv
  <1>6. \A o \in plan.requests : Settled(o)
    BY <1>1, <1>4 DEF Settled, Finished
  <1>7. CASE Watched = "logs"
    <2>1. Queue(r)' \in Nat
      BY <1>1 DEF LogsTyped, Queue, Roles
    <2>2. line \in Completion /\ line.rid = r /\ line.elapsed = now - req[r].from /\ Fits(line)'
      BY <1>2, <1>4, <2>1, CompletedLine DEF LogInv
    <2>3. frontend' = Append(frontend, line)
      BY <1>3, <1>7
    <2>4. FrontInv'
      BY <1>1, <1>6, <1>7, <2>2, <2>3, FrontGrows DEF LogInv
    <2>5. \A o \in plan.requests : o # r => req'[o] = req[o]
      BY <1>1, <1>4
    <2>6. FrontInv /\ SessionInv
      BY DEF LogInv
    <2>7. SessionInv'
      BY <1>1, <1>3, <1>4, <1>7, <2>2, <2>3, <2>5, <2>6, SessionCompletes
    <2>8. QED
      BY <1>5, <2>4, <2>7 DEF LogInv
  <1>8. CASE Watched # "logs"
    <2>1. frontend' = frontend /\ profile' = profile /\ Watched' = Watched
      BY <1>3, <1>8 DEF Emitted, Watched
    <2>2. FrontInv'
      BY <1>6, <2>1, FrontKept DEF LogInv
    <2>3. SessionInv'
      BY <1>8, <2>1 DEF LogInv, SessionInv, ProfileTyped
    <2>4. QED
      BY <1>5, <2>2, <2>3 DEF LogInv
  <1>9. QED
    BY <1>7, <1>8

LEMMA StandsStill ==
  ASSUME NEW r, req'[r] = req[r], waited'[r] = waited[r]
  PROVE  SameStand(r) /\ Settled(r)
  BY DEF SameStand, Settled, Finished, Asked

\* A step of one request that was asked and still is.
LEMMA OneMovesOn ==
  ASSUME ServingInv, LogInv, LogsTyped', Summed', NEW r \in Requests, Asked(r), Asked(r)',
         req'[r].from = req[r].from, Timely(r)', UNCHANGED <<plan, now, frontend, profile>>,
         \A o \in Requests : o # r => req'[o] = req[o] /\ waited'[o] = waited[o]
  PROVE  LogInv'
  <1>1. now \in Nat /\ LogsTyped
    BY Given DEF ServingInv, ServingTyped, LogInv
  <1>2. SameStand(r) /\ Settled(r)
    BY DEF SameStand, Settled, Finished, Asked
  <1>3. ASSUME NEW o \in Requests PROVE SameStand(o) /\ Settled(o) /\ Timely(o)'
    <2>1. CASE o = r
      BY <1>2, <2>1
    <2>2. CASE o # r
      <3>1. req'[o] = req[o] /\ waited'[o] = waited[o] /\ Timely(o) /\ now' \in Nat /\ now <= now'
        BY <1>1, <2>2 DEF LogInv, TimelyInv
      <3>2. QED
        BY <1>1, <3>1, TimelyRests, StandsStill
    <2>3. QED
      BY <2>1, <2>2
  <1>4. QED
    BY <1>1, <1>3, QuietSteps

\* A step of none.
LEMMA NoneMoves ==
  ASSUME ServingInv, LogInv, now' \in Nat, now <= now',
         UNCHANGED <<plan, req, waited, sched, frontend, profile>>
  PROVE  LogInv'
  <1>1. LogsTyped' /\ Summed'
    BY SumsKept DEF LogInv, LogsTyped, SchedRecords, LineAt
  <1>2. LogsTyped /\ \A r \in Requests : Timely(r)
    BY DEF LogInv, TimelyInv
  <1>3. ASSUME NEW r \in Requests PROVE SameStand(r) /\ Settled(r) /\ Timely(r)'
    BY <1>2, TimelyRests, StandsStill
  <1>4. QED
    BY <1>1, <1>3, QuietSteps

LEMMA ArriveLogs ==
  ASSUME ServingInv, LogInv, NEW r \in plan.requests, NEW w \in WorkerNames, Arrive(r, w)
  PROVE  LogInv'
  <1>1. plan.requests \subseteq Requests /\ plan \in Plans /\ now \in Nat /\ r \in Requests
    BY Given DEF ServingInv, ServingTyped
  <1>2. UNCHANGED <<plan, now, sched, frontend, waited>> /\ req[r].at = "new" /\ ~Finished(r)
    BY DEF Arrive, Finished
  <1>3. \A o \in Requests : o # r => req'[o] = req[o]
    BY DEF Arrive
  <1>4. req'[r].at = "queued" /\ req'[r].from = Clock
    <2>1. PICK q : q = [req[r] EXCEPT !.from = Clock]
      OBVIOUS
    <2>2. req[r] \in RequestState
      BY <1>1 DEF ServingInv, ServingTyped
    <2>3. q \in RequestState /\ q.from = Clock
      BY <1>1, <2>1, <2>2 DEF RequestState, Clock
    <2>4. PICK u : u = Queued(q, w)
      OBVIOUS
    <2>5. u.at = "queued" /\ u.from = Clock
      BY <2>3, <2>4, QueuedFields
    <2>6. req'[r] = u
      BY <1>1, <2>1, <2>4 DEF Arrive, ServingInv, ServingTyped
    <2>7. QED
      BY <2>5, <2>6
  <1>5. LogsTyped' /\ Summed'
    BY <1>2, SumsKept DEF LogInv, LogsTyped, SchedRecords, LineAt
  <1>6. TimelyInv'
    <2>1. ASSUME NEW o \in Requests PROVE Timely(o)'
      <3>1. Timely(o) /\ LogsTyped
        BY DEF LogInv, TimelyInv
      <3>2. CASE o = r
        BY <1>1, <3>1, <3>2, TimelyArrives
      <3>3. CASE o # r
        <4>1. req'[o] = req[o] /\ waited'[o] = waited[o] /\ now' \in Nat /\ now <= now'
          BY <1>1, <1>2, <1>3, <3>3
        <4>2. QED
          BY <3>1, <4>1, TimelyRests
      <3>4. QED
        BY <3>2, <3>3
    <2>2. QED
      BY <2>1 DEF TimelyInv
  <1>7. FrontInv'
    <2>1. \A o \in plan.requests : Settled(o)
      BY <1>1, <1>2, <1>3 DEF Settled, Finished
    <2>2. QED
      BY <1>2, <2>1, FrontKept DEF LogInv
  <1>8. SessionInv'
    <2>1. CASE Watched = "logs"
      <3>1. req'[r].from = now /\ FrontInv /\ SessionInv
        BY <1>4, <2>1 DEF Clock, LogInv
      <3>2. QED
        BY <1>1, <1>3, <1>4, <2>1, <3>1, SessionArrives
    <2>2. CASE Watched # "logs"
      <3>1. profile' = profile /\ Watched' = Watched
        BY <1>2, <2>2 DEF Arrive, Emitted, Watched
      <3>2. QED
        BY <1>2, <2>2, <3>1 DEF LogInv, SessionInv, ProfileTyped
    <2>3. QED
      BY <2>1, <2>2
  <1>9. QED
    BY <1>5, <1>6, <1>7, <1>8 DEF LogInv

LEMMA ResendLogs ==
  ASSUME ServingInv, LogInv, NEW r \in plan.requests, NEW w \in WorkerNames, Resend(r, w)
  PROVE  LogInv'
  <1>1. r \in Requests /\ req[r] \in RequestState /\ now \in Nat
    BY Given DEF ServingInv, ServingTyped
  <1>2. UNCHANGED <<plan, now, sched, frontend, waited, profile>> /\ Asked(r)
    BY DEF Resend, Asked
  <1>3. LogsTyped' /\ Summed'
    BY <1>2, SumsKept DEF LogInv, LogsTyped, SchedRecords, LineAt
  <1>4. \A o \in Requests : o # r => req'[o] = req[o] /\ waited'[o] = waited[o]
    BY <1>2 DEF Resend
  <1>5. Asked(r)' /\ req'[r].from = req[r].from
    <2>1. PICK q : q = [req[r] EXCEPT !.late = req[r].first # None]
      OBVIOUS
    <2>2. q \in RequestState /\ q.from = req[r].from
      BY <1>1, <2>1 DEF RequestState
    <2>3. PICK u : u = Queued(q, w)
      OBVIOUS
    <2>4. u.at = "queued" /\ u.from = req[r].from
      BY <2>2, <2>3, QueuedFields
    <2>5. req'[r] = u
      BY <1>1, <2>1, <2>3 DEF Resend, ServingInv, ServingTyped
    <2>6. QED
      BY <2>4, <2>5 DEF Asked
  <1>6. Timely(r)'
    BY <1>1, TimelyResends DEF LogInv, TimelyInv
  <1>7. QED
    BY <1>1, <1>2, <1>3, <1>4, <1>5, <1>6, OneMovesOn

LEMMA HandOverLogs ==
  ASSUME ServingInv, LogInv, NEW r \in plan.requests, NEW w \in WorkerNames, HandOver(r, w)
  PROVE  LogInv'
  <1>1. r \in Requests /\ req[r] \in RequestState
    BY Given DEF ServingInv, ServingTyped
  <1>2. /\ UNCHANGED <<plan, now, frontend, profile>> /\ Asked(r) /\ Logged(r)
        /\ req[r].at = "running" /\ LogsTyped /\ Summed /\ Timely(r)
    BY <1>1 DEF HandOver, Asked, LogInv, TimelyInv
  <1>3. /\ LogsTyped' /\ Summed'
        /\ \A o \in Requests : o # r => waited'[o] = waited[o]
        /\ Queue(r)' <= Queue(r) + req[r].wait
    BY <1>2, LoggedAdds
  <1>4. \A o \in Requests : o # r => req'[o] = req[o]
    BY DEF HandOver
  <1>5. Asked(r)' /\ req'[r].from = req[r].from
    <2>1. PICK q : q = req[r]
      OBVIOUS
    <2>2. PICK u : u = Queued(q, w)
      OBVIOUS
    <2>3. u.at = "queued" /\ u.from = q.from
      BY <1>1, <2>1, <2>2, QueuedFields
    <2>4. req'[r] = u
      BY <1>1, <2>1, <2>2 DEF HandOver, ServingInv, ServingTyped
    <2>5. QED
      BY <2>1, <2>3, <2>4 DEF Asked
  <1>6. Timely(r)'
    BY <1>1, <1>2, <1>3, TimelyHandsOver
  <1>7. QED
    BY <1>1, <1>2, <1>3, <1>4, <1>5, <1>6, OneMovesOn

LEMMA RunLogs ==
  ASSUME ServingInv, LogInv, NEW r \in plan.requests, Schedule(r) \/ FirstToken(r)
  PROVE  LogInv'
  <1>1. r \in Requests /\ req[r] \in RequestState
    BY Given DEF ServingInv, ServingTyped
  <1>2. UNCHANGED <<plan, now, sched, frontend, waited, profile>> /\ Asked(r)
    BY DEF Schedule, FirstToken, Asked
  <1>3. LogsTyped' /\ Summed'
    BY <1>2, SumsKept DEF LogInv, LogsTyped, SchedRecords, LineAt
  <1>4. \A o \in Requests : o # r => req'[o] = req[o] /\ waited'[o] = waited[o]
    <2>1. ASSUME NEW o \in Requests, o # r PROVE req'[o] = req[o]
      <3>1. CASE Schedule(r)
        BY <2>1, <3>1 DEF Schedule, ServingInv, ServingTyped
      <3>2. CASE FirstToken(r)
        BY <2>1, <3>2 DEF FirstToken, ServingInv, ServingTyped
      <3>3. QED
        BY <3>1, <3>2
    <2>2. QED
      BY <1>2, <2>1
  <1>5. Asked(r)' /\ req'[r].from = req[r].from
    <2>1. PICK q, u : /\ q = [req[r] EXCEPT !.at = "running", !.wait = now - req[r].since]
                      /\ u = [req[r] EXCEPT !.first = now]
      OBVIOUS
    <2>2. q.at = "running" /\ q.from = req[r].from /\ u.at = req[r].at /\ u.from = req[r].from
      BY <1>1, <2>1 DEF RequestState
    <2>3. Schedule(r) => req'[r] = q
      BY <1>1, <2>1 DEF Schedule, ServingInv, ServingTyped
    <2>4. FirstToken(r) => req'[r] = u /\ req[r].at = "running"
      BY <1>1, <2>1 DEF FirstToken, ServingInv, ServingTyped
    <2>5. QED
      BY <2>2, <2>3, <2>4 DEF Asked
  <1>6. Timely(r)'
    BY <1>1, TimelyRuns DEF LogInv, TimelyInv
  <1>7. QED
    BY <1>1, <1>2, <1>3, <1>4, <1>5, <1>6, OneMovesOn

LEMMA CompleteLogs ==
  ASSUME ServingInv, LogInv, NEW r \in plan.requests, Complete(r)
  PROVE  LogInv'
  <1>1. /\ UNCHANGED <<plan, now>> /\ Logged(r) /\ LogsTyped /\ Summed
        /\ req[r].at = "running" /\ Role[req[r].worker] = "decode"
        /\ Completed(r, req[r].first, "success")
    BY DEF Complete, LogInv
  <1>2. /\ LogsTyped' /\ Summed'
        /\ \A o \in Requests : o # r => waited'[o] = waited[o]
        /\ Queue(r)' <= Queue(r) + req[r].wait
        /\ waited'[r]["prefill"] = waited[r]["prefill"]
    BY <1>1, LoggedAdds
  <1>3. QED
    BY <1>1, <1>2, RequestEnds

LEMMA GiveUpLogs ==
  ASSUME ServingInv, LogInv, NEW r \in plan.requests, GiveUp(r)
  PROVE  LogInv'
  <1>1. /\ UNCHANGED <<plan, now, sched, waited>> /\ req[r].at = "lost"
        /\ Completed(r, req[r].first, "error")
    BY DEF GiveUp
  <1>2. LogsTyped' /\ Summed'
    BY <1>1, SumsKept DEF LogInv, LogsTyped, SchedRecords, LineAt
  <1>3. Queue(r) \in Nat /\ Queue(r)' = Queue(r)
    <2>1. r \in Requests /\ LogsTyped
      BY Given DEF ServingInv, ServingTyped, LogInv
    <2>2. QED
      BY <1>1, <2>1, Numbers DEF Queue
  <1>4. Queue(r)' <= Queue(r) + 0
    BY <1>3
  <1>5. QED
    BY <1>1, <1>2, <1>4, RequestEnds

LEMMA CrashLogs ==
  ASSUME ServingInv, LogInv, NEW w \in WorkerNames, Crash(w)
  PROVE  LogInv'
  <1>1. now \in Nat /\ LogsTyped /\ \A r \in Requests : Timely(r) /\ req[r] \in RequestState
    BY Given DEF ServingInv, ServingTyped, LogInv, TimelyInv
  <1>2. UNCHANGED <<plan, now, sched, frontend, waited, profile>>
    BY DEF Crash
  <1>3. LogsTyped' /\ Summed'
    BY <1>2, SumsKept DEF LogInv, LogsTyped, SchedRecords, LineAt
  <1>4. ASSUME NEW r \in Requests PROVE SameStand(r) /\ Settled(r) /\ Timely(r)'
    <2>1. Timely(r)'
      BY <1>1, TimelyCrashes
    <2>2. PICK q : q = [req[r] EXCEPT !.at = "lost", !.worker = None, !.wait = None, !.since = 0]
      OBVIOUS
    <2>3. q.at = "lost" /\ q.from = req[r].from
      BY <1>1, <2>2 DEF RequestState
    <2>4. req'[r] = IF req[r].worker = w /\ req[r].at \in {"queued", "running"} THEN q ELSE req[r]
      BY <2>2 DEF Crash
    <2>5. CASE req[r].worker = w /\ req[r].at \in {"queued", "running"}
      BY <2>1, <2>3, <2>4, <2>5 DEF SameStand, Settled, Finished, Asked
    <2>6. CASE ~(req[r].worker = w /\ req[r].at \in {"queued", "running"})
      BY <1>2, <2>1, <2>4, <2>6, StandsStill
    <2>7. QED
      BY <2>5, <2>6
  <1>5. now' \in Nat /\ now <= now'
    BY <1>1, <1>2
  <1>6. QED
    BY <1>2, <1>3, <1>4, <1>5, QuietSteps

LEMMA LogStarts == ServingInit => LogInv
  <1> SUFFICES ASSUME ServingInit PROVE LogInv
    OBVIOUS
  <1>1. SchedRecords = {}
    BY DEF ServingInit, SchedRecords
  <1>2. LogsTyped
    <2>1. sched \in [WorkerNames -> Seq(SchedLines)] /\ waited \in [Requests -> [Roles -> Nat]]
      BY DEF ServingInit
    <2>2. QED
      BY <1>1, <2>1, FS_EmptySet DEF LogsTyped
  <1>3. Summed
    <2>1. \A r, role : WorkerWaits(r, role) = {}
      BY <1>1 DEF WorkerWaits, ByRole
    <2>2. QED
      BY <2>1, SumEmpty DEF Summed, Waits, ServingInit
  <1>4. TimelyInv
    BY DEF ServingInit, Fresh, TimelyInv, Timely, Asked, Queue, Roles
  <1>5. FrontInv /\ ProfileTyped
    BY DEF ServingInit, FrontInv, ProfileTyped
  <1>6. Orderly
    BY Given DEF ServingInit, Orderly, Fresh
  <1>7. \A s : Marked(s, "query.end") = {}
    BY DEF Marked, EventsOf, ServingInit
  <1>8. \A s : \A r \in Mine(s) : req[r].at = "new"
    BY Given DEF ServingInit, Fresh, Mine
  <1>9. \A s \in Sessions : Sequential(s)
    BY <1>7, <1>8 DEF Sequential, Asked, Finished
  <1>10. QED
    BY <1>2, <1>3, <1>4, <1>5, <1>6, <1>9 DEF LogInv, SessionInv

LEMMA LogSteps == ServingInv /\ LogInv /\ [ServingNext]_servingVars => LogInv'
  <1> SUFFICES ASSUME ServingInv, LogInv, [ServingNext]_servingVars PROVE LogInv'
    OBVIOUS
  <1>1. now \in Nat /\ \A w \in Running : w \in WorkerNames
    BY Given DEF ServingInv, ServingTyped, Running
  <1>2. CASE Pass
    <2>1. now' \in Nat /\ now <= now' /\ UNCHANGED <<plan, req, waited, sched, frontend, profile>>
      BY <1>1, <1>2 DEF Pass
    <2>2. QED
      BY <2>1, NoneMoves
  <1>3. CASE \E r \in plan.requests, w \in Running : Arrive(r, w) \/ HandOver(r, w) \/ Resend(r, w)
    BY <1>1, <1>3, ArriveLogs, HandOverLogs, ResendLogs
  <1>4. CASE \E r \in plan.requests : Schedule(r) \/ FirstToken(r) \/ Complete(r) \/ GiveUp(r)
    BY <1>4, RunLogs, CompleteLogs, GiveUpLogs
  <1>5. CASE \E w \in Running : Crash(w)
    BY <1>1, <1>5, CrashLogs
  <1>6. CASE (\E w \in Running : Restart(w)) \/ BeginTick \/ ScrapeOne \/ UNCHANGED servingVars
    <2>1. UNCHANGED <<plan, now, req, waited, sched, frontend, profile>>
      BY <1>6 DEF Restart, BeginTick, ScrapeOne, servingVars
    <2>2. now' \in Nat /\ now <= now'
      BY <1>1, <2>1
    <2>3. QED
      BY <2>1, <2>2, NoneMoves
  <1>7. QED
    BY <1>2, <1>3, <1>4, <1>5, <1>6 DEF ServingNext

LEMMA LogInvariant == ServingSpec => [](ServingInv /\ LogInv)
  BY ServingInvariant, LogStarts, LogSteps, PTL DEF ServingSpec

-------------------------------------------------------------------------------
(* What the scripts join *)

LEMMA RowOf ==
  ASSUME ServingInv, LogInv, NEW r \in DOMAIN ParseFrontend
  PROVE  /\ r \in plan.requests /\ r \in Requests /\ Finished(r)
         /\ \A k \in Roles : OrZero(Joined(r)[k]) = waited[r][k]
         /\ TotalWait(Joined(r)) = Queue(r) /\ Queue(r) \in Nat
         /\ Joined(r).total = ParseFrontend[r].elapsed /\ Joined(r).ttft = ParseFrontend[r].ttft
         /\ Joined(r).prefill = None \/ Joined(r).prefill = waited[r]["prefill"]
         /\ waited[r]["prefill"] \in Nat
  <1>1. r \in plan.requests /\ Finished(r)
    BY ParsedLine DEF LogInv, FrontInv, Fits
  <1>2. r \in Requests
    BY <1>1, Given DEF ServingInv, ServingTyped
  <1>3. waited[r]["prefill"] \in Nat /\ waited[r]["decode"] \in Nat
    BY <1>2 DEF LogInv, LogsTyped, Roles
  <1>4. \A k \in Roles : Waits(WorkerWaits(r, k)) = waited[r][k]
    BY <1>2 DEF LogInv, Summed
  <1>5. PICK p, d : p = Waits(WorkerWaits(r, "prefill")) /\ d = Waits(WorkerWaits(r, "decode"))
    OBVIOUS
  <1>6. p = waited[r]["prefill"] /\ d = waited[r]["decode"] /\ p \in Nat /\ d \in Nat
    BY <1>3, <1>4, <1>5 DEF Roles
  <1>7. None \notin Int
    BY Given
  <1>8. p # None /\ d # None
    BY <1>6, <1>7
  <1>9. (WorkerWaits(r, "prefill") = {} => p = 0) /\ (WorkerWaits(r, "decode") = {} => d = 0)
    BY <1>5, SumEmpty DEF Waits
  <1>10. PICK row : row = Joined(r)
    OBVIOUS
  <1>11. /\ row.total = ParseFrontend[r].elapsed /\ row.ttft = ParseFrontend[r].ttft
         /\ row.prefill = IF WorkerWaits(r, "prefill") = {} THEN None ELSE p
         /\ row.decode = IF WorkerWaits(r, "decode") = {} THEN None ELSE d
    BY <1>5, <1>10 DEF Joined
  <1>12. OrZero(row.prefill) = p /\ OrZero(row.decode) = d
    BY <1>8, <1>9, <1>11 DEF OrZero
  <1>13. \A k \in Roles : OrZero(row[k]) = waited[r][k]
    BY <1>6, <1>12 DEF Roles
  <1>14. TotalWait(row) = Queue(r) /\ Queue(r) \in Nat
    BY <1>6, <1>12 DEF TotalWait, Queue
  <1>15. row.prefill = None \/ row.prefill = waited[r]["prefill"]
    BY <1>6, <1>11
  <1>16. QED
    BY <1>1, <1>2, <1>3, <1>10, <1>11, <1>13, <1>14, <1>15

LEMMA RequestsAddUp ==
  ASSUME ServingInv, LogInv, NEW r \in DOMAIN ParseFrontend
  PROVE  LET row == Joined(r) IN
         /\ OrZero(row.prefill) = waited[r]["prefill"] /\ OrZero(row.decode) = waited[r]["decode"]
         /\ TotalWait(row) <= row.total
         /\ row.ttft # None => row.ttft <= row.total
         /\ PrefillCompute(row) # None /\ ~ParseFrontend[r].late => PrefillCompute(row) >= 0
  <1>1. PICK row, line : row = Joined(r) /\ line = ParseFrontend[r]
    OBVIOUS
  <1>2. /\ \A k \in Roles : OrZero(row[k]) = waited[r][k]
        /\ TotalWait(row) = Queue(r) /\ Queue(r) \in Nat
        /\ row.total = line.elapsed /\ row.ttft = line.ttft
        /\ row.prefill = None \/ row.prefill = waited[r]["prefill"]
        /\ waited[r]["prefill"] \in Nat
    BY <1>1, RowOf
  <1>3. Fits(line) /\ line.rid = r
    BY <1>1, ParsedLine DEF LogInv, FrontInv
  <1>4. line \in Completion
    BY <1>1, ElapsedTyped DEF LogInv
  <1>5. /\ Queue(r) <= line.elapsed
        /\ line.ttft # None =>
             line.ttft <= line.elapsed /\ (line.late \/ waited[r]["prefill"] <= line.ttft)
    BY <1>3 DEF Fits
  <1>6. OrZero(row.prefill) = waited[r]["prefill"] /\ OrZero(row.decode) = waited[r]["decode"]
    BY <1>2 DEF Roles
  <1>7. line.ttft \in Int \cup {None}
    BY <1>4 DEF Completion
  <1>8. ASSUME PrefillCompute(row) # None, ~line.late PROVE PrefillCompute(row) >= 0
    <2>1. row.ttft # None /\ row.prefill # None /\ PrefillCompute(row) = row.ttft - row.prefill
      BY <1>8 DEF PrefillCompute
    <2>2. waited[r]["prefill"] <= line.ttft /\ line.ttft \in Int /\ row.prefill = waited[r]["prefill"]
      BY <1>2, <1>5, <1>7, <1>8, <2>1
    <2>3. QED
      BY <1>2, <2>1, <2>2
  <1>9. QED
    BY <1>1, <1>2, <1>5, <1>6, <1>8

LEMMA SessionsAddUp ==
  ASSUME ServingInv, LogInv, NEW o \in DOMAIN ParseFrontend, NEW s, s = Session[o]
  PROVE  SessionWait(s).total <= SessionWindow(s)[2] - SessionWindow(s)[1]
  <1>1. o \in plan.requests /\ Finished(o)
    BY RowOf
  <1>2. Watched = "logs"
    BY ParsedLine DEF LogInv, FrontInv
  <1>3. s \in Sessions /\ o \in Mine(s) /\ req[o].at # "new"
    BY <1>1 DEF Sessions, Mine, Finished
  <1>4. /\ ProfileTyped /\ Sequential(s) /\ plan \in Plans /\ now \in Nat /\ FrontInv
    BY <1>2, <1>3, Given DEF LogInv, SessionInv, ServingInv, ServingTyped
  <1>5. Marked(s, "query.start") # {} /\ \E i \in EventsOf(s) : Reached(s) <= profile[i].ts
    BY <1>1, <1>3, <1>4 DEF Sequential
  <1>6. Began(s) \in Nat
    BY <1>4, <1>5, BeganAt
  <1>7. Taken(s) \in Int
    <2>1. PICK f : f = [r \in Ended(s) |-> ParseFrontend[r].elapsed]
      OBVIOUS
    <2>2. ASSUME NEW r \in Ended(s) PROVE f[r] \in Int
      <3>1. r \in DOMAIN ParseFrontend
        BY DEF Ended
      <3>2. QED
        BY <1>4, <2>1, <3>1, ElapsedTyped
    <2>3. IsFiniteSet(Ended(s))
      BY <1>4, EndedAreFinished
    <2>4. SumOver(Ended(s), f) \in Int
      BY <2>2, <2>3, SumInt
    <2>5. QED
      BY <2>1, <2>4 DEF Taken
  <1>8. SessionWait(s).total = Taken(s)
    <2>1. PICK Q : Q = Ended(s)
      OBVIOUS
    <2>2. Q = {r \in DOMAIN ParseFrontend : Session[r] = s}
      BY <2>1 DEF Ended
    <2>3. SessionWait(s).total = SumOver(Q, [r \in Q |-> Joined(r).total])
      BY <2>2 DEF SessionWait
    <2>4. \A r \in Q : Joined(r).total = ParseFrontend[r].elapsed
      BY <2>2, RowOf
    <2>5. [r \in Q |-> Joined(r).total] = [r \in Q |-> ParseFrontend[r].elapsed]
      BY <2>4
    <2>6. QED
      BY <2>1, <2>3, <2>5 DEF Taken
  <1>9. PICK ends, times : ends = Marked(s, "query.end") /\ times = {profile[i].ts : i \in EventsOf(s)}
    OBVIOUS
  <1>10. /\ SessionWindow(s)[1] = Began(s)
         /\ SessionWindow(s)[2] = IF ends # {} THEN profile[Max(ends)].ts ELSE Max(times)
    BY <1>9 DEF SessionWindow, Began
  <1>11. Reached(s) <= SessionWindow(s)[2] /\ SessionWindow(s)[2] \in Nat
    <2>1. CASE ends # {}
      <3>1. ends \subseteq 0..Len(profile) /\ Len(profile) \in Nat /\ ends \subseteq DOMAIN profile
        BY <1>4, <1>9, EventPlaces
      <3>2. Max(ends) \in ends
        BY <2>1, <3>1, MaxIsGreatest
      <3>3. Reached(s) <= profile[Max(ends)].ts
        BY <1>4, <1>9, <3>2 DEF Sequential
      <3>4. profile[Max(ends)].ts \in Nat
        BY <1>4, <3>1, <3>2, EventTyped
      <3>5. QED
        BY <1>10, <2>1, <3>3, <3>4
    <2>2. CASE ends = {}
      <3>1. PICK i \in EventsOf(s) : Reached(s) <= profile[i].ts
        BY <1>5
      <3>2. \A j \in EventsOf(s) : profile[j].ts \in Nat /\ profile[j].ts <= now
        BY <1>4, EventPlaces, EventTyped
      <3>3. profile[i].ts \in times /\ times # {} /\ times \subseteq 0..now
        BY <1>4, <1>9, <3>2
      <3>4. Max(times) \in times /\ profile[i].ts <= Max(times)
        BY <1>4, <3>3, MaxIsGreatest
      <3>5. PICK a, b, c : a = profile[i].ts /\ b = Max(times) /\ c = Reached(s)
        OBVIOUS
      <3>6. a \in Nat /\ b \in Nat /\ a <= b /\ c <= a
        <4>1. b \in times /\ a <= b /\ c <= a
          BY <3>1, <3>4, <3>5
        <4>2. a \in Nat /\ b \in 0..now
          BY <3>2, <3>3, <3>5, <4>1
        <4>3. QED
          BY <4>1, <4>2
      <3>7. c \in Int
        BY <1>6, <1>7, <3>5 DEF Reached
      <3>8. c <= b
        BY <3>6, <3>7
      <3>9. QED
        BY <1>10, <2>2, <3>5, <3>6, <3>8
    <2>3. QED
      BY <2>1, <2>2
  <1>12. PICK t, b, e : t = Taken(s) /\ b = Began(s) /\ e = SessionWindow(s)[2]
    OBVIOUS
  <1>13. t \in Int /\ b \in Nat /\ e \in Nat /\ b + t <= e
    BY <1>6, <1>7, <1>11, <1>12 DEF Reached
  <1>14. t <= e - b
    BY <1>13
  <1>15. QED
    BY <1>8, <1>10, <1>12, <1>14

LEMMA RolesAddUp ==
  ASSUME ServingInv, LogInv, plan.requests \subseteq DOMAIN ParseFrontend, NEW role \in Roles
  PROVE  /\ Waits(ByRole(role))
              = SumOver(plan.requests, [r \in plan.requests |-> OrZero(Joined(r)[role])])
         /\ Waits(ByRole(role)) = SumOver({w \in WorkerNames : Role[w] = role},
                                          [w \in WorkerNames |-> Waits(ByWorkerRole(w, role))])
  <1>1. LogsTyped /\ IsFiniteSet(plan.requests) /\ plan.requests \subseteq Requests
    BY ServingAssumption DEF ServingInv, ServingTyped, LogInv
  <1>2. PICK R, f : R = ByRole(role) /\ f = [p \in R |-> LineAt(p).wait]
    OBVIOUS
  <1>3. IsFiniteSet(R) /\ R = {p \in SchedRecords : LineAt(p).role = role}
    BY <1>1, <1>2, WaitsFinite DEF ByRole
  <1>4. \A p \in R : f[p] = LineAt(p).wait /\ f[p] \in Int /\ p[1] \in WorkerNames
    BY <1>1, <1>2, <1>3, LineTyped
  <1>5. Waits(ByRole(role)) = SumOver(R, f)
    BY <1>2 DEF Waits
  <1>6. ASSUME NEW Q, Q \subseteq R PROVE Waits(Q) = SumOver(Q, f)
    <2>1. PICK g : g = [p \in Q |-> LineAt(p).wait]
      OBVIOUS
    <2>2. \A p \in Q : g[p] = f[p] /\ f[p] \in Int
      BY <1>4, <1>6, <2>1
    <2>3. IsFiniteSet(Q)
      BY <1>3, <1>6, FS_Subset
    <2>4. SumOver(Q, g) = SumOver(Q, f)
      BY <2>2, <2>3, SumSame
    <2>5. QED
      BY <2>1, <2>4 DEF Waits
  <1>7. SumOver(R, f) = SumOver(plan.requests, [r \in plan.requests |-> OrZero(Joined(r)[role])])
    <2>1. PICK k, h, C : /\ k = [p \in R |-> LineAt(p).rid] /\ C = plan.requests
                         /\ h = [r \in C |-> OrZero(Joined(r)[role])]
      OBVIOUS
    <2>2. \A p \in R : k[p] \in C
      BY <1>1, <1>3, <2>1 DEF LogsTyped
    <2>3. ASSUME NEW r \in C PROVE h[r] = SumOver(Class(R, k, r), f)
      <3>1. r \in DOMAIN ParseFrontend /\ r \in Requests
        BY <1>1, <2>1
      <3>2. h[r] = waited[r][role]
        BY <2>1, <3>1, RowOf
      <3>3. Waits(WorkerWaits(r, role)) = waited[r][role]
        BY <3>1 DEF LogInv, Summed
      <3>4. WorkerWaits(r, role) = Class(R, k, r) /\ WorkerWaits(r, role) \subseteq R
        BY <1>2, <2>1 DEF WorkerWaits, Class
      <3>5. QED
        BY <1>6, <3>2, <3>3, <3>4
    <2>4. IsFiniteSet(C)
      BY <1>1, <2>1
    <2>5. \A r \in C : h[r] = SumOver(Class(R, k, r), f)
      BY <2>3
    <2>6. \A p \in R : f[p] \in Int
      BY <1>4
    <2>7. SumOver(R, f) = SumOver(C, h)
      <3>1. IsFiniteSet(R)
        BY <1>3
      <3>2. QED
        BY ONLY <2>2, <2>4, <2>5, <2>6, <3>1, SumClasses
    <2>8. QED
      BY <2>1, <2>7
  <1>8. SumOver(R, f) = SumOver({w \in WorkerNames : Role[w] = role},
                                [w \in WorkerNames |-> Waits(ByWorkerRole(w, role))])
    <2>1. PICK k, h, C : /\ k = [p \in R |-> p[1]] /\ C = {w \in WorkerNames : Role[w] = role}
                         /\ h = [w \in WorkerNames |-> Waits(ByWorkerRole(w, role))]
      OBVIOUS
    <2>2. \A p \in R : k[p] \in C
      BY <1>1, <1>3, <1>4, <2>1 DEF LogsTyped
    <2>3. ASSUME NEW w \in C PROVE h[w] = SumOver(Class(R, k, w), f)
      <3>1. h[w] = Waits(ByWorkerRole(w, role))
        BY <2>1
      <3>2. ByWorkerRole(w, role) = Class(R, k, w) /\ ByWorkerRole(w, role) \subseteq R
        BY <1>2, <2>1 DEF ByWorkerRole, Class
      <3>3. QED
        BY <1>6, <3>1, <3>2
    <2>4. IsFiniteSet(C)
      BY <2>1, WorkersFinite, FS_Subset
    <2>5. \A w \in C : h[w] = SumOver(Class(R, k, w), f)
      BY <2>3
    <2>6. \A p \in R : f[p] \in Int
      BY <1>4
    <2>7. SumOver(R, f) = SumOver(C, h)
      <3>1. IsFiniteSet(R)
        BY <1>3
      <3>2. QED
        BY ONLY <2>2, <2>4, <2>5, <2>6, <3>1, SumClasses
    <2>8. QED
      BY <2>1, <2>7
  <1>9. QED
    BY <1>5, <1>7, <1>8

\* The slowest k of the rows, and the waits of some of them.
Slowest(mine, k) == {r \in mine : Cardinality({q \in mine : Slower(q, r)}) < k}
WaitOf(mine) == SumOver(mine, [r \in mine |-> TotalWait(Joined(r))])
LEMMA TailsNest ==
  ASSUME ServingInv, LogInv, NEW mine \in SUBSET DOMAIN ParseFrontend, NEW k \in Nat, NEW l \in Nat, k <= l
  PROVE  WaitOf(Slowest(mine, k)) <= WaitOf(Slowest(mine, l)) /\ WaitOf(Slowest(mine, l)) <= WaitOf(mine)
  <1>1. IsFiniteSet(mine)
    <2>1. mine \subseteq plan.requests /\ IsFiniteSet(plan.requests)
      BY RowOf, ServingAssumption DEF ServingInv, ServingTyped
    <2>2. QED
      BY <2>1, FS_Subset
  <1>2. PICK f : f = [r \in mine |-> TotalWait(Joined(r))]
    OBVIOUS
  <1>3. \A r \in mine : f[r] = TotalWait(Joined(r)) /\ f[r] \in Nat
    BY <1>2, RowOf
  <1>4. ASSUME NEW Q \in SUBSET mine PROVE WaitOf(Q) = SumOver(Q, f)
    <2>1. PICK g : g = [r \in Q |-> TotalWait(Joined(r))]
      OBVIOUS
    <2>2. \A r \in Q : g[r] = f[r] /\ f[r] \in Int
      BY <1>3, <2>1
    <2>3. IsFiniteSet(Q)
      BY <1>1, FS_Subset
    <2>4. SumOver(Q, g) = SumOver(Q, f)
      BY <2>2, <2>3, SumSame
    <2>5. QED
      BY <2>1, <2>4 DEF WaitOf
  <1>5. PICK S, T : S = Slowest(mine, k) /\ T = Slowest(mine, l)
    OBVIOUS
  <1>6. S \subseteq T /\ T \subseteq mine
    <2>1. T \subseteq mine
      BY <1>5 DEF Slowest
    <2>2. ASSUME NEW r \in S PROVE r \in T
      <3>1. PICK n : n = Cardinality({q \in mine : Slower(q, r)})
        OBVIOUS
      <3>2. IsFiniteSet({q \in mine : Slower(q, r)})
        BY <1>1, FS_Subset
      <3>3. n \in Nat
        BY <3>1, <3>2, FS_CardinalityType
      <3>4. r \in mine /\ n < k
        BY <1>5, <3>1 DEF Slowest
      <3>5. n < l
        BY <3>3, <3>4
      <3>6. QED
        BY <1>5, <3>1, <3>4, <3>5 DEF Slowest
    <2>3. QED
      BY <2>1, <2>2
  <1>7. IsFiniteSet(T) /\ \A r \in T : f[r] \in Nat
    BY <1>1, <1>3, <1>6, FS_Subset
  <1>8. SumOver(S, f) <= SumOver(T, f)
    BY <1>6, <1>7, SumPart
  <1>9. SumOver(T, f) <= SumOver(mine, f)
    BY <1>1, <1>3, <1>6, SumPart
  <1>10. WaitOf(S) = SumOver(S, f) /\ WaitOf(T) = SumOver(T, f) /\ WaitOf(mine) = SumOver(mine, f)
    BY <1>4, <1>6
  <1>11. QED
    BY <1>5, <1>8, <1>9, <1>10

LEMMA TailsAddUp ==
  ASSUME ServingInv, LogInv
  PROVE  LET half == TailBucket(<<1, 2>>)
             tenth == TailBucket(<<1, 10>>)
         IN  half # None => tenth.wait <= half.wait /\ half.wait <= half.all
  <1>1. PICK mine : mine = {r \in DOMAIN ParseFrontend : Matched(Joined(r)) /\ Joined(r).total > 0}
    OBVIOUS
  <1>2. PICK n : n = Cardinality(mine)
    OBVIOUS
  <1>3. mine \in SUBSET DOMAIN ParseFrontend /\ n \in Nat
    <2>1. mine \subseteq plan.requests /\ IsFiniteSet(plan.requests)
      BY <1>1, RowOf, ServingAssumption DEF ServingInv, ServingTyped
    <2>2. IsFiniteSet(mine)
      BY <2>1, FS_Subset
    <2>3. QED
      BY <1>1, <1>2, <2>2, FS_CardinalityType
  <1>4. PICK k, l : k = Bigger(1, CeilDiv(1 * n, 10)) /\ l = Bigger(1, CeilDiv(1 * n, 2))
    OBVIOUS
  <1>5. CeilDiv(1 * n, 10) = (n + 9) \div 10 /\ CeilDiv(1 * n, 2) = (n + 1) \div 2
    BY <1>3 DEF CeilDiv
  <1>6. k \in Nat /\ l \in Nat /\ k <= l
    <2>1. PICK a, b : a = (n + 9) \div 10 /\ b = (n + 1) \div 2
      OBVIOUS
    <2>2. a \in Int /\ b \in Int /\ (n = 0 => a = 0) /\ (n > 0 => a <= b)
      BY <1>3, <2>1
    <2>3. QED
      BY <1>3, <1>4, <1>5, <2>1, <2>2 DEF Bigger
  <1>7. PICK tenth, half : tenth = TailBucket(<<1, 10>>) /\ half = TailBucket(<<1, 2>>)
    OBVIOUS
  <1>8. ASSUME mine # {}
        PROVE  /\ tenth.wait = WaitOf(Slowest(mine, k))
               /\ half.wait = WaitOf(Slowest(mine, l)) /\ half.all = WaitOf(mine)
    BY <1>1, <1>2, <1>4, <1>7, <1>8 DEF TailBucket, WaitOf, Slowest
  <1>9. mine = {} => half = None
    BY <1>1, <1>7 DEF TailBucket
  <1>10. WaitOf(Slowest(mine, k)) <= WaitOf(Slowest(mine, l)) /\ WaitOf(Slowest(mine, l)) <= WaitOf(mine)
    BY <1>3, <1>6, TailsNest
  <1>11. QED
    BY <1>7, <1>8, <1>9, <1>10

\* What the scripts join from the frontend's log, the worker logs and the profiles is what
\* happened: see WaitsAddUp.  Whatever the interleaving of any number of requests, sessions
\* and workers, and however often a worker dies with requests on it that are sent again.
THEOREM JoinedWaitsAddUp == ServingSpec => []WaitsAddUp
  <1>1. ServingInv /\ LogInv => WaitsAddUp
    <2> SUFFICES ASSUME ServingInv, LogInv PROVE WaitsAddUp
      OBVIOUS
    <2>1. \A s \in {Session[r] : r \in DOMAIN ParseFrontend} :
            SessionWait(s).total <= SessionWindow(s)[2] - SessionWindow(s)[1]
      BY SessionsAddUp
    <2>2. QED
      BY <2>1, RequestsAddUp, RolesAddUp, TailsAddUp DEF WaitsAddUp
  <1>2. QED
    BY <1>1, LogInvariant, PTL

-------------------------------------------------------------------------------
(* The SWE-agent comparison *)

Lines == [id : Instance, success : BOOLEAN, applied : BOOLEAN, by : Nat]
Solutions == [solution : Int, by : Nat]
AnyVerdict == {"not_in_sample_set", "no_solution", "no_tests", "resolved", "unresolved"}
Judged == [rec : Lines, verdict : AnyVerdict, of : Solutions]
Drivers ==
  {NoDriver}
  \cup [stage : {"config", "prepare"}, out : Out, todo : SUBSET Instance]
  \cup [stage : {"agent"}, out : Out, todo : (SUBSET Instance) \ {{}}]
  \cup [stage : {"apply"}, out : Out, todo : (SUBSET Instance) \ {{}}, success : BOOLEAN]
  \cup [stage : {"record"}, out : Out, todo : (SUBSET Instance) \ {{}}, success : BOOLEAN,
        applied : BOOLEAN]
Judges ==
  {NoJudge}
  \cup [run : Out, samples : SUBSET Instance, queue : Seq(Lines), found : Seq(Judged)]

\* The variables are well typed; a patch, and an agent that is left, are of an
\* invocation with that --out.
HarnessTypes ==
  /\ invocations \in Nat
  /\ driver \in Drivers /\ judge \in Judges
  /\ workspace \in [Instance -> Solutions]
  /\ config \in [Out -> SUBSET Instance]
  /\ trace \in [Out -> Seq(Lines) \cup {NoTrace}]
  /\ users \in [Out -> SUBSET (1..invocations)]
  /\ patch \in [Out -> [Instance -> Nat]]
  /\ \A r \in Out, i \in Instance : patch[r][i] \in users[r] \cup {0}
  /\ orphans \subseteq [out : Out, id : Instance, by : Nat]
  /\ \A o \in orphans : o.by \in users[o.out]
  /\ report \in [Out -> Seq(Judged)]
  /\ driver # NoDriver => invocations \in users[driver.out]

\* What a line says of the workspace of its sample, as it is judged.
Faithful(r, line, found) ==
  line.success /\ found.by = line.by =>
    /\ IF line.applied THEN found.solution \in users[r] ELSE found.solution = Base
    /\ line.applied /\ (\A u \in users[r] : line.by <= u) => found.solution = line.by

\* The sample under way is in a workspace that this invocation prepared, as it was
\* prepared, or with a patch in it that was under its --out.
PreparedByIt ==
  /\ driver.stage \in {"agent", "apply"} => workspace[Id] = [solution |-> Base, by |-> Now]
  /\ At("record") =>
       /\ workspace[Id].by = Now
       /\ IF driver.applied
          THEN /\ workspace[Id].solution \in users[driver.out]
               /\ (\A u \in users[driver.out] : Now <= u) => workspace[Id].solution = Now
          ELSE workspace[Id].solution = Base

\* A line of run r is not of an invocation to come, and if it is of the one that runs,
\* its sample is not to go any more.
Ahead(r, line) ==
  /\ line.by <= invocations
  /\ line.by = invocations /\ driver # NoDriver =>
       r = driver.out /\ driver.stage # "config" /\ line.id \notin driver.todo

\* A line of run r that the judge may come to.
Holds(r, line) == Ahead(r, line) /\ Faithful(r, line, workspace[line.id])

\* What the judge noted of one.
Noted(r, v) == v.rec.by <= invocations /\ Faithful(r, v.rec, v.of)

\* Lines are of one invocation, and of each sample there is one.
Alone(lines) ==
  \A m, n \in DOMAIN lines :
    /\ lines[m].by = lines[n].by
    /\ lines[m].id = lines[n].id => m = n

Written(r) == IF trace[r] = NoTrace THEN <<>> ELSE trace[r]
Recorded(found) == [n \in DOMAIN found |-> found[n].rec]

TracesTrue ==
  \A r \in Out :
    /\ Alone(Written(r))
    /\ \A line \in ToSet(Written(r)) : Holds(r, line)

\* The trace of the invocation that runs has only its own lines.
Current ==
  driver # NoDriver /\ driver.stage # "config" =>
    /\ trace[driver.out] # NoTrace
    /\ \A line \in ToSet(trace[driver.out]) : line.by = Now

JudgeTrue ==
  judge # NoJudge =>
    /\ Alone(Recorded(judge.found) \o judge.queue)
    /\ \A line \in ToSet(judge.queue) : Holds(judge.run, line)
    /\ \A v \in ToSet(judge.found) : Noted(judge.run, v)

ReportsTrue ==
  \A r \in Out :
    /\ Alone(Recorded(report[r]))
    /\ \A v \in ToSet(report[r]) : Noted(r, v)

HarnessInv == HarnessTypes /\ PreparedByIt /\ TracesTrue /\ Current /\ JudgeTrue /\ ReportsTrue

-------------------------------------------------------------------------------
(* Sequences *)

LEMMA InToSet ==
  ASSUME NEW S, NEW t \in Seq(S)
  PROVE  /\ \A x \in ToSet(t) : x \in S
         /\ \A n \in DOMAIN t : t[n] \in ToSet(t)
  BY DEF ToSet

LEMMA ToSetOfAppend ==
  ASSUME NEW S, NEW t \in Seq(S), NEW x \in S
  PROVE  ToSet(Append(t, x)) = ToSet(t) \cup {x}
  <1> DEFINE u == Append(t, x)
  <1>1. /\ DOMAIN u = 1..(Len(t) + 1) /\ DOMAIN t = 1..Len(t) /\ Len(t) \in Nat
        /\ u[Len(t) + 1] = x /\ \A n \in 1..Len(t) : u[n] = t[n]
    OBVIOUS
  <1> HIDE DEF u
  <1>2. DOMAIN u = DOMAIN t \cup {Len(t) + 1}
    BY <1>1
  <1>3. {u[n] : n \in DOMAIN u} = {t[n] : n \in DOMAIN t} \cup {x}
    BY <1>1, <1>2
  <1>4. QED
    BY <1>3 DEF ToSet, u

LEMMA ToSetOfTail ==
  ASSUME NEW S, NEW t \in Seq(S), t # <<>>
  PROVE  ToSet(t) = {Head(t)} \cup ToSet(Tail(t))
  <1> DEFINE u == Tail(t)
  <1>1. /\ DOMAIN u = 1..(Len(t) - 1) /\ DOMAIN t = 1..Len(t) /\ Len(t) \in Nat \ {0}
        /\ t[1] = Head(t) /\ \A n \in 1..(Len(t) - 1) : u[n] = t[n + 1]
    OBVIOUS
  <1> HIDE DEF u
  <1>2. \A n \in DOMAIN t : n = 1 \/ (n - 1 \in DOMAIN u /\ u[n - 1] = t[n])
    BY <1>1
  <1>3. \A n \in DOMAIN u : n + 1 \in DOMAIN t /\ t[n + 1] = u[n]
    BY <1>1
  <1>4. 1 \in DOMAIN t
    BY <1>1
  <1>5. {t[n] : n \in DOMAIN t} = {Head(t)} \cup {u[n] : n \in DOMAIN u}
    BY <1>1, <1>2, <1>3, <1>4
  <1>6. QED
    BY <1>5 DEF ToSet, u

LEMMA AloneWithOneMore ==
  ASSUME NEW t \in Seq(Lines), NEW line \in Lines, Alone(t),
         \A l \in ToSet(t) : l.by = line.by /\ l.id # line.id
  PROVE  Alone(Append(t, line))
  <1>1. /\ DOMAIN Append(t, line) = 1..(Len(t) + 1) /\ DOMAIN t = 1..Len(t) /\ Len(t) \in Nat
        /\ Append(t, line)[Len(t) + 1] = line
        /\ \A n \in 1..Len(t) : Append(t, line)[n] = t[n] /\ t[n] \in ToSet(t)
    BY InToSet
  <1>2. QED
    BY <1>1 DEF Alone

LEMMA RecordsTyped ==
  ASSUME NEW found \in Seq(Judged)
  PROVE  /\ Recorded(found) \in Seq(Lines) /\ Len(Recorded(found)) = Len(found)
         /\ \A n \in 1..Len(found) : Recorded(found)[n] = found[n].rec
  <1>1. DOMAIN found = 1..Len(found) /\ Len(found) \in Nat
        /\ \A n \in 1..Len(found) : found[n] \in Judged
    OBVIOUS
  <1>2. \A v \in Judged : v.rec \in Lines
    BY DEF Judged
  <1>3. Recorded(found) = [n \in 1..Len(found) |-> found[n].rec]
    BY <1>1 DEF Recorded
  <1> DEFINE recs == [n \in 1..Len(found) |-> found[n].rec]
  <1>4. recs \in [1..Len(found) -> Lines]
    BY <1>1, <1>2
  <1>5. \A n \in 1..Len(found) : recs[n] = found[n].rec
    OBVIOUS
  <1> HIDE DEF recs
  <1>6. recs \in Seq(Lines) /\ Len(recs) = Len(found)
    BY <1>1, <1>4
  <1>7. Recorded(found) = recs
    BY <1>3 DEF recs
  <1>8. QED
    BY <1>5, <1>6, <1>7

\* What is noted of a line takes its place.
LEMMA OneMoreNoted ==
  ASSUME NEW found \in Seq(Judged), NEW queue \in Seq(Lines), queue # <<>>,
         NEW v \in Judged, v.rec = Head(queue)
  PROVE  Recorded(Append(found, v)) \o Tail(queue) = Recorded(found) \o queue
  <1> DEFINE more == Append(found, v)
             t == Recorded(found) \o queue
             u == Recorded(more) \o Tail(queue)
  <1>1. more \in Seq(Judged) /\ Len(more) = Len(found) + 1 /\ more[Len(found) + 1] = v
        /\ \A n \in 1..Len(found) : more[n] = found[n]
    OBVIOUS
  <1>2. Tail(queue) \in Seq(Lines) /\ Len(Tail(queue)) = Len(queue) - 1 /\ Len(queue) \in Nat \ {0}
        /\ queue[1] = Head(queue) /\ \A n \in 1..(Len(queue) - 1) : Tail(queue)[n] = queue[n + 1]
    OBVIOUS
  <1> HIDE DEF more
  <1>3. /\ Recorded(found) \in Seq(Lines) /\ Len(Recorded(found)) = Len(found)
        /\ Recorded(more) \in Seq(Lines) /\ Len(Recorded(more)) = Len(found) + 1
        /\ \A n \in 1..Len(found) : Recorded(found)[n] = found[n].rec
        /\ \A n \in 1..(Len(found) + 1) : Recorded(more)[n] = more[n].rec
    BY <1>1, RecordsTyped
  <1> DEFINE a == Recorded(found)
             b == Recorded(more)
             rest == Tail(queue)
  <1> HIDE DEF a, b, rest
  <1>4. /\ t \in Seq(Lines) /\ Len(t) = Len(a) + Len(queue)
        /\ \A n \in 1..(Len(a) + Len(queue)) :
             t[n] = IF n <= Len(a) THEN a[n] ELSE queue[n - Len(a)]
    <2>1. a \in Seq(Lines) /\ t = a \o queue
      BY <1>3 DEF a
    <2> HIDE DEF t
    <2>2. QED
      BY <2>1, ConcatProperties
  <1>5. /\ u \in Seq(Lines) /\ Len(u) = Len(b) + Len(rest)
        /\ \A n \in 1..(Len(b) + Len(rest)) :
             u[n] = IF n <= Len(b) THEN b[n] ELSE rest[n - Len(b)]
    <2>1. b \in Seq(Lines) /\ rest \in Seq(Lines) /\ u = b \o rest
      BY <1>2, <1>3 DEF b, rest
    <2> HIDE DEF u
    <2>2. QED
      BY <2>1, ConcatProperties
  <1>6. /\ Len(found) \in Nat /\ Len(a) = Len(found) /\ Len(b) = Len(found) + 1
        /\ Len(rest) = Len(queue) - 1
        /\ \A n \in 1..Len(found) : a[n] = found[n].rec
        /\ \A n \in 1..(Len(found) + 1) : b[n] = more[n].rec
        /\ \A n \in 1..(Len(queue) - 1) : rest[n] = queue[n + 1]
    <2>1. Len(found) \in Nat
      OBVIOUS
    <2>2. QED
      BY <1>2, <1>3, <2>1 DEF a, b, rest
  <1> HIDE DEF t, u
  <1>7. Len(t) = Len(u)
    BY <1>2, <1>4, <1>5, <1>6
  <1>8. ASSUME NEW n \in 1..Len(t) PROVE t[n] = u[n]
    <2>1. n \in 1..(Len(a) + Len(queue)) /\ n \in 1..(Len(b) + Len(rest)) /\ n \in Nat
      BY <1>2, <1>4, <1>5, <1>6, <1>7
    <2>2. CASE n <= Len(found)
      <3>1. t[n] = a[n] /\ u[n] = b[n]
        BY <1>4, <1>5, <1>6, <2>1, <2>2
      <3>2. QED
        BY <1>1, <1>6, <2>1, <2>2, <3>1
    <2>3. CASE n = Len(found) + 1
      <3>1. t[n] = queue[1] /\ u[n] = b[n]
        BY <1>4, <1>5, <1>6, <2>1, <2>3
      <3>2. QED
        BY <1>1, <1>2, <1>6, <2>1, <2>3, <3>1
    <2>4. CASE n > Len(found) + 1
      <3>1. t[n] = queue[n - Len(found)] /\ u[n] = rest[n - (Len(found) + 1)]
        BY <1>4, <1>5, <1>6, <2>1, <2>4
      <3>2. n - (Len(found) + 1) \in 1..(Len(queue) - 1)
        BY <1>2, <1>6, <2>1, <2>4
      <3>3. rest[n - (Len(found) + 1)] = queue[n - (Len(found) + 1) + 1]
        BY <1>6, <3>2
      <3>4. n - (Len(found) + 1) + 1 = n - Len(found)
        BY <1>6, <2>1
      <3>5. QED
        BY <3>1, <3>3, <3>4
    <2>5. QED
      BY <1>6, <2>1, <2>2, <2>3, <2>4
  <1>9. t = u
    BY <1>4, <1>5, <1>7, <1>8, SeqEqual
  <1>10. QED
    BY <1>9 DEF t, u, more

-------------------------------------------------------------------------------
(* The driver *)

LEMMA DriverFacts ==
  ASSUME driver \in Drivers
  PROVE  /\ driver = NoDriver <=> At("none")
         /\ driver # NoDriver => driver.out \in Out /\ driver.todo \subseteq Instance
         /\ driver.stage \in {"none", "config", "prepare", "agent", "apply", "record"}
         /\ driver.stage \in {"agent", "apply", "record"} => driver.todo # {}
         /\ driver.stage \in {"apply", "record"} => driver.success \in BOOLEAN
         /\ At("record") => driver.applied \in BOOLEAN
  BY DEF Drivers, NoDriver, At

\* A driver with samples to go has one under way.
LEMMA IdIsToGo ==
  ASSUME driver \in Drivers, driver # NoDriver, driver.todo # {}
  PROVE  Id \in driver.todo /\ Id \in Instance
  <1>1. driver.todo \subseteq Nat /\ driver.todo \subseteq Instance
    BY DriverFacts, HarnessAssumption
  <1>2. PICK x \in driver.todo : \A y \in driver.todo : <<y, x>> \notin OpToRel(<, Nat)
    BY <1>1, NatLessThanWellFounded, WFMin, Zenon
  <1>3. \A y \in driver.todo : ~(y < x)
    BY <1>1, <1>2 DEF OpToRel
  <1>4. \A y \in driver.todo : x <= y
    BY <1>1, <1>3
  <1>5. QED
    BY <1>1, <1>4 DEF Id, Min

\* The stages at which there is a sample under way.
LEMMA UnderWay ==
  ASSUME driver \in Drivers
  PROVE  /\ At("prepare") /\ driver.todo # {} => Id \in driver.todo /\ Id \in Instance
         /\ driver.stage \in {"agent", "apply", "record"} =>
              driver # NoDriver /\ Id \in driver.todo /\ Id \in Instance
  <1>1. driver.stage # "none" => driver # NoDriver
    BY DEF NoDriver
  <1>2. QED
    BY <1>1, DriverFacts, IdIsToGo DEF At

LEMMA InitIsTrue == HarnessInit => HarnessInv
  <1> SUFFICES ASSUME HarnessInit PROVE HarnessInv
    OBVIOUS
  <1> USE DEF HarnessInit
  <1>1. HarnessTypes
    <2>1. driver \in Drivers /\ judge \in Judges
      BY DEF Drivers, Judges
    <2>2. workspace \in [Instance -> Solutions]
      BY DEF Solutions, Absent
    <2>3. report \in [Out -> Seq(Judged)] /\ trace \in [Out -> Seq(Lines) \cup {NoTrace}]
      BY DEF NoReport
    <2>4. QED
      BY <2>1, <2>2, <2>3 DEF HarnessTypes
  <1>2. PreparedByIt
    BY DEF PreparedByIt, At, NoDriver
  <1>3. TracesTrue
    BY DEF TracesTrue, Written, Alone, ToSet
  <1>4. ReportsTrue
    BY DEF ReportsTrue, Recorded, Alone, NoReport, ToSet
  <1>5. QED
    BY <1>1, <1>2, <1>3, <1>4 DEF HarnessInv, Current, JudgeTrue

-------------------------------------------------------------------------------
(* Types *)

LEMMA LineIsTyped ==
  ASSUME HarnessTypes, NEW success \in BOOLEAN, NEW applied \in BOOLEAN, Id \in Instance
  PROVE  Line(success, applied) \in Lines /\ Line(success, applied).id = Id
         /\ Line(success, applied).by = Now /\ Line(success, applied).success = success
         /\ Line(success, applied).applied = applied
  BY DEF HarnessTypes, Line, Lines, Now

\* The next sample is taken up with the trace extended.
LEMMA NextSampleTyped ==
  ASSUME HarnessTypes, Current, driver # NoDriver, ~At("config"),
         NEW line \in Lines, NextSample(line)
  PROVE  /\ driver' \in Drivers /\ driver' # NoDriver /\ driver'.out = driver.out
         /\ driver'.stage = "prepare" /\ driver'.todo = driver.todo \ {Id}
         /\ trace[driver.out] \in Seq(Lines)
         /\ trace' = [trace EXCEPT ![driver.out] = Append(trace[driver.out], line)]
         /\ trace' \in [Out -> Seq(Lines) \cup {NoTrace}]
  <1>1. driver.out \in Out /\ driver.todo \subseteq Instance
    BY DriverFacts DEF HarnessTypes
  <1>2. trace[driver.out] \in Seq(Lines)
    BY <1>1 DEF Current, At, HarnessTypes
  <1>3. driver' = [stage |-> "prepare", out |-> driver.out, todo |-> driver.todo \ {Id}]
        /\ trace' = [trace EXCEPT ![driver.out] = Append(trace[driver.out], line)]
    BY DEF NextSample
  <1>4. driver' \in Drivers /\ driver' # NoDriver
    BY <1>1, <1>3 DEF Drivers, NoDriver
  <1>5. Append(trace[driver.out], line) \in Seq(Lines)
    BY <1>2
  <1>6. trace' \in [Out -> Seq(Lines) \cup {NoTrace}]
    BY <1>3, <1>5 DEF HarnessTypes
  <1>7. QED
    BY <1>2, <1>3, <1>4, <1>6

\* Whatever a preparation leaves, it bears the number of the invocation.
LEMMA LeavesTyped ==
  ASSUME HarnessTypes, NEW solution \in Int, Leaves(solution)
  PROVE  workspace' \in [Instance -> Solutions]
  <1>1. [solution |-> solution, by |-> Now] \in Solutions
    BY DEF HarnessTypes, Solutions, Now
  <1>2. QED
    BY <1>1 DEF HarnessTypes, Leaves

LEMMA HalfPreparedTyped ==
  ASSUME HarnessTypes, Id \in Instance, HalfPrepared
  PROVE  /\ workspace' \in [Instance -> Solutions]
         /\ \E solution \in Int : Leaves(solution)
  <1>1. workspace[Id].solution \in Int
    BY DEF HarnessTypes, Solutions
  <1>2. PICK solution \in {workspace[Id].solution, Absent, Emptied, Base} : Leaves(solution)
    BY DEF HalfPrepared
  <1>3. solution \in Int
    BY <1>1 DEF Absent, Emptied, Base
  <1>4. QED
    BY <1>2, <1>3, LeavesTyped

LEMMA TypesKept == HarnessTypes /\ Current /\ [HarnessNext]_harnessVars => HarnessTypes'
  <1> SUFFICES ASSUME HarnessTypes, Current, [HarnessNext]_harnessVars PROVE HarnessTypes'
    OBVIOUS
  <1> USE DEF HarnessTypes
  <1>1. ASSUME NEW r \in Out, NEW samples \in (SUBSET Instance) \ {{}}, Invoke(r, samples)
        PROVE  HarnessTypes'
    <2>1. users' = [users EXCEPT ![r] = users[r] \cup {invocations + 1}]
          /\ invocations' = invocations + 1
      BY <1>1 DEF Invoke
    <2>2. users' \in [Out -> SUBSET (1..invocations')] /\ \A q \in Out : users[q] \subseteq users'[q]
      BY <2>1
    <2>3. driver' \in Drivers /\ driver'.out = r /\ config' \in [Out -> SUBSET Instance]
      BY <1>1 DEF Invoke, Drivers
    <2>4. invocations' \in users'[r]
      BY <2>1
    <2>5. \A q \in Out, i \in Instance : patch'[q][i] \in users'[q] \cup {0}
      BY <1>1, <2>2 DEF Invoke
    <2>6. \A o \in orphans' : o.by \in users'[o.out]
      BY <1>1, <2>2 DEF Invoke
    <2>7. UNCHANGED <<workspace, trace, patch, orphans, judge, report>>
      BY <1>1 DEF Invoke
    <2>8. invocations' \in Nat /\ users' \in [Out -> SUBSET (1..invocations')]
      BY <2>1, <2>2
    <2>9. driver' # NoDriver => invocations' \in users'[driver'.out]
      BY <2>3, <2>4
    <2>10. QED
      BY <2>3, <2>5, <2>6, <2>7, <2>8, <2>9
  <1>2. ASSUME OpenTrace PROVE HarnessTypes'
    <2>1. driver # NoDriver /\ driver.out \in Out /\ driver.todo \subseteq Instance
      BY <1>2, DriverFacts DEF OpenTrace, At
    <2>2. driver \in [stage : {"config", "prepare"}, out : Out, todo : SUBSET Instance]
      BY <1>2 DEF OpenTrace, Drivers, At, NoDriver
    <2>3. driver' \in Drivers /\ driver'.out = driver.out
      <3>1. driver' = [driver EXCEPT !.stage = "prepare"]
        BY <1>2 DEF OpenTrace
      <3>2. QED
        BY <2>2, <3>1 DEF Drivers
    <2>4. trace' \in [Out -> Seq(Lines) \cup {NoTrace}]
      BY <1>2, <2>1 DEF OpenTrace
    <2>5. QED
      BY <1>2, <2>1, <2>3, <2>4 DEF OpenTrace
  <1>3. ASSUME Prepare PROVE HarnessTypes'
    <2>1. driver # NoDriver /\ driver.out \in Out /\ driver.todo \subseteq Instance
          /\ driver.todo # {}
      BY <1>3, DriverFacts DEF Prepare, At
    <2>2. driver \in [stage : {"config", "prepare"}, out : Out, todo : SUBSET Instance]
      BY <1>3 DEF Prepare, Drivers, At, NoDriver
    <2>3. driver' \in Drivers /\ driver'.out = driver.out
      <3>1. driver' = [driver EXCEPT !.stage = "agent"]
        BY <1>3 DEF Prepare
      <3>2. QED
        BY <2>1, <2>2, <3>1 DEF Drivers
    <2>4. workspace' \in [Instance -> Solutions]
      BY <1>3, LeavesTyped DEF Prepare, Base
    <2>5. QED
      BY <1>3, <2>1, <2>3, <2>4 DEF Prepare
  <1>4. ASSUME PrepareFails PROVE HarnessTypes'
    <2>1. driver # NoDriver /\ Id \in Instance /\ ~At("config")
      BY <1>4, DriverFacts, UnderWay DEF PrepareFails, At
    <2>2. Line(FALSE, FALSE) \in Lines
      BY <2>1, LineIsTyped
    <2>3. workspace' \in [Instance -> Solutions]
      BY <1>4, <2>1, HalfPreparedTyped DEF PrepareFails
    <2>4. QED
      BY <1>4, <2>1, <2>2, <2>3, NextSampleTyped DEF PrepareFails
  <1>5. ASSUME NEW success \in BOOLEAN, NEW wrote \in BOOLEAN, AgentEnds(success, wrote)
        PROVE  HarnessTypes'
    <2>1. driver # NoDriver /\ driver.out \in Out /\ driver.todo \subseteq Instance
          /\ driver.todo # {} /\ Id \in Instance
      BY <1>5, DriverFacts, UnderWay DEF AgentEnds, At
    <2>2. driver' \in Drivers /\ driver'.out = driver.out
      BY <1>5, <2>1 DEF AgentEnds, Drivers
    <2>3. patch' \in [Out -> [Instance -> Nat]]
          /\ \A r \in Out, i \in Instance : patch'[r][i] \in users[r] \cup {0}
      BY <1>5, <2>1 DEF AgentEnds, Now
    <2>4. QED
      BY <1>5, <2>1, <2>2, <2>3 DEF AgentEnds
  <1>6. ASSUME NEW ok \in BOOLEAN, Applies(ok) PROVE HarnessTypes'
    <2>1. driver # NoDriver /\ driver.out \in Out /\ driver.todo \subseteq Instance
          /\ driver.todo # {} /\ Id \in Instance /\ driver.success \in BOOLEAN
      BY <1>6, DriverFacts, UnderWay DEF Applies, At
    <2>2. driver' \in Drivers /\ driver'.out = driver.out
      BY <1>6, <2>1 DEF Applies, Drivers
    <2>3. workspace' \in [Instance -> Solutions]
      <3>1. patch[driver.out][Id] \in Int
        BY <2>1
      <3>2. \A w \in Solutions, new \in Int : [w EXCEPT !.solution = new] \in Solutions
        BY DEF Solutions
      <3>3. [workspace[Id] EXCEPT !.solution = patch[driver.out][Id]] \in Solutions
        BY <2>1, <3>1, <3>2
      <3>4. QED
        BY <1>6, <2>1, <3>3 DEF Applies
    <2>4. QED
      BY <1>6, <2>1, <2>2, <2>3 DEF Applies
  <1>7. ASSUME Record PROVE HarnessTypes'
    <2>1. driver # NoDriver /\ Id \in Instance /\ ~At("config")
          /\ driver.success \in BOOLEAN /\ driver.applied \in BOOLEAN
      BY <1>7, DriverFacts, UnderWay DEF Record, At
    <2>2. Line(driver.success, driver.applied) \in Lines
      BY <2>1, LineIsTyped
    <2>3. QED
      BY <1>7, <2>1, <2>2, NextSampleTyped DEF Record
  <1>8. ASSUME Done PROVE HarnessTypes'
    BY <1>8 DEF Done, Drivers
  <1>9. ASSUME Killed PROVE HarnessTypes'
    <2>1. driver.out \in Out
      BY <1>9, DriverFacts DEF Killed
    <2>2. orphans' \subseteq [out : Out, id : Instance, by : Nat]
          /\ \A o \in orphans' : o.by \in users[o.out]
      <3>1. CASE At("agent")
        <4>1. Id \in Instance
          BY <3>1, UnderWay DEF At
        <4>2. orphans' = orphans \cup {[out |-> driver.out, id |-> Id, by |-> Now]}
          BY <1>9, <3>1 DEF Killed
        <4>3. QED
          BY <1>9, <2>1, <4>1, <4>2 DEF Killed, Now
      <3>2. CASE ~At("agent")
        BY <1>9, <3>2 DEF Killed
      <3>3. QED
        BY <3>1, <3>2
    <2>3. workspace' \in [Instance -> Solutions]
      BY <1>9, UnderWay, HalfPreparedTyped DEF Killed
    <2>4. QED
      BY <1>9, <2>2, <2>3 DEF Killed, Drivers
  <1>10. ASSUME NEW o \in orphans, NEW wrote \in BOOLEAN, OrphanEnds(o, wrote)
         PROVE  HarnessTypes'
    <2>1. o.out \in Out /\ o.id \in Instance /\ o.by \in Nat /\ o.by \in users[o.out]
      OBVIOUS
    <2>2. patch' \in [Out -> [Instance -> Nat]]
          /\ \A r \in Out, i \in Instance : patch'[r][i] \in users[r] \cup {0}
      BY <1>10, <2>1 DEF OrphanEnds
    <2>3. QED
      BY <1>10, <2>2 DEF OrphanEnds
  <1>11. ASSUME NEW r \in Out, JudgeBegins(r) PROVE HarnessTypes'
    <2>1. judge' \in Judges
      BY <1>11 DEF JudgeBegins, Judges, NoReport
    <2>2. QED
      BY <1>11, <2>1 DEF JudgeBegins
  <1>12. ASSUME NEW v \in AnyVerdict, JudgeOne(v)
         PROVE  HarnessTypes'
    <2>1. judge # NoJudge /\ judge.queue \in Seq(Lines) /\ judge.queue # <<>>
          /\ judge.found \in Seq(Judged) /\ judge.run \in Out /\ judge.samples \subseteq Instance
      BY <1>12 DEF JudgeOne, Judges
    <2>2. Head(judge.queue) \in Lines /\ Tail(judge.queue) \in Seq(Lines)
      BY <2>1
    <2>3. [rec |-> Head(judge.queue), verdict |-> v, of |-> workspace[Head(judge.queue).id]]
            \in Judged
      <3>1. workspace[Head(judge.queue).id] \in Solutions
        BY <2>2 DEF Lines
      <3>2. QED
        BY <2>2, <3>1, Zenon DEF Judged
    <2>4. judge' = [run |-> judge.run, samples |-> judge.samples, queue |-> Tail(judge.queue),
            found |-> Append(judge.found, [rec |-> Head(judge.queue), verdict |-> v,
                                           of |-> workspace[Head(judge.queue).id]])]
      BY <1>12, <2>1 DEF JudgeOne, Judges
    <2>5. judge' \in Judges
      BY <2>1, <2>2, <2>3, <2>4 DEF Judges
    <2>6. QED
      BY <1>12, <2>5 DEF JudgeOne
  <1>13. ASSUME JudgeEnds PROVE HarnessTypes'
    BY <1>13 DEF JudgeEnds, Judges
  <1>14. ASSUME JudgeKilled PROVE HarnessTypes'
    BY <1>14 DEF JudgeKilled, Judges
  <1>15. CASE UNCHANGED harnessVars
    BY <1>15 DEF harnessVars
  <1>16. QED
    BY <1>1, <1>2, <1>3, <1>4, <1>5, <1>6, <1>7, <1>8, <1>9, <1>10, <1>11, <1>12, <1>13,
       <1>14, <1>15 DEF HarnessNext, AnyVerdict

-------------------------------------------------------------------------------
(* What stays true of the lines *)

\* A change of a workspace is the current invocation's, of the sample under way.
LEMMA OnlyItsOwn ==
  ASSUME HarnessTypes, [HarnessNext]_harnessVars
  PROVE  \/ workspace' = workspace
         \/ /\ driver # NoDriver /\ ~At("config") /\ Id \in driver.todo /\ Id \in Instance
            /\ \A i \in Instance \ {Id} : workspace'[i] = workspace[i]
            /\ \/ workspace'[Id].by = Now
               \/ workspace'[Id].by = workspace[Id].by /\ ~At("prepare")
  <1> USE DEF HarnessTypes
  <1> DEFINE Own == /\ driver # NoDriver /\ ~At("config") /\ Id \in driver.todo
                    /\ Id \in Instance
                    /\ \A i \in Instance \ {Id} : workspace'[i] = workspace[i]
  <1>1. ASSUME NEW solution \in Int, Leaves(solution), At("prepare"), driver.todo # {}
        PROVE  Own /\ workspace'[Id].by = Now
    BY <1>1, UnderWay, DriverFacts DEF Leaves, At
  <1>2. ASSUME HalfPrepared, At("prepare"), driver.todo # {}
        PROVE  Own /\ workspace'[Id].by = Now
    <2>1. Id \in Instance
      BY <1>2, UnderWay
    <2>2. PICK solution \in Int : Leaves(solution)
      BY <1>2, <2>1, HalfPreparedTyped
    <2> HIDE DEF Own
    <2>3. QED
      BY <1>1, <1>2, <2>2
  <1>3. ASSUME Prepare PROVE Own /\ workspace'[Id].by = Now
    <2>1. At("prepare") /\ driver.todo # {} /\ Leaves(0)
      BY <1>3 DEF Prepare, Base
    <2> HIDE DEF Own
    <2>2. QED
      BY <1>1, <2>1
  <1>4. ASSUME PrepareFails PROVE Own /\ workspace'[Id].by = Now
    <2>1. At("prepare") /\ driver.todo # {} /\ HalfPrepared
      BY <1>4 DEF PrepareFails
    <2> HIDE DEF Own
    <2>2. QED
      BY <1>2, <2>1
  <1>5. ASSUME Killed PROVE workspace' = workspace \/ (Own /\ workspace'[Id].by = Now)
    <2>1. workspace' = workspace \/ (At("prepare") /\ driver.todo # {} /\ HalfPrepared)
      BY <1>5 DEF Killed
    <2> HIDE DEF Own
    <2>2. QED
      BY <1>2, <2>1
  <1>6. ASSUME NEW ok \in BOOLEAN, Applies(ok)
        PROVE  \/ workspace' = workspace
               \/ Own /\ workspace'[Id].by = workspace[Id].by /\ ~At("prepare")
    <2>1. driver # NoDriver /\ ~At("config") /\ ~At("prepare") /\ Id \in driver.todo
          /\ Id \in Instance
      BY <1>6, UnderWay DEF Applies, At
    <2>2. CASE ok
      <3>1. workspace' = [workspace EXCEPT ![Id].solution = patch[driver.out][Id]]
        BY <1>6, <2>2 DEF Applies
      <3>2. workspace[Id] \in Solutions
        BY <2>1
      <3>3. workspace'[Id].by = workspace[Id].by
        BY <2>1, <3>1, <3>2 DEF Solutions
      <3>4. QED
        BY <2>1, <3>1, <3>3
    <2>3. CASE ~ok
      BY <1>6, <2>3 DEF Applies
    <2>4. QED
      BY <2>2, <2>3
  <1>7. ASSUME ~(Prepare \/ PrepareFails \/ Killed \/ \E ok \in BOOLEAN : Applies(ok))
        PROVE  workspace' = workspace
    BY <1>7 DEF HarnessNext, harnessVars, Invoke, OpenTrace, AgentEnds, Record, Done,
                OrphanEnds, JudgeBegins, JudgeOne, JudgeEnds, JudgeKilled
  <1>8. \/ workspace' = workspace
        \/ Own /\ workspace'[Id].by = Now
        \/ Own /\ workspace'[Id].by = workspace[Id].by /\ ~At("prepare")
    <2> HIDE DEF Own, HarnessTypes
    <2>1. CASE \E ok \in BOOLEAN : Applies(ok)
      <3>1. PICK ok \in BOOLEAN : Applies(ok)
        BY <2>1
      <3>2. QED
        BY <1>6, <3>1, Zenon
    <2>2. QED
      BY <1>3, <1>4, <1>5, <1>7, <2>1, Zenon
  <1> HIDE DEF HarnessTypes
  <1>9. QED
    BY <1>8, Zenon

\* A driver goes on with what it has to go, or an invocation begins.
LEMMA OnlyForward ==
  ASSUME HarnessTypes, [HarnessNext]_harnessVars
  PROVE  \/ /\ invocations' = invocations /\ users' = users
            /\ \/ driver' = NoDriver
               \/ driver' = driver
               \/ /\ driver # NoDriver /\ driver'.out = driver.out
                  /\ driver'.todo \subseteq driver.todo /\ driver'.stage # "config"
         \/ /\ driver = NoDriver /\ invocations' = invocations + 1
            /\ driver'.stage = "config"
            /\ \E r \in Out : users' = [users EXCEPT ![r] = users[r] \cup {invocations + 1}]
  <1> DEFINE Same == invocations' = invocations /\ users' = users
             GoesOn == /\ driver # NoDriver /\ driver'.out = driver.out
                       /\ driver'.todo \subseteq driver.todo /\ driver'.stage # "config"
  <1>1. driver \in Drivers
    BY DEF HarnessTypes
  <1>2. ASSUME OpenTrace \/ Prepare PROVE Same /\ GoesOn
    <2>1. driver \in [stage : {"config", "prepare"}, out : Out, todo : SUBSET Instance]
      BY <1>1, <1>2 DEF OpenTrace, Prepare, Drivers, At, NoDriver
    <2>2. driver # NoDriver
      BY <1>2 DEF OpenTrace, Prepare, At, NoDriver
    <2>3. QED
      BY <1>2, <2>1, <2>2 DEF OpenTrace, Prepare
  <1>3. ASSUME driver' = [stage |-> "prepare", out |-> driver.out, todo |-> driver.todo \ {Id}],
               driver # NoDriver
        PROVE  GoesOn
    BY <1>3
  <1>4. ASSUME PrepareFails PROVE Same /\ GoesOn
    <2>1. driver' = [stage |-> "prepare", out |-> driver.out, todo |-> driver.todo \ {Id}]
          /\ driver # NoDriver /\ Same
      BY <1>4 DEF PrepareFails, NextSample, At, NoDriver
    <2>2. QED
      BY <1>3, <2>1
  <1>5. ASSUME Record PROVE Same /\ GoesOn
    <2>1. driver' = [stage |-> "prepare", out |-> driver.out, todo |-> driver.todo \ {Id}]
          /\ driver # NoDriver /\ Same
      BY <1>5 DEF Record, NextSample, At, NoDriver
    <2>2. QED
      BY <1>3, <2>1
  <1>6. ASSUME NEW success \in BOOLEAN, NEW wrote \in BOOLEAN, AgentEnds(success, wrote)
        PROVE  Same /\ GoesOn
    BY <1>6 DEF AgentEnds, At, NoDriver
  <1>7. ASSUME NEW ok \in BOOLEAN, Applies(ok) PROVE Same /\ GoesOn
    BY <1>7 DEF Applies, At, NoDriver
  <1>8. ASSUME Done \/ Killed PROVE Same /\ driver' = NoDriver
    BY <1>8 DEF Done, Killed
  <1>9. ASSUME \/ \E o \in orphans, wrote \in BOOLEAN : OrphanEnds(o, wrote)
               \/ \E r \in Out : JudgeBegins(r)
               \/ \E v \in AnyVerdict : JudgeOne(v)
               \/ JudgeEnds \/ JudgeKilled \/ UNCHANGED harnessVars
        PROVE  Same /\ driver' = driver
    BY <1>9 DEF OrphanEnds, JudgeBegins, JudgeOne, JudgeEnds, JudgeKilled, harnessVars
  <1>10. ASSUME NEW r \in Out, NEW samples \in (SUBSET Instance) \ {{}}, Invoke(r, samples)
         PROVE  /\ driver = NoDriver /\ invocations' = invocations + 1
                /\ driver'.stage = "config"
                /\ users' = [users EXCEPT ![r] = users[r] \cup {invocations + 1}]
    BY <1>10 DEF Invoke
  <1> HIDE DEF Same, GoesOn
  <1>11. \/ \E r \in Out, samples \in (SUBSET Instance) \ {{}} : Invoke(r, samples)
         \/ OpenTrace \/ Prepare \/ PrepareFails
         \/ \E success, wrote \in BOOLEAN : AgentEnds(success, wrote)
         \/ \E ok \in BOOLEAN : Applies(ok)
         \/ Record \/ Done \/ Killed
         \/ \E o \in orphans, wrote \in BOOLEAN : OrphanEnds(o, wrote)
         \/ \E r \in Out : JudgeBegins(r)
         \/ \E v \in AnyVerdict : JudgeOne(v)
         \/ JudgeEnds \/ JudgeKilled \/ UNCHANGED harnessVars
    BY Zenon DEF HarnessNext, AnyVerdict
  <1>12. \/ Same /\ (driver' = NoDriver \/ driver' = driver \/ GoesOn)
         \/ /\ driver = NoDriver /\ invocations' = invocations + 1
            /\ driver'.stage = "config"
            /\ \E r \in Out : users' = [users EXCEPT ![r] = users[r] \cup {invocations + 1}]
    BY <1>2, <1>4, <1>5, <1>6, <1>7, <1>8, <1>9, <1>10, <1>11, Zenon
  <1>13. QED
    BY <1>12 DEF Same, GoesOn

LEMMA UsersGrow ==
  ASSUME HarnessTypes, [HarnessNext]_harnessVars, NEW r \in Out
  PROVE  /\ invocations \in Nat /\ invocations' \in Nat /\ invocations <= invocations'
         /\ users[r] \subseteq 1..invocations /\ users[r] \subseteq users'[r]
         /\ \A u \in users'[r] : u \in Nat /\ (u \in users[r] \/ invocations < u)
  <1>1. users \in [Out -> SUBSET (1..invocations)] /\ invocations \in Nat
    BY DEF HarnessTypes
  <1>2. CASE invocations' = invocations /\ users' = users
    BY <1>1, <1>2
  <1>3. CASE /\ invocations' = invocations + 1
             /\ \E q \in Out : users' = [users EXCEPT ![q] = users[q] \cup {invocations + 1}]
    <2>1. PICK q \in Out : users' = [users EXCEPT ![q] = users[q] \cup {invocations + 1}]
      BY <1>3
    <2>2. users'[r] = users[r] \/ users'[r] = users[r] \cup {invocations + 1}
      BY <1>1, <2>1
    <2>3. QED
      BY <1>1, <1>3, <2>2
  <1>4. QED
    BY <1>2, <1>3, OnlyForward, Zenon

LEMMA NotedKept ==
  ASSUME HarnessTypes, [HarnessNext]_harnessVars, NEW r \in Out, NEW v \in Judged, Noted(r, v)
  PROVE  Noted(r, v)'
  <1>1. v.rec.by \in Nat
    BY DEF Judged, Lines
  <1>2. v.rec.by <= invocations /\ v.rec.by <= invocations'
    BY <1>1, UsersGrow DEF Noted
  <1>3. QED
    BY <1>1, <1>2, UsersGrow DEF Noted, Faithful

LEMMA LineKept ==
  ASSUME HarnessTypes, PreparedByIt, [HarnessNext]_harnessVars, NEW r \in Out, NEW line \in Lines,
         Holds(r, line)
  PROVE  Holds(r, line)'
  <1> USE DEF Holds
  <1>1. line.by \in Nat /\ line.by <= invocations /\ line.id \in Instance
    BY DEF Lines, Ahead
  <1>2. Ahead(r, line)'
    <2>1. CASE invocations' = invocations
      BY <1>1, <2>1, OnlyForward DEF Ahead, HarnessTypes
    <2>2. CASE invocations' # invocations
      BY <1>1, <2>2, OnlyForward DEF Ahead, HarnessTypes
    <2>3. QED
      BY <2>1, <2>2
  <1>3. CASE workspace'[line.id] = workspace[line.id]
    BY <1>1, <1>2, <1>3, UsersGrow DEF Faithful
  <1>4. CASE workspace'[line.id] # workspace[line.id]
    <2>1. driver # NoDriver /\ line.id = Id /\ Id \in driver.todo
          /\ workspace'[Id].by = Now
      <3>1. driver.stage \in {"agent", "apply", "record"} => workspace[Id].by = Now
        BY DEF PreparedByIt, At
      <3>2. driver # NoDriver /\ line.id = Id /\ Id \in driver.todo /\ ~At("config")
            /\ \/ workspace'[Id].by = Now
               \/ workspace'[Id].by = workspace[Id].by /\ ~At("prepare")
        BY <1>1, <1>4, OnlyItsOwn
      <3>3. driver.stage \in {"prepare", "agent", "apply", "record"}
        BY <3>2, DriverFacts DEF HarnessTypes, At
      <3>4. QED
        BY <3>1, <3>2, <3>3 DEF At
    <2>2. line.by # Now
      BY <1>1, <2>1 DEF Ahead, Now
    <2>3. QED
      BY <1>2, <2>1, <2>2 DEF Faithful
  <1>5. QED
    BY <1>2, <1>3, <1>4

LEMMA NoTraceIsNone == NoTrace \notin Seq(Lines)
  <1>1. \A line \in Lines : DOMAIN line # {"id"}
    BY DEF Lines
  <1>2. [id |-> 0] \notin Lines
    BY <1>1
  <1>3. QED
    BY <1>2 DEF NoTrace

LEMMA TraceTyped ==
  ASSUME HarnessTypes, NEW r \in Out
  PROVE  /\ trace[r] # NoTrace <=> trace[r] \in Seq(Lines)
         /\ Written(r) \in Seq(Lines)
         /\ trace[r] # NoTrace => Written(r) = trace[r]
  BY NoTraceIsNone DEF HarnessTypes, Written

-------------------------------------------------------------------------------
(* What each conjunct depends on *)

LEMMA MineKept == HarnessTypes /\ PreparedByIt /\ [HarnessNext]_harnessVars => PreparedByIt'
  <1> SUFFICES ASSUME HarnessTypes, PreparedByIt, [HarnessNext]_harnessVars PROVE PreparedByIt'
    OBVIOUS
  <1>1. driver \in Drivers /\ workspace \in [Instance -> Solutions] /\ invocations \in Nat
        /\ users \in [Out -> SUBSET (1..invocations)]
    BY DEF HarnessTypes
  <1>2. ASSUME driver'.stage \in {"none", "config", "prepare"} PROVE PreparedByIt'
    BY <1>2 DEF PreparedByIt, At
  <1>3. CASE Prepare
    <2>1. Id \in Instance /\ workspace' = [workspace EXCEPT ![Id] = [solution |-> Base, by |-> Now]]
      BY <1>1, <1>3, UnderWay DEF Prepare, Leaves
    <2>2. driver'.stage = "agent" /\ driver'.todo = driver.todo
      <3>1. driver \in [stage : {"config", "prepare"}, out : Out, todo : SUBSET Instance]
        BY <1>1, <1>3 DEF Prepare, Drivers, At, NoDriver
      <3>2. QED
        BY <1>3, <3>1 DEF Prepare
    <2>3. Id' = Id /\ Now' = Now
      BY <1>3, <2>2 DEF Prepare, Id, Now
    <2>4. QED
      BY <1>1, <2>1, <2>2, <2>3 DEF PreparedByIt, At
  <1>4. ASSUME NEW success \in BOOLEAN, NEW wrote \in BOOLEAN, AgentEnds(success, wrote)
        PROVE  PreparedByIt'
    <2>1. driver'.stage = "apply" /\ Id' = Id /\ Now' = Now /\ workspace' = workspace
      BY <1>4 DEF AgentEnds, Id, Now
    <2>2. workspace[Id] = [solution |-> Base, by |-> Now]
      BY <1>4 DEF PreparedByIt, AgentEnds, At
    <2>3. QED
      BY <2>1, <2>2 DEF PreparedByIt, At
  <1>5. ASSUME NEW ok \in BOOLEAN, Applies(ok) PROVE PreparedByIt'
    <2>1. driver' = [stage |-> "record", out |-> driver.out, todo |-> driver.todo,
                     success |-> driver.success, applied |-> ok]
          /\ Id' = Id /\ Now' = Now /\ users' = users
      BY <1>5 DEF Applies, Id, Now
    <2>2. workspace[Id] = [solution |-> Base, by |-> Now] /\ Id \in Instance
          /\ driver # NoDriver /\ driver.out \in Out
      BY <1>1, <1>5, UnderWay, DriverFacts DEF PreparedByIt, Applies, At
    <2>3. CASE ok
      <3>1. workspace' = [workspace EXCEPT ![Id].solution = patch[driver.out][Id]]
            /\ patch[driver.out][Id] # 0
        BY <1>5, <2>3 DEF Applies
      <3>2. patch[driver.out][Id] \in users[driver.out] /\ Now \in users[driver.out]
        BY <2>2, <3>1 DEF HarnessTypes, Now
      <3>3. workspace'[Id] = [solution |-> patch[driver.out][Id], by |-> Now]
        BY <1>1, <2>2, <3>1
      <3>4. (\A u \in users[driver.out] : Now <= u) => patch[driver.out][Id] = Now
        BY <1>1, <2>2, <3>2 DEF Now
      <3>5. QED
        BY <2>1, <2>3, <3>2, <3>3, <3>4 DEF PreparedByIt, At
    <2>4. CASE ~ok
      <3>1. workspace' = workspace
        BY <1>5, <2>4 DEF Applies
      <3>2. QED
        BY <2>1, <2>2, <2>4, <3>1 DEF PreparedByIt, At
    <2>5. QED
      BY <2>3, <2>4
  <1>6. ASSUME OpenTrace \/ PrepareFails \/ Record \/ Done \/ Killed
               \/ \E r \in Out, samples \in (SUBSET Instance) \ {{}} : Invoke(r, samples)
        PROVE  PreparedByIt'
    <2>1. CASE OpenTrace
      <3>1. driver \in [stage : {"config", "prepare"}, out : Out, todo : SUBSET Instance]
        BY <1>1, <2>1 DEF OpenTrace, Drivers, At, NoDriver
      <3>2. driver'.stage = "prepare"
        BY <2>1, <3>1 DEF OpenTrace
      <3>3. QED
        BY <1>2, <3>2
    <2>2. CASE PrepareFails \/ Record
      <3>1. driver' = [stage |-> "prepare", out |-> driver.out, todo |-> driver.todo \ {Id}]
        <4>1. CASE PrepareFails
          BY <4>1 DEF PrepareFails, NextSample
        <4>2. CASE Record
          BY <4>2 DEF Record, NextSample
        <4>3. QED
          BY <2>2, <4>1, <4>2
      <3>2. QED
        BY <1>2, <3>1
    <2>3. CASE Done \/ Killed
      <3>1. driver'.stage = "none"
        BY <2>3 DEF Done, Killed, NoDriver
      <3>2. QED
        BY <1>2, <3>1
    <2>4. CASE \E r \in Out, samples \in (SUBSET Instance) \ {{}} : Invoke(r, samples)
      <3>1. driver'.stage = "config"
        BY <2>4 DEF Invoke
      <3>2. QED
        BY <1>2, <3>1
    <2>5. QED
      BY <1>6, <2>1, <2>2, <2>3, <2>4
  <1>7. ASSUME \/ \E o \in orphans, wrote \in BOOLEAN : OrphanEnds(o, wrote)
               \/ \E r \in Out : JudgeBegins(r)
               \/ \E v \in AnyVerdict : JudgeOne(v)
               \/ JudgeEnds \/ JudgeKilled \/ UNCHANGED harnessVars
        PROVE  PreparedByIt'
    <2>1. UNCHANGED <<driver, workspace, users, invocations>>
      BY <1>7 DEF OrphanEnds, JudgeBegins, JudgeOne, JudgeEnds, JudgeKilled, harnessVars
    <2>2. QED
      BY <2>1 DEF PreparedByIt, At, Id, Now
  <1>8. QED
    BY <1>3, <1>4, <1>5, <1>6, <1>7, Zenon DEF HarnessNext, AnyVerdict

\* The trace is extended with the line of the sample under way.
LEMMA OneMoreLine ==
  ASSUME HarnessTypes, Current, TracesTrue, PreparedByIt, [HarnessNext]_harnessVars,
         driver # NoDriver, ~At("config"), Id \in driver.todo, Id \in Instance,
         NEW line \in Lines, NextSample(line), line.id = Id, line.by = Now,
         NEW r \in Out, r = driver.out, Faithful(r, line, workspace[line.id])',
         UNCHANGED <<invocations, users>>
  PROVE  TracesTrue' /\ Current'
  <1>1. trace[r] \in Seq(Lines) /\ trace[r] # NoTrace /\ Written(r) = trace[r]
        /\ line.by \in Nat /\ invocations \in Nat
    BY NextSampleTyped, TraceTyped DEF HarnessTypes, Lines
  <1>2. /\ driver' # NoDriver /\ driver'.out = r /\ driver'.stage = "prepare"
        /\ driver'.todo = driver.todo \ {Id}
        /\ trace' = [trace EXCEPT ![r] = Append(trace[r], line)]
    BY NextSampleTyped
  <1>3. trace'[r] = Append(trace[r], line) /\ \A q \in Out \ {r} : trace'[q] = trace[q]
    BY <1>2 DEF HarnessTypes
  <1>4. ToSet(trace'[r]) = ToSet(trace[r]) \cup {line}
    BY <1>1, <1>3, ToSetOfAppend
  <1>5. Written(r)' = trace'[r] /\ trace'[r] # NoTrace
    <2>1. trace'[r] \in Seq(Lines)
      BY <1>1, <1>3
    <2>2. QED
      BY <2>1, NoTraceIsNone DEF Written
  <1>6. \A l \in ToSet(trace[r]) : l.by = Now /\ l.id # Id
    BY <1>1 DEF Current, TracesTrue, Holds, Ahead, At, Now
  <1>7. Alone(trace'[r])
    <2>1. Alone(trace[r])
      BY <1>1 DEF TracesTrue
    <2>2. QED
      BY <1>1, <1>3, <1>6, <2>1, AloneWithOneMore
  <1>8. Holds(r, line)'
    <2>1. Ahead(r, line)'
      BY <1>1, <1>2 DEF Ahead, Now
    <2>2. QED
      BY <2>1 DEF Holds
  <1>9. \A q \in Out : \A l \in ToSet(Written(q)) : Holds(q, l)'
    BY TraceTyped, LineKept, InToSet DEF TracesTrue
  <1>10. TracesTrue'
    <2>1. ASSUME NEW q \in Out, NEW l \in ToSet(Written(q))' PROVE Holds(q, l)'
      <3>1. CASE q = r
        BY <1>1, <1>4, <1>5, <1>8, <1>9, <2>1, <3>1
      <3>2. CASE q # r
        BY <1>3, <1>9, <2>1, <3>2 DEF Written
      <3>3. QED
        BY <3>1, <3>2
    <2>2. ASSUME NEW q \in Out PROVE Alone(Written(q))'
      <3>1. CASE q = r
        BY <1>5, <1>7, <3>1 DEF Alone
      <3>2. CASE q # r
        <4>1. Written(q)' = Written(q)
          BY <1>3, <3>2 DEF Written
        <4>2. QED
          BY <4>1 DEF TracesTrue, Alone
      <3>3. QED
        BY <3>1, <3>2
    <2>3. QED
      BY <2>1, <2>2 DEF TracesTrue
  <1>11. Current'
    BY <1>2, <1>4, <1>5, <1>6 DEF Current, Now
  <1>12. QED
    BY <1>10, <1>11

LEMMA TracesKept ==
  HarnessTypes /\ PreparedByIt /\ TracesTrue /\ Current /\ [HarnessNext]_harnessVars
    => TracesTrue' /\ Current'
  <1> SUFFICES ASSUME HarnessTypes, PreparedByIt, TracesTrue, Current, [HarnessNext]_harnessVars
               PROVE  TracesTrue' /\ Current'
    OBVIOUS
  <1>1. driver \in Drivers /\ trace \in [Out -> Seq(Lines) \cup {NoTrace}]
        /\ invocations \in Nat /\ workspace \in [Instance -> Solutions]
    BY DEF HarnessTypes
  <1>2. \A r \in Out : /\ Alone(Written(r))
                       /\ \A line \in ToSet(Written(r)) : Holds(r, line) /\ Holds(r, line)'
    BY TraceTyped, LineKept, InToSet DEF TracesTrue
  <1>3. ASSUME trace' = trace PROVE TracesTrue'
    <2>1. \A r \in Out : Written(r)' = Written(r)
      BY <1>3 DEF Written
    <2>2. QED
      BY <1>2, <2>1 DEF TracesTrue, Alone
  <1>4. CASE OpenTrace
    <2>1. driver \in [stage : {"config", "prepare"}, out : Out, todo : SUBSET Instance]
      BY <1>1, <1>4 DEF OpenTrace, Drivers, At, NoDriver
    <2>2. trace' = [trace EXCEPT ![driver.out] = <<>>] /\ driver'.out = driver.out
      BY <1>4, <2>1 DEF OpenTrace
    <2>3. trace'[driver.out] = <<>> /\ NoTrace # <<>> /\ driver.out \in Out
      BY <1>1, <2>1, <2>2 DEF NoTrace
    <2>4. ASSUME NEW r \in Out
          PROVE  Alone(Written(r))' /\ \A line \in ToSet(Written(r))' : Holds(r, line)'
      <3>1. CASE r = driver.out
        <4>1. Written(r)' = <<>>
          BY <2>3, <3>1 DEF Written
        <4>2. QED
          BY <4>1 DEF Alone, ToSet
      <3>2. CASE r # driver.out
        <4>1. Written(r)' = Written(r)
          BY <1>1, <2>2, <3>2 DEF Written
        <4>2. QED
          BY <1>2, <4>1 DEF Alone
      <3>3. QED
        BY <3>1, <3>2
    <2>5. Current'
      BY <2>2, <2>3 DEF Current, ToSet
    <2>6. QED
      BY <2>4, <2>5 DEF TracesTrue
  <1>5. CASE PrepareFails
    <2>1. Id \in driver.todo /\ Id \in Instance /\ driver # NoDriver /\ ~At("config")
          /\ driver.out \in Out
      BY <1>1, <1>5, UnderWay, DriverFacts DEF PrepareFails, At, NoDriver
    <2>2. PICK line \in Lines : /\ NextSample(line) /\ line.id = Id /\ line.by = Now
                                /\ line.success = FALSE
      BY <1>5, <2>1, LineIsTyped DEF PrepareFails
    <2>3. \A r \in Out : Faithful(r, line, workspace[line.id])'
      BY <2>2 DEF Faithful
    <2>4. UNCHANGED <<invocations, users>>
      BY <1>5 DEF PrepareFails
    <2>5. QED
      BY <2>1, <2>2, <2>3, <2>4, OneMoreLine
  <1>6. CASE Record
    <2>1. Id \in driver.todo /\ Id \in Instance /\ driver # NoDriver /\ ~At("config")
          /\ driver.out \in Out /\ driver.success \in BOOLEAN /\ driver.applied \in BOOLEAN
      BY <1>1, <1>6, UnderWay, DriverFacts DEF Record, At, NoDriver
    <2>2. PICK line \in Lines : /\ NextSample(line) /\ line.id = Id /\ line.by = Now
                                /\ line.applied = driver.applied
      BY <1>6, <2>1, LineIsTyped DEF Record
    <2>3. UNCHANGED <<invocations, users, workspace>>
      BY <1>6 DEF Record
    <2>4. ASSUME NEW r \in Out, r = driver.out
          PROVE  Faithful(r, line, workspace[line.id])'
      BY <1>6, <2>2, <2>3, <2>4 DEF Faithful, PreparedByIt, Record, At, Now
    <2>5. QED
      BY <2>1, <2>2, <2>3, <2>4, OneMoreLine
  <1>7. ASSUME NEW r \in Out, NEW samples \in (SUBSET Instance) \ {{}}, Invoke(r, samples)
        PROVE  TracesTrue' /\ Current'
    <2>1. trace' = trace /\ driver'.stage = "config"
      BY <1>7 DEF Invoke
    <2>2. QED
      BY <1>3, <2>1 DEF Current
  <1>8. CASE Done \/ Killed
    <2>1. trace' = trace /\ driver' = NoDriver
      BY <1>8 DEF Done, Killed
    <2>2. QED
      BY <1>3, <2>1 DEF Current
  <1>9. ASSUME /\ UNCHANGED <<trace, invocations>>
               /\ \/ driver' = driver
                  \/ driver # NoDriver /\ driver'.out = driver.out /\ driver.stage # "config"
        PROVE  TracesTrue' /\ Current'
    BY <1>3, <1>9 DEF Current, Now
  <1>10. CASE Prepare
    <2>1. driver \in [stage : {"config", "prepare"}, out : Out, todo : SUBSET Instance]
      BY <1>1, <1>10 DEF Prepare, Drivers, At, NoDriver
    <2>2. driver # NoDriver /\ driver'.out = driver.out /\ driver.stage # "config"
      BY <1>10, <2>1 DEF Prepare, At, NoDriver
    <2>3. QED
      BY <1>9, <1>10, <2>2 DEF Prepare
  <1>11. ASSUME \/ \E success, wrote \in BOOLEAN : AgentEnds(success, wrote)
                \/ \E ok \in BOOLEAN : Applies(ok)
         PROVE  TracesTrue' /\ Current'
    <2>1. driver # NoDriver /\ driver'.out = driver.out /\ driver.stage # "config"
          /\ UNCHANGED <<trace, invocations>>
      BY <1>11 DEF AgentEnds, Applies, At, NoDriver
    <2>2. QED
      BY <1>9, <2>1
  <1>12. ASSUME \/ \E o \in orphans, wrote \in BOOLEAN : OrphanEnds(o, wrote)
                \/ \E r \in Out : JudgeBegins(r)
                \/ \E v \in AnyVerdict : JudgeOne(v)
                \/ JudgeEnds \/ JudgeKilled \/ UNCHANGED harnessVars
         PROVE  TracesTrue' /\ Current'
    <2>1. UNCHANGED <<driver, trace, invocations>>
      BY <1>12 DEF OrphanEnds, JudgeBegins, JudgeOne, JudgeEnds, JudgeKilled, harnessVars
    <2>2. QED
      BY <1>9, <2>1
  <1>13. QED
    BY <1>4, <1>5, <1>6, <1>7, <1>8, <1>10, <1>11, <1>12, Zenon DEF HarnessNext, AnyVerdict

LEMMA JudgeKept ==
  HarnessTypes /\ PreparedByIt /\ TracesTrue /\ JudgeTrue /\ [HarnessNext]_harnessVars => JudgeTrue'
  <1> SUFFICES ASSUME HarnessTypes, PreparedByIt, TracesTrue, JudgeTrue, [HarnessNext]_harnessVars
               PROVE  JudgeTrue'
    OBVIOUS
  <1>1. judge \in Judges /\ trace \in [Out -> Seq(Lines) \cup {NoTrace}]
        /\ workspace \in [Instance -> Solutions]
    BY DEF HarnessTypes
  <1>2. judge # NoJudge =>
          /\ judge.run \in Out /\ judge.queue \in Seq(Lines) /\ judge.found \in Seq(Judged)
          /\ judge.samples \subseteq Instance
    BY <1>1 DEF Judges
  <1>3. ASSUME judge # NoJudge, NEW r \in Out, r = judge.run
        PROVE  /\ \A line \in ToSet(judge.queue) : Holds(r, line)'
               /\ \A v \in ToSet(judge.found) : Noted(r, v)'
    BY <1>2, <1>3, LineKept, NotedKept, InToSet DEF JudgeTrue
  <1>4. ASSUME NEW r \in Out, judge'.run = r, Alone(Recorded(judge'.found) \o judge'.queue),
               \A line \in ToSet(judge'.queue) : Holds(r, line)',
               \A v \in ToSet(judge'.found) : Noted(r, v)'
        PROVE  JudgeTrue'
    BY <1>4 DEF JudgeTrue, Alone, Holds, Ahead, Noted, Faithful
  <1>5. ASSUME NEW r \in Out, JudgeBegins(r) PROVE JudgeTrue'
    <2>1. judge' = [run |-> r, samples |-> config[r], queue |-> trace[r], found |-> <<>>]
          /\ trace[r] \in Seq(Lines) /\ Written(r) = trace[r]
      BY <1>5, TraceTyped DEF JudgeBegins, NoReport
    <2>2. \A line \in ToSet(trace[r]) : Holds(r, line)'
      BY <2>1, LineKept, InToSet DEF TracesTrue
    <2>3. Alone(trace[r])
      BY <2>1 DEF TracesTrue
    <2>4. Recorded(<<>>) \o trace[r] = trace[r]
      BY <2>1 DEF Recorded
    <2>5. \A v \in ToSet(<<>>) : FALSE
      BY DEF ToSet
    <2>6. QED
      BY <1>4, <2>1, <2>2, <2>3, <2>4, <2>5
  <1>6. ASSUME NEW verdict \in AnyVerdict, JudgeOne(verdict) PROVE JudgeTrue'
    <2> DEFINE rec == Head(judge.queue)
               v == [rec |-> rec, verdict |-> verdict, of |-> workspace[rec.id]]
    <2>1. judge # NoJudge /\ judge.queue # <<>> /\ workspace' = workspace
          /\ invocations' = invocations /\ users' = users
      BY <1>6 DEF JudgeOne
    <2>2. rec \in Lines /\ rec.id \in Instance /\ rec \in ToSet(judge.queue)
          /\ ToSet(Tail(judge.queue)) \subseteq ToSet(judge.queue)
      <3>1. judge.queue \in Seq(Lines) /\ judge.queue # <<>>
        BY <1>2, <2>1
      <3>2. ToSet(judge.queue) = {rec} \cup ToSet(Tail(judge.queue))
        BY <3>1, ToSetOfTail
      <3>3. rec \in Lines
        BY <3>1
      <3>4. QED
        BY <3>2, <3>3 DEF Lines
    <2>3. v \in Judged
      BY <1>1, <2>2, Zenon DEF Judged
    <2>4. judge' = [run |-> judge.run, samples |-> judge.samples, queue |-> Tail(judge.queue),
                    found |-> Append(judge.found, v)]
      BY <1>1, <1>6, <2>1 DEF JudgeOne, Judges
    <2>5. PICK r \in Out : r = judge.run
      BY <1>2, <2>1
    <2>6. PICK w \in Judged : w = v
      BY <2>3
    <2>7. Noted(r, w)'
      <3>1. Noted(r, w)
        BY <2>1, <2>2, <2>5, <2>6 DEF JudgeTrue, Holds, Ahead, Noted
      <3>2. QED
        BY <3>1, NotedKept
    <2>8. ToSet(Append(judge.found, v)) = ToSet(judge.found) \cup {w}
      BY <1>2, <2>1, <2>3, <2>6, ToSetOfAppend
    <2>9. Alone(Recorded(Append(judge.found, v)) \o Tail(judge.queue))
      <3>1. Recorded(Append(judge.found, v)) \o Tail(judge.queue)
              = Recorded(judge.found) \o judge.queue
        BY <1>2, <2>1, <2>3, OneMoreNoted
      <3>2. QED
        BY <2>1, <3>1 DEF JudgeTrue
    <2> HIDE DEF v
    <2>10. QED
      BY <1>3, <1>4, <2>1, <2>2, <2>4, <2>5, <2>7, <2>8, <2>9
  <1>7. CASE JudgeEnds \/ JudgeKilled
    BY <1>7 DEF JudgeEnds, JudgeKilled, JudgeTrue
  <1>8. ASSUME judge' = judge PROVE JudgeTrue'
    <2>1. CASE judge = NoJudge
      BY <1>8, <2>1 DEF JudgeTrue
    <2>2. CASE judge # NoJudge
      <3>1. PICK r \in Out : r = judge.run
        BY <1>2, <2>2
      <3>2. Alone(Recorded(judge.found) \o judge.queue)
        BY <2>2 DEF JudgeTrue
      <3>3. QED
        BY <1>3, <1>4, <1>8, <2>2, <3>1, <3>2
    <2>3. QED
      BY <2>1, <2>2
  <1>9. \/ \E r \in Out : JudgeBegins(r)
        \/ \E v \in AnyVerdict : JudgeOne(v)
        \/ JudgeEnds \/ JudgeKilled \/ judge' = judge
    BY DEF HarnessNext, AnyVerdict, harnessVars, Invoke, OpenTrace, Prepare, PrepareFails,
           AgentEnds, Applies, Record, Done, Killed, OrphanEnds
  <1>10. QED
    BY <1>5, <1>6, <1>7, <1>8, <1>9, Zenon

LEMMA ReportsKept ==
  HarnessTypes /\ JudgeTrue /\ ReportsTrue /\ [HarnessNext]_harnessVars => ReportsTrue'
  <1> SUFFICES ASSUME HarnessTypes, JudgeTrue, ReportsTrue, [HarnessNext]_harnessVars
               PROVE  ReportsTrue'
    OBVIOUS
  <1>1. judge \in Judges /\ report \in [Out -> Seq(Judged)]
    BY DEF HarnessTypes
  <1>2. \A r \in Out : /\ Alone(Recorded(report[r]))
                       /\ \A v \in ToSet(report[r]) : Noted(r, v)'
    BY <1>1, NotedKept, InToSet DEF ReportsTrue
  <1>3. CASE report' = report
    BY <1>2, <1>3 DEF ReportsTrue, Alone
  <1>4. CASE JudgeEnds
    <2>1. judge # NoJudge /\ judge.run \in Out /\ judge.found \in Seq(Judged)
          /\ judge.queue = <<>> /\ report' = [report EXCEPT ![judge.run] = judge.found]
      BY <1>1, <1>4 DEF JudgeEnds, Judges
    <2>2. PICK r \in Out : r = judge.run
      BY <2>1
    <2>3. \A v \in ToSet(judge.found) : Noted(r, v)'
      BY <2>1, <2>2, NotedKept, InToSet DEF JudgeTrue
    <2>4. Alone(Recorded(judge.found))
      <3>1. Recorded(judge.found) \o <<>> = Recorded(judge.found)
        BY <2>1, RecordsTyped
      <3>2. QED
        BY <2>1, <3>1 DEF JudgeTrue
    <2>5. report'[r] = judge.found /\ \A q \in Out \ {r} : report'[q] = report[q]
      BY <1>1, <2>1, <2>2
    <2>6. ASSUME NEW q \in Out
          PROVE  Alone(Recorded(report'[q])) /\ \A v \in ToSet(report'[q]) : Noted(q, v)'
      BY <1>2, <2>3, <2>4, <2>5
    <2>7. QED
      BY <2>6 DEF ReportsTrue, Alone
  <1>5. JudgeEnds \/ report' = report
    BY DEF HarnessNext, AnyVerdict, harnessVars, Invoke, OpenTrace, Prepare, PrepareFails,
           AgentEnds, Applies, Record, Done, Killed, OrphanEnds, JudgeBegins, JudgeOne,
           JudgeKilled
  <1>6. QED
    BY <1>3, <1>4, <1>5

-------------------------------------------------------------------------------
LEMMA HarnessInvariant == HarnessSpec => []HarnessInv
  <1>1. HarnessInv /\ [HarnessNext]_harnessVars => HarnessInv'
    BY TypesKept, MineKept, TracesKept, JudgeKept, ReportsKept DEF HarnessInv
  <1>2. QED
    BY <1>1, InitIsTrue, PTL DEF HarnessSpec

LEMMA InvShowsReports == HarnessInv => ReportIsOfItsRun
  <1> SUFFICES ASSUME HarnessInv, NEW r \in Out
               PROVE  /\ \A m, n \in DOMAIN report[r] :
                           /\ report[r][m].rec.by = report[r][n].rec.by
                           /\ report[r][m].rec.id = report[r][n].rec.id => m = n
                      /\ \A v \in ResolvedHttpOk(r) :
                           v.of.by = v.rec.by =>
                             /\ IF v.rec.applied THEN v.of.solution \in users[r]
                                ELSE v.of.solution = Base
                             /\ v.rec.applied /\ (\A u \in users[r] : v.rec.by <= u) =>
                                  v.of.solution = v.rec.by
    BY DEF ReportIsOfItsRun
  <1>1. report[r] \in Seq(Judged) /\ Alone(Recorded(report[r]))
        /\ \A v \in ToSet(report[r]) : Noted(r, v)
    BY DEF HarnessInv, HarnessTypes, ReportsTrue
  <1>2. \A m, n \in DOMAIN report[r] :
          /\ report[r][m].rec.by = report[r][n].rec.by
          /\ report[r][m].rec.id = report[r][n].rec.id => m = n
    BY <1>1 DEF Alone, Recorded
  <1>3. \A v \in ResolvedHttpOk(r) : v.rec.success /\ Faithful(r, v.rec, v.of)
    BY <1>1 DEF ResolvedHttpOk, Noted
  <1>4. QED
    BY <1>2, <1>3 DEF Faithful

\* The driver, its records, the workspaces and what is left under an --out are well
\* typed, and every patch and every agent left over is of an invocation with that --out.
THEOREM DriverTyped == HarnessSpec => []HarnessTypes
  <1>1. HarnessInv => HarnessTypes
    BY DEF HarnessInv
  <1>2. QED
    BY <1>1, HarnessInvariant, PTL

\* Whatever invocations share workspaces or --out, are killed anywhere and leave agents
\* behind, and whenever the judge looks: what a report counts as resolved by an agent
\* that succeeded is what the run left in that workspace, unless another invocation
\* prepared it since.
THEOREM ReportsAreTrue == HarnessSpec => []ReportIsOfItsRun
  <1>1. QED
    BY InvShowsReports, HarnessInvariant, PTL
===============================================================================
