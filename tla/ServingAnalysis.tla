------------------------------ MODULE ServingAnalysis ------------------------------
(* What the scripts compute from the records of Serving: analyze_frontend_log.py,     *)
(* analyze_worker_scheduling.py, analyze_request_wait.py and analyze_vllm_metrics.py. *)
(* A fraction is <<numerator, denominator>>.                                          *)
EXTENDS Serving, Sums

CONSTANTS
  Bounds,        \* the finite upper bounds of the histogram's buckets, ascending
  Quantiles      \* fractions

\* A bound that no queue time reaches is as good as none.
ASSUME BoundsAssumption ==
  /\ Bounds \in Seq(1..MaxNow) /\ Bounds # <<>>
  /\ \A i \in 2..Len(Bounds) : Bounds[i - 1] < Bounds[i]
ASSUME QuantilesAssumption ==
  \A q \in Quantiles : q[1] \in Nat \ {0} /\ q[2] \in Nat /\ q[1] <= q[2]

CeilDiv(a, b) == (a + b - 1) \div b

-------------------------------------------------------------------------------
(* analyze_request_wait.py and analyze_worker_scheduling.py *)

\* parse_frontend: the last line of a request.
LinesOf(r) == {i \in 1..Len(frontend) : frontend[i].rid = r}
ParseFrontend ==
  [r \in {frontend[i].rid : i \in 1..Len(frontend)} |-> frontend[Max(LinesOf(r))]]

\* load_records: the lines of all worker logs, each known by its log and its place there.
SchedRecords == UNION {{w} \X (1..Len(sched[w])) : w \in WorkerNames}
LineAt(p) == sched[p[1]][p[2]]

\* by_role and by_worker_role: the lines their statistics are over.
ByRole(role) == {p \in SchedRecords : LineAt(p).role = role}
ByWorkerRole(w, role) == {p \in ByRole(role) : p[1] = w}

\* Fault: a later line of a log replaces an earlier one.
LatestWait(r, role) ==
  {p \in ByRole(role) :
     LineAt(p).rid = r /\ \A q \in ByWorkerRole(p[1], role) : LineAt(q).rid = r => q[2] <= p[2]}

\* parse_worker_waits: every queue time of the request in that role.
WorkerWaits(r, role) == {p \in ByRole(role) : LineAt(p).rid = r}

Waits(lines) == SumOver(lines, [p \in lines |-> LineAt(p).wait])

\* join_requests, with the properties of RequestWait.
Joined(r) ==
  LET prefill == WorkerWaits(r, "prefill")
      decode == WorkerWaits(r, "decode")
  IN  [total   |-> ParseFrontend[r].elapsed,
       ttft    |-> ParseFrontend[r].ttft,
       prefill |-> IF prefill = {} THEN None ELSE Waits(prefill),
       decode  |-> IF decode = {} THEN None ELSE Waits(decode)]
OrZero(x) == IF x = None THEN 0 ELSE x
TotalWait(row) == OrZero(row.prefill) + OrZero(row.decode)
Matched(row) == row.prefill # None \/ row.decode # None
PrefillCompute(row) ==
  IF row.ttft = None \/ row.prefill = None THEN None ELSE row.ttft - row.prefill

\* rollup_sessions.
SessionWait(s) ==
  LET mine == {r \in DOMAIN ParseFrontend : Session[r] = s}
  IN  [n |-> Cardinality(mine),
       total |-> SumOver(mine, [r \in mine |-> Joined(r).total]),
       wait |-> SumOver(mine, [r \in mine |-> TotalWait(Joined(r))])]

\* The rows are in the order of the ids, and sorting them by total keeps it.
IdOrder == CHOOSE id \in [Requests -> 1..Cardinality(Requests)] :
        \A p, q \in Requests : id[p] = id[q] => p = q
Slower(p, q) ==
  \/ Joined(p).total > Joined(q).total
  \/ Joined(p).total = Joined(q).total /\ IdOrder[p] < IdOrder[q]

\* tail_buckets: the slowest ceil(frac * n) matched requests that took any time.
TailBucket(frac) ==
  LET mine == {r \in DOMAIN ParseFrontend : Matched(Joined(r)) /\ Joined(r).total > 0}
      k == Bigger(1, CeilDiv(frac[1] * Cardinality(mine), frac[2]))
      top == {r \in mine : Cardinality({q \in mine : Slower(q, r)}) < k}
  IN  IF mine = {} THEN None
      ELSE [k |-> k, wait |-> SumOver(top, [r \in top |-> TotalWait(Joined(r))]),
            all |-> SumOver(mine, [r \in mine |-> TotalWait(Joined(r))])]

\* load_session_windows: query.start to query.end, or to the last event of all.
EventsOf(s) == {i \in 1..Len(profile) : profile[i].sid = s}
Marked(s, ev) == {i \in EventsOf(s) : profile[i].ev = ev}
SessionWindow(s) ==
  LET ends == Marked(s, "query.end")
  IN  <<profile[Max(Marked(s, "query.start"))].ts,
        IF ends # {} THEN profile[Max(ends)].ts ELSE Max({profile[i].ts : i \in EventsOf(s)})>>

-------------------------------------------------------------------------------
(* analyze_vllm_metrics.py *)

\* load_rows: the window is closed at both ends, and rows without metrics are dropped.
\* What is loaded is known by its places in the file.
LoadRows(from, to) ==
  {i \in 1..Len(rows) : from <= rows[i].ts /\ rows[i].ts <= to /\ rows[i].ok}

\* Fault: a series is keyed by role and metric only.
SeriesOfRole(loaded, w) == {i \in loaded : rows[i].role = Role[w]}

\* collect_series, for one worker; the file is in the order of time.
Series(loaded, w) == {i \in loaded : rows[i].worker = w}
Oldest(series) == rows[Min(series)]
Latest(series) == rows[Max(series)]

\* What the exposed histogram says: _count, _sum, and _bucket for an upper bound.
Inf == MaxNow + 1
Uppers == Append(Bounds, Inf)
AtMost(bag, le) == SumOver({d \in DOMAIN bag : d <= le}, bag)
Count(bag) == AtMost(bag, Inf)
Spent(bag) == SumOver(DOMAIN bag, [d \in DOMAIN bag |-> d * bag[d]])

\* counter_stats, of the count of requests served.
CounterStats(series) ==
  LET n == Cardinality(series)
  IN  [n |-> n,
       delta |-> IF n < 2 THEN None
                 ELSE Bigger(0, Count(Latest(series).seen) - Count(Oldest(series).seen)),
       seconds |-> IF n < 2 THEN None ELSE Latest(series).ts - Oldest(series).ts]

\* Fault: the buckets are summed up though they are cumulative.
DeltasSummed(series) ==
  [i \in 1..Len(Uppers) |->
     Bigger(0, Sum([j \in 1..i |-> AtMost(Latest(series).seen, Uppers[j])
                                   - AtMost(Oldest(series).seen, Uppers[j])]))]

\* histogram_stats: what each bucket gained, cumulative over the bounds.
BucketDeltas(series) ==
  [i \in 1..Len(Uppers) |->
     Bigger(0, AtMost(Latest(series).seen, Uppers[i])
               - AtMost(Oldest(series).seen, Uppers[i]))]

SumDelta(series) == Bigger(0, Spent(Latest(series).seen) - Spent(Oldest(series).seen))

\* histogram_quantile: linear in the bucket the target falls into; beyond the last
\* finite bound that bound.
HistogramQuantile(q, cum) ==
  LET total == cum[Len(cum)]
      i == Min({j \in 1..Len(cum) : cum[j] * q[2] >= q[1] * total})
      lower == IF i = 1 THEN 0 ELSE Uppers[i - 1]
      below == IF i = 1 THEN 0 ELSE cum[i - 1]
  IN  IF total <= 0 THEN None
      ELSE IF Uppers[i] = Inf THEN (IF lower > 0 THEN <<lower, 1>> ELSE None)
      ELSE IF cum[i] = below THEN <<Uppers[i], 1>>
      ELSE <<lower * q[2] * (cum[i] - below) + (q[1] * total - q[2] * below) * (Uppers[i] - lower),
             q[2] * (cum[i] - below)>>

\* `max`: the highest finite bound whose cumulative count grew.
HistogramMax(cum) ==
  LET grew == {i \in 1..Len(Bounds) : cum[i] > 0}
  IN  IF grew = {} THEN None ELSE Bounds[Max(grew)]

NoHistogram == [delta |-> None, mean |-> None, quantile |-> [q \in Quantiles |-> None], max |-> None]
Histogram(count, sum, cum) ==
  [delta |-> count,
   mean |-> IF count = 0 THEN None ELSE <<sum, count>>,
   quantile |-> [q \in Quantiles |-> IF count = 0 THEN None ELSE HistogramQuantile(q, cum)],
   max |-> IF count = 0 THEN None ELSE HistogramMax(cum)]

\* histogram_stats: a mean of zero is left out.
HistogramStats(series) ==
  IF Cardinality(series) < 2 THEN NoHistogram
  ELSE LET h == Histogram(CounterStats(series).delta, SumDelta(series), BucketDeltas(series))
       IN  [h EXCEPT !.mean = IF SumDelta(series) = 0 THEN None ELSE @]

-------------------------------------------------------------------------------
(* aggregate_by_role *)

\* The workers of a role with enough samples to count.
Counting(loaded, role) ==
  {w \in WorkerNames : Role[w] = role /\ Cardinality(Series(loaded, w)) >= 2}

RoleCounter(loaded, role) ==
  LET mine == Counting(loaded, role)
      stats == [w \in mine |-> CounterStats(Series(loaded, w))]
  IN  IF mine = {} THEN [delta |-> None, seconds |-> None]
      ELSE [delta |-> SumOver(mine, [w \in mine |-> stats[w].delta]),
            seconds |-> Max({stats[w].seconds : w \in mine})]

RoleHistogram(loaded, role) ==
  LET mine == Counting(loaded, role)
      Gained(i) == SumOver(mine, [w \in mine |-> BucketDeltas(Series(loaded, w))[i]])
  IN  Histogram(OrZero(RoleCounter(loaded, role).delta),
                SumOver(mine, [w \in mine |-> SumDelta(Series(loaded, w))]),
                [i \in 1..Len(Uppers) |-> Gained(i)])

-------------------------------------------------------------------------------
(* Properties *)

\* What the scripts join from three logs is what happened: a request's waits are the time
\* it spent in queues it got out of, wherever it was sent again, and fit into the time the
\* frontend saw; so do a session's into its window, and both scripts agree on a role's
\* total.  Time to first token covers the prefill queue, unless prefill was repeated after
\* the first token.  A wider tail holds no smaller share of the waits.
WaitsAddUp ==
  /\ \A r \in DOMAIN ParseFrontend :
       LET row == Joined(r) IN
       /\ OrZero(row.prefill) = waited[r]["prefill"] /\ OrZero(row.decode) = waited[r]["decode"]
       /\ TotalWait(row) <= row.total
       /\ row.ttft # None => row.ttft <= row.total
       /\ PrefillCompute(row) # None /\ ~ParseFrontend[r].late => PrefillCompute(row) >= 0
  /\ \A s \in {Session[r] : r \in DOMAIN ParseFrontend} :
       SessionWait(s).total <= SessionWindow(s)[2] - SessionWindow(s)[1]
  /\ plan.requests \subseteq DOMAIN ParseFrontend =>
       \A role \in Roles :
         /\ Waits(ByRole(role))
              = SumOver(plan.requests, [r \in plan.requests |-> OrZero(Joined(r)[role])])
         /\ Waits(ByRole(role)) = SumOver({w \in WorkerNames : Role[w] = role},
                                          [w \in WorkerNames |-> Waits(ByWorkerRole(w, role))])
  /\ LET half == TailBucket(<<1, 2>>)
         tenth == TailBucket(<<1, 10>>)
     IN  half # None => tenth.wait <= half.wait /\ half.wait <= half.all

\* The windows that end with the newest row.
LoadedWindows == {LoadRows(rows[i].ts, Last(rows).ts) : i \in 1..Len(rows)}

Served(series) == Count(Latest(series).ever) - Count(Oldest(series).ever)
OneLife(series) == Latest(series).born = Oldest(series).born

\* A counter's delta is what the worker did between the first and the last scrape of it in
\* the window, although rows of a tick share a time stamp they were not taken at; it is
\* less, and never negative, if the worker was restarted in between.
CountersTrue ==
  rows # <<>> =>
    \A loaded \in LoadedWindows :
      /\ \A w \in WorkerNames :
           LET series == Series(loaded, w)
               delta == CounterStats(series).delta
           IN  Cardinality(series) >= 2 =>
                 /\ 0 <= delta /\ delta <= Served(series)
                 /\ OneLife(series) => delta = Served(series)
      /\ \A role \in Roles :
           LET mine == Counting(loaded, role) IN
           mine # {} =>
             RoleCounter(loaded, role).delta
               <= SumOver(mine, [w \in mine |-> Served(Series(loaded, w))])

\* The k-th smallest of the queue times in a bag.
Ranked(bag, k) == Min({d \in DOMAIN bag : AtMost(bag, d) >= k})

\* A quantile <<a, b>> of bag lies in the bucket that the value at its rank fell into.
InItsBucket(value, q, bag) ==
  LET d == Ranked(bag, CeilDiv(q[1] * Count(bag), q[2]))
      i == Min({j \in 1..Len(Uppers) : d <= Uppers[j]})
      lower == IF i = 1 THEN 0 ELSE Uppers[i - 1]
  IN  IF Uppers[i] = Inf THEN value = IF lower > 0 THEN <<lower, 1>> ELSE None
      ELSE lower * value[2] <= value[1] /\ value[1] <= Uppers[i] * value[2]

Gain(series) == [d \in 0..MaxNow |-> Latest(series).ever[d] - Oldest(series).ever[d]]

\* A histogram's quantiles are right to within a bucket, for a worker that was not
\* restarted in the window and for a role whose workers were not, however many of its
\* scrapes failed; its mean is right, and no queue time in a finite bucket exceeds its max.
HistogramTrue ==
  rows # <<>> =>
    \A loaded \in LoadedWindows :
      /\ \A w \in WorkerNames :
           LET series == Series(loaded, w)
               h == HistogramStats(series)
               bag == Gain(series)
           IN  Cardinality(series) >= 2 /\ OneLife(series) /\ Count(bag) > 0 =>
                 /\ h.delta = Count(bag)
                 /\ h.mean = IF Spent(bag) = 0 THEN None ELSE <<Spent(bag), Count(bag)>>
                 /\ \A q \in Quantiles : InItsBucket(h.quantile[q], q, bag)
                 /\ \A d \in 0..Last(Bounds) : bag[d] > 0 => d <= h.max
      /\ \A role \in Roles :
           LET mine == Counting(loaded, role)
               h == RoleHistogram(loaded, role)
               bag == [d \in 0..MaxNow |-> SumOver(mine, [w \in mine |-> Gain(Series(loaded, w))[d]])]
           IN  (\A w \in mine : OneLife(Series(loaded, w))) /\ Count(bag) > 0 =>
                 /\ h.mean = <<Spent(bag), Count(bag)>>
                 /\ \A q \in Quantiles : InItsBucket(h.quantile[q], q, bag)

-------------------------------------------------------------------------------
Quiet == \A r \in plan.requests : req[r].at \in {"new", "done"}

Read == FlattenSeq([i \in 1..Len(Workers) |-> dump[Workers[i]]])
Records == Kept(LoadDump(Read))
Chains == ChainSessions(Records)

\* Neither session's prompts could pass for a continuation of the other's.
Alike(r, s) ==
  LET lcp == LcpLen(Text[r], Text[s]) IN
  Reaches(lcp, Len(Text[r])) \/ Reaches(lcp, Len(Text[s]))
\* The session's history was compacted: the prompt does not go on from the one before.
Compacted(r) == Before[r] # None /\ ~IsPrefix(Text[Before[r]], Text[r])

\* Chaining by shared prefixes finds the sessions again, with their requests in order,
\* whatever the interleaving, and although requests were dumped by two roles and again
\* when they were sent again: as long as no prompts of two sessions have more in common
\* than the system prompt, and that is less than MinFrac of a prompt.  A compaction
\* starts a new chain.  The exporter has the same requests in the same order.
ChainsAreSessions ==
  Quiet =>
    /\ \A s \in {Session[r] : r \in plan.requests} :
         LET mine == ExportOf(Read, Session, s) IN
         \A i \in 2..Len(mine) : Before[mine[i].rid] # None =>
           \E j \in 1..(i - 1) : mine[j].rid = Before[mine[i].rid]
    /\ (\A i, j \in 1..Len(Records) :
          Session[Records[i].rid] # Session[Records[j].rid]
            => ~Alike(Records[i].rid, Records[j].rid)) =>
         /\ \A i \in 1..Len(Chains) : \A j \in 2..Len(Chains[i]) :
              Before[Chains[i][j].rid] = Chains[i][j - 1].rid
         /\ \A i \in 1..Len(Records) :
              LET r == Records[i].rid IN
              /\ Cardinality({p \in (1..Len(Chains)) \X (1..Len(Records)) :
                                p[2] <= Len(Chains[p[1]]) /\ Chains[p[1]][p[2]].rid = r}) = 1
              /\ (Before[r] = None \/ Compacted(r)) <=>
                   \E c \in 1..Len(Chains) : Head(Chains[c]).rid = r

\* Consecutive intervals from a to b.
Tile(parts, a, b) ==
  /\ \A i \in 1..Len(parts) :
       parts[i].start = (IF i = 1 THEN a ELSE parts[i - 1].end) /\ parts[i].start <= parts[i].end
  /\ (IF parts = <<>> THEN a ELSE Last(parts).end) = b

Newest == CHOOSE rec \in ToSet(Read) : rec.ts = Len(Read)

\* How much of a text is file content, each symbol counted once.
InFiles(text) ==
  Cardinality({i \in 0..(Len(text) - 1) : \E m \in FileSpans(text) : m[1] <= i /\ i < m[2]})

\* Nothing of a prompt is lost or counted twice, wherever it is cut off: its turns tile
\* it, a turn's segments tile the turn's content, only the last turn can be the prompt for
\* an answer, and the tokens of shared prefix, new file content and the rest are its
\* tokens (at least, where the prefix is counted in tokens and the files in proportion).
\* File content within file content is counted once.
PromptsAddUp ==
  /\ Read # <<>> =>
       \A n \in 0..Len(Newest.text) :
         LET turns == SplitTurns(SubSeq(Newest.text, 1, n)) IN
         /\ Tile(turns, 0, n)
         /\ \A i \in 1..Len(turns) :
              /\ Tile(turns[i].segments, turns[i].from, turns[i].to)
              /\ turns[i].start <= turns[i].from /\ turns[i].to <= turns[i].end
              /\ turns[i].prompt => i = Len(turns)
  /\ Quiet =>
       \A c \in 1..Len(Chains) : \A i \in 1..Len(Chains[c]) : \A mode \in {"chars", "tok", "ids"} :
         LET row == Row(IF i = 1 THEN None ELSE Chains[c][i - 1].text, Chains[c][i].text, mode) IN
         /\ row.prefixTotal + row.newFile + row.newOther >= row.total
         /\ mode # "ids" => /\ row.prefixTotal + row.newFile + row.newOther = row.total
                            /\ row.prefixFile <= row.prefixTotal
         /\ mode = "chars" => row.prefixFile + row.newFile
                                = InFiles(Chains[c][i].text) * Tokens(Chains[c][i].text)
===============================================================================
