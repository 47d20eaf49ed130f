----------------------------------- MODULE Dcgm -----------------------------------
(* The GPUs as monitor_resources.py sees them and analyze_session_resources.py sums   *)
(* them up.  DCGM (external) takes readings of a field faster than the sampler drains *)
(* them; a sample keeps mean, min, max and number of a gauge's readings, and of a     *)
(* byte counter the last one, from which the analysis takes differences again.        *)
EXTENDS ServingAnalysis

CONSTANTS
  Gpus, GpuRole,     \* parse_gpu_role_map: the role of the worker a GPU belongs to
  Gauges,            \* the values of a gauge
  MaxReadings,
  Scale              \* a mean is written in multiples of 1 / Scale

ASSUME ScaleAssumption ==
  \A n \in 1..MaxReadings : Scale % (n * Cardinality(Gpus)) = 0

VARIABLES
  gpu,         \* [GPU -> its byte counter, and (ghosts) the traffic and the resets so far]
  readings,    \* [GPU -> what DCGM read: a value, or None if blank, the traffic, the resets]
  drained,     \* [GPU -> how many of its readings the sampler got]
  samples      \* the rows of resource.ndjson

gpuVars == <<gpu, readings, drained, samples>>

Field == plan.observer     \* "gauge" or "counter"

DcgmInit ==
  /\ gpu = [g \in Gpus |-> [counter |-> 0, moved |-> 0, resets |-> 0]]
  /\ readings = [g \in Gpus |-> <<>>]
  /\ drained = [g \in Gpus |-> 0]
  /\ samples = <<>>

Taken(value, g) == [value |-> value, moved |-> gpu'[g].moved, resets |-> gpu'[g].resets]

ReadGpu(g) ==
  /\ SumOver(Gpus, [h \in Gpus |-> Len(readings[h])]) < MaxReadings
  /\ \/ /\ Field = "gauge" /\ UNCHANGED gpu
        /\ \E value \in Gauges \cup {None} :
             readings' = [readings EXCEPT ![g] = Append(@, Taken(value, g))]
     \/ /\ Field = "counter"
        /\ \E bytes \in 0..1 :
             gpu' = [gpu EXCEPT ![g].counter = @ + bytes, ![g].moved = @ + bytes]
        /\ \E value \in {gpu'[g].counter, None} :
             readings' = [readings EXCEPT ![g] = Append(@, Taken(value, g))]
  /\ UNCHANGED <<drained, samples>>

ResetGpu(g) ==
  /\ Field = "counter"
  /\ SumOver(Gpus, [h \in Gpus |-> gpu[h].resets]) < plan.crashes
  /\ gpu' = [gpu EXCEPT ![g].counter = 0, ![g].resets = @ + 1]
  /\ UNCHANGED <<readings, drained, samples>>

-------------------------------------------------------------------------------
(* monitor_resources.py *)

\* _is_dcgm_blank, for all the values that stand for none.
IsBlank(reading) == reading.value = None

\* _iter_buffered_values: the readings that are not blank.
Buffered(seq) == SelectSeq(seq, LAMBDA r : ~IsBlank(r))

Values(seq) == {seq[i].value : i \in 1..Len(seq)}

\* DcgmSampler.sample for one field: what a row says of the readings drained, or None.
Entry(seq) ==
  LET got == Buffered(seq)
      sum == Sum([i \in 1..Len(got) |-> got[i].value])
  IN  IF got = <<>> THEN None
      ELSE IF Field = "counter" THEN Last(got).value
      ELSE [mean |-> (Scale * sum) \div Len(got), n |-> Len(got),
            min |-> Min(Values(got)), max |-> Max(Values(got))]

\* run_sampler: a row per tick; when the drain raises an error the row has no GPUs, and
\* the next one gets their readings.  (from and to are ghosts.)
Sample ==
  /\ Field \in {"gauge", "counter"}
  /\ samples # <<>> => now >= Last(samples).ts + Interval
  /\ \E to \in {drained, [g \in Gpus |-> Len(readings[g])]} :
       /\ samples' = Append(samples,
            [ts |-> now, from |-> drained, to |-> to,
             gpus |-> [g \in Gpus |-> Entry(SubSeq(readings[g], drained[g] + 1, to[g]))]])
       /\ drained' = to
  /\ UNCHANGED <<gpu, readings>>

DcgmNext ==
  \/ \E g \in Gpus : ReadGpu(g) \/ ResetGpu(g)
  \/ Sample

-------------------------------------------------------------------------------
(* analyze_session_resources.py *)

\* load_samples_in_window
InWindow(from, to) == SelectSeq(samples, LAMBDA s : from <= s.ts /\ s.ts <= to)

\* The entries of a GPU in the samples that have one, with the place of the sample.
Entries(loaded, g) ==
  LET has == SetToSortSeq({i \in 1..Len(loaded) : loaded[i].gpus[g] # None}, <)
  IN  [k \in 1..Len(has) |-> [at |-> has[k], entry |-> loaded[has[k]].gpus[g]]]

\* Fault: the first value counts from zero.
DeltasFromZero(loaded, g) ==
  LET seen == Entries(loaded, g)
  IN  [k \in 1..Len(seen) |->
         [at |-> seen[k].at,
          delta |-> Bigger(0, seen[k].entry - (IF k = 1 THEN 0 ELSE seen[k - 1].entry))]]

\* extract_metrics, for a counter: the first value is the baseline, and a reset counts 0.
Deltas(loaded, g) ==
  LET seen == Entries(loaded, g)
  IN  [k \in 1..Bigger(0, Len(seen) - 1) |->
         [at |-> seen[k + 1].at, delta |-> Bigger(0, seen[k + 1].entry - seen[k].entry)]]

\* extract_metrics, for a gauge: a window per sample.
Windows(loaded, g) ==
  [k \in 1..Len(Entries(loaded, g)) |-> Entries(loaded, g)[k].entry]

GpusOf(role) == {g \in Gpus : GpuRole[g] = role}

\* The role's aggregate of one sample: the mean of the means, not weighted.
RoleWindow(sample, role) ==
  LET mine == {g \in GpusOf(role) : sample.gpus[g] # None}
      Each(part) == SumOver(mine, [g \in mine |-> sample.gpus[g][part]])
  IN  IF mine = {} THEN <<>>
      ELSE <<[mean |-> Each("mean") \div Cardinality(mine), n |-> Each("n"),
              min |-> Min({sample.gpus[g].min : g \in mine}),
              max |-> Max({sample.gpus[g].max : g \in mine})]>>
RoleWindows(loaded, role) ==
  FlattenSeq([i \in 1..Len(loaded) |-> RoleWindow(loaded[i], role)])

\* ... of a counter: the deltas of its GPUs in one sample together.
RoleDeltas(loaded, role) ==
  LET deltas == [g \in GpusOf(role) |-> Deltas(loaded, g)]
      At(i) == {<<g, k>> \in GpusOf(role) \X (1..Len(loaded)) :
                  k <= Len(deltas[g]) /\ deltas[g][k].at = i}
      sampled == SetToSortSeq({i \in 1..Len(loaded) : At(i) # {}}, <)
  IN  [j \in 1..Len(sampled) |->
         MapThenSumSet(LAMBDA p : deltas[p[1]][p[2]].delta, At(sampled[j]))]

\* Fault: the mean of a field is the mean of its windows' means.
StatsUnweighted(windows) ==
  [n |-> Sum([i \in 1..Len(windows) |-> windows[i].n]),
   sum |-> Sum([i \in 1..Len(windows) |-> windows[i].mean]),
   weight |-> Len(windows),
   min |-> Min({windows[i].min : i \in 1..Len(windows)}),
   max |-> Max({windows[i].max : i \in 1..Len(windows)})]

\* stats, of one window at least: its mean is sum / weight, weighted with n.
Stats(windows) ==
  [n |-> Sum([i \in 1..Len(windows) |-> windows[i].n]),
   sum |-> Sum([i \in 1..Len(windows) |-> windows[i].mean * windows[i].n]),
   weight |-> Sum([i \in 1..Len(windows) |-> windows[i].n]),
   min |-> Min({windows[i].min : i \in 1..Len(windows)}),
   max |-> Max({windows[i].max : i \in 1..Len(windows)})]

-------------------------------------------------------------------------------
(* Properties *)

\* The readings of a GPU that the rows of a window drained, and that were not blank.
Truth(loaded, g) ==
  IF loaded = <<>> THEN <<>>
  ELSE Buffered(SubSeq(readings[g], Head(loaded).from[g] + 1, Last(loaded).to[g]))

TrueSum(seq) == Sum([i \in 1..Len(seq) |-> seq[i].value])

\* Means, minima and maxima of samples are those of the readings behind them, however
\* these fell into samples, and although blank readings and failed drains leave holes; a
\* role's, too, except that its mean is exact only where its GPUs were read equally often.
GaugesTrue(loaded) ==
  /\ \A g \in Gpus :
       LET seq == Truth(loaded, g)
           s == Stats(Windows(loaded, g))
       IN  /\ seq = <<>> <=> Windows(loaded, g) = <<>>
           /\ seq # <<>> =>
                /\ s.n = Len(seq)
                /\ s.sum * Len(seq) = Scale * TrueSum(seq) * s.weight
                /\ s.min = Min(Values(seq)) /\ s.max = Max(Values(seq))
  /\ \A role \in {GpuRole[g] : g \in Gpus} :
       LET all == UNION {Values(Truth(loaded, g)) : g \in GpusOf(role)}
           n == SumOver(GpusOf(role), [g \in GpusOf(role) |-> Len(Truth(loaded, g))])
           sum == SumOver(GpusOf(role), [g \in GpusOf(role) |-> TrueSum(Truth(loaded, g))])
           s == Stats(RoleWindows(loaded, role))
           even == \A i \in 1..Len(loaded) : \A g, h \in GpusOf(role) :
                     LET At(x) == Len(Truth(<<loaded[i]>>, x)) IN At(g) = At(h)
       IN  n > 0 =>
             /\ s.n = n /\ s.min = Min(all) /\ s.max = Max(all)
             /\ Scale * s.min * s.weight <= s.sum /\ s.sum <= Scale * s.max * s.weight
             /\ even => s.sum * n = Scale * sum * s.weight

\* A counter's deltas add up to the traffic between its first and its last reading that
\* the window kept, less what a reset hides, and are never negative; a role's add up to
\* those of its GPUs.
BytesTrue(loaded) ==
  /\ \A g \in Gpus :
       LET kept == {Last(Truth(<<loaded[i]>>, g)) :
                      i \in {j \in 1..Len(loaded) : Truth(<<loaded[j]>>, g) # <<>>}}
           moved == Max({r.moved : r \in kept}) - Min({r.moved : r \in kept})
           total == Sum([k \in 1..Len(Deltas(loaded, g)) |-> Deltas(loaded, g)[k].delta])
       IN  kept # {} =>
             /\ 0 <= total /\ total <= moved
             /\ Cardinality({r.resets : r \in kept}) = 1 => total = moved
  /\ \A role \in {GpuRole[g] : g \in Gpus} :
       Sum(RoleDeltas(loaded, role))
         = SumOver(GpusOf(role), [g \in GpusOf(role) |->
             Sum([k \in 1..Len(Deltas(loaded, g)) |-> Deltas(loaded, g)[k].delta])])

\* In any window of the samples.
ResourcesTrue ==
  \A i \in 1..Len(samples) : \A j \in i..Len(samples) :
    LET loaded == InWindow(samples[i].ts, samples[j].ts) IN
    IF Field = "gauge" THEN GaugesTrue(loaded) ELSE BytesTrue(loaded)
===============================================================================
