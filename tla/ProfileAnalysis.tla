---------------------------- MODULE ProfileAnalysis ----------------------------
(***************************************************************************)
(* The scripts that read the profiler's logs, as operators on the logs of  *)
(* Profile: analyze_profiles.py (Turn and the rows made of it),            *)
(* analyze_tool_time.py and analyze_subagent_time.py (Wall),               *)
(* analyze_idle_time.py (Idle), trim_idle_tail.py (Window), and the two    *)
(* that read the messages the testbed recorded, filter_hanging_tools.py    *)
(* (Flagged) and analyze_timeouts.py (Cause).  What they say is compared   *)
(* with what went on, which Profile counts tick by tick.                   *)
(***************************************************************************)
EXTENDS Profile, Sums

CONSTANTS
  Shapes,        \* Shapes[c]: reasons the command of call c matches, a subset of
                 \* {"server", "background", "longrun"}
  MinDuration    \* --min-duration-s, in ticks

ASSUME DurationAssumption == MinDuration \in Int

\* No tool is called what a timeout without a tool under way is put down to.
ASSUME CausesAssumption == \A c \in Call : Tool[c] # "awaiting_llm"

\* The lines of a session's log that are of kind ev, and those of them of step k.
Lines(s, ev) == {i \in DOMAIN log[s] : log[s][i].ev = ev}
Events(s, ev, k) == {i \in Lines(s, ev) : log[s][i].step = k}

\* A field that later lines overwrite.
LastOf(s, lines, F(_)) == IF lines = {} THEN None ELSE F(log[s][Max(lines)])
Ts(e) == e.ts

\* The calls that ended in a step; every call has a line of its own.
ToolLines(s, k) == {log[s][i] : i \in Events(s, "tool.end", k)}
Summed(calls) == SumOver(calls, [e \in calls |-> e.duration])

-------------------------------------------------------------------------------
(* analyze_profiles.py *)

\* load_sessions: one turn per session and step, whatever query it was in; its fields
\* are those of the last line that has them, its tools all that ever ended in it.
TurnSteps(s) ==
  {log[s][i].step : i \in {j \in 1..Len(log[s]) :
     log[s][j].ev \in {"turn.start", "turn.end", "llm.end", "tool.end"}}}

Turn(s, k) ==
  LET ends == Events(s, "turn.end", k)
      llms == Events(s, "llm.end", k)
  IN  [start     |-> LastOf(s, Events(s, "turn.start", k), Ts),
       end       |-> LastOf(s, ends, Ts),
       duration  |-> LastOf(s, ends, LAMBDA e : e.duration),
       llm       |-> LastOf(s, ends, LAMBDA e : e.llm),
       tool      |-> LastOf(s, ends, LAMBDA e : e.tool),
       post      |-> LastOf(s, ends, LAMBDA e : e.post),
       llmEnd    |-> LastOf(s, llms, Ts),
       stream    |-> LastOf(s, llms, LAMBDA e : e.duration),
       explained |-> LastOf(s, llms, LAMBDA e : e.postStream),
       tools     |-> ToolLines(s, k)]

EndToEnd(s) == LastOf(s, Lines(s, "query.end"), LAMBDA e : e.duration)

HasTask(turn) == \E e \in turn.tools : e.name = "task"
HasExcluded(turn, excluded) == \E e \in turn.tools : e.call \in excluded

\* _collect_turn_decomposition: the rows, by session and step.
Decomposed(excluded) ==
  {r \in Session \X Steps :
     /\ r[2] \in TurnSteps(r[1])
     /\ LET t == Turn(r[1], r[2]) IN
        t.duration # None /\ ~HasTask(t) /\ ~HasExcluded(t, excluded)}

\* Fault: the time under tools is left in.
LlmTrueWithTools(turn) ==
  IF turn.start = None \/ turn.llmEnd = None THEN None ELSE turn.llmEnd - turn.start

LlmTrue(turn) ==
  IF turn.start = None \/ turn.llmEnd = None THEN None
  ELSE Larger(0, turn.llmEnd - turn.start - turn.tool)
OthersTrue(turn) ==
  IF LlmTrue(turn) = None THEN None ELSE Larger(0, turn.duration - LlmTrue(turn) - turn.tool)

\* analyze_latency_composition: the anchored components, or else the stream's.
Llm(turn) == Known(LlmTrue(turn), turn.llm)
Others(turn) == Known(OthersTrue(turn), turn.post)

\* analyze_post_overhead: its rows are the turns longer than floor, and what of their
\* residual the time between the stream's end and finish-step does not explain.
PostRows(floor, excluded) ==
  {r \in Session \X Steps :
     /\ r[2] \in TurnSteps(r[1])
     /\ LET t == Turn(r[1], r[2]) IN
        /\ ~HasTask(t) /\ ~HasExcluded(t, excluded)
        /\ t.duration > floor /\ t.post # None}
Unexplained(turn) ==
  IF turn.explained = None THEN turn.post ELSE Larger(0, turn.post - turn.explained)

\* per_tool_duration_stats: {tool: (sum of its calls, number of its calls)}.
OkCalls(name, excluded) ==
  {r \in Session \X (1..MaxEvents) :
     /\ r[2] <= Len(log[r[1]])
     /\ LET e == log[r[1]][r[2]] IN
        e.ev = "tool.end" /\ e.ok /\ e.name = name /\ e.call \notin excluded}
DurationStats(name, excluded) ==
  LET calls == OkCalls(name, excluded)
  IN  [sum |-> SumOver(calls, [r \in calls |-> log[r[1]][r[2]].duration]),
       n   |-> Cardinality(calls)]

\* turn_ratio_rows and per_tool_ratio_rows: the turns they relate to the model's time.
RatioTurns(excluded) ==
  {r \in Session \X Steps :
     /\ r[2] \in TurnSteps(r[1])
     /\ LET t == Turn(r[1], r[2]) IN t.llm > 0 /\ ~HasExcluded(t, excluded)}
ToolRatioTurns ==
  {r \in Session \X Steps :
     /\ r[2] \in TurnSteps(r[1])
     /\ LET t == Turn(r[1], r[2])
            llm == IF t.stream \notin {None, 0} THEN t.stream ELSE t.llm
        IN  llm > 0}

\* analyze_tool_dominated_turns: the tool that took most of the turn's time.
TimeOf(turn, name) == Summed({e \in turn.tools : e.name = name})
Dominant(turn) ==
  CHOOSE name \in {e.name : e \in turn.tools} :
    \A e \in turn.tools : TimeOf(turn, name) >= TimeOf(turn, e.name)

-------------------------------------------------------------------------------
(* analyze_tool_time.py, analyze_subagent_time.py *)

\* load_turns and interval: what is known of the calls of a turn, as intervals.  A call
\* that only started or whose end is not logged yet has none.
Counted(s, k, names, excluded) ==
  {e \in ToolLines(s, k) : e.name \in names /\ e.call \notin excluded}
Intervals(s, k, names, excluded) ==
  {<<e.ts - e.duration, e.ts>> : e \in Counted(s, k, names, excluded)}

\* Fault: an interval inside an earlier one ends the stretch.
Merge(stretch, iv) ==
  IF iv[1] > stretch.to
  THEN [stretch EXCEPT !.sum = @ + stretch.to - stretch.from, !.from = iv[1], !.to = iv[2]]
  ELSE [stretch EXCEPT !.to = iv[2]]

\* union_length: one pass over the intervals in the order of sorted().
Extend(stretch, iv) ==
  IF iv[1] > stretch.to
  THEN [stretch EXCEPT !.sum = @ + stretch.to - stretch.from, !.from = iv[1], !.to = iv[2]]
  ELSE [stretch EXCEPT !.to = Larger(@, iv[2])]

Before(a, b) == a[1] < b[1] \/ (a[1] = b[1] /\ a[2] <= b[2])
LastIn(intervals) == CHOOSE a \in intervals : \A b \in intervals : Before(b, a)

UnionLength(intervals) ==
  IF intervals = {} THEN 0
  ELSE LET first == CHOOSE a \in intervals : \A b \in intervals : Before(a, b)
           start == [sum |-> 0, from |-> first[1], to |-> first[2]]
           end == MapThenFoldSet(LAMBDA iv, st : Extend(st, iv), start, LAMBDA iv : iv,
                                 LastIn, intervals \ {first})
       IN  end.sum + end.to - end.from

\* The sub-agents of a turn, as analyze_subagent_time.py reads them.
TaskIntervals(s, k) == Intervals(s, k, {"task"}, {})

ToolNames == {Tool[c] : c \in Call}
ToolWall(s, k, excluded) == UnionLength(Intervals(s, k, ToolNames \ {"task"}, excluded))
TaskWall(s, k) == UnionLength(TaskIntervals(s, k))

-------------------------------------------------------------------------------
(* analyze_idle_time.py *)

\* When a turn began and ended, as far as the log says.
StartOf(s, k) == LastOf(s, Events(s, "turn.start", k), Ts)
EndOf(s, k) == LastOf(s, Events(s, "turn.end", k), Ts)

\* Fault: the gap is taken from the start of the earlier turn.
GapFromStart(s, k) == StartOf(s, k + 1) - StartOf(s, k)

\* session_gaps between the turns of steps k and k + 1, steps being consecutive.
Gap(s, k) == StartOf(s, k + 1) - EndOf(s, k)

\* session_idle.
Idle(s) ==
  LET steps == {k \in Steps : Events(s, "turn.start", k) # {}}
      whole == {k \in steps : EndOf(s, k) # None}
      gaps == {k \in whole : k + 1 \in steps}
      asked == LastOf(s, Lines(s, "query.start"), Ts)
      answered == LastOf(s, Lines(s, "query.end"), Ts)
  IN  [turns     |-> Cardinality(steps),
       busy      |-> SumOver(whole, [k \in whole |-> EndOf(s, k) - StartOf(s, k)]),
       bootstrap |-> IF steps = {} THEN None ELSE StartOf(s, Min(steps)) - asked,
       inter     |-> SumOver(gaps, [k \in gaps |-> Gap(s, k)]),
       teardown  |-> IF steps = {} \/ answered = None \/ EndOf(s, Max(steps)) = None
                     THEN None ELSE answered - EndOf(s, Max(steps))]
TotalIdle(i) == i.inter + Known(i.bootstrap, 0) + Known(i.teardown, 0)

-------------------------------------------------------------------------------
(* trim_idle_tail.py *)

Started == {s \in Session : Lines(s, "query.start") # {}}
Ended == {s \in Session : Lines(s, "query.end") # {}}
Stamps(s, lines) == {log[s][i].ts : i \in lines}

\* Fault: a session that did not end does not count.
UnendedIgnored(s) == {}

\* A session without query.end is seen until its last line.
Unended(s) == IF s \in Started \ Ended THEN {Last(log[s]).ts} ELSE {}

\* detect_window; trim_file keeps the samples of that time.
Window ==
  LET starts == UNION {Stamps(s, Lines(s, "query.start")) : s \in Session}
      ends == UNION {Stamps(s, Lines(s, "query.end")) \cup Unended(s) : s \in Session}
  IN  Min(starts) .. (IF ends = {} THEN Max(starts) ELSE Max(ends))

-------------------------------------------------------------------------------
(* analyze_session_resources.py *)

\* load_session_windows: the samples of that time are taken for the session's.
SessionWindow(s) ==
  [from |-> LastOf(s, Lines(s, "query.start"), Ts),
   to   |-> Known(LastOf(s, Lines(s, "query.end"), Ts), Last(log[s]).ts)]

-------------------------------------------------------------------------------
(* filter_hanging_tools.py, analyze_timeouts.py *)

TraceParts == IF trace.status \in {"none", "failed"} THEN <<>> ELSE trace.parts
Bash(part) == Tool[part.call] = "bash"
PartDuration(part) == IF part.end = None THEN None ELSE part.end - part.start
LongByTime(part) == PartDuration(part) # None /\ PartDuration(part) >= MinDuration

\* flag_calls: the calls with a reason, and those of them that hang.
Flagged ==
  {part \in ToSet(TraceParts) : Bash(part) /\ (Shapes[part.call] # {} \/ LongByTime(part))}

\* Fault: only calls that did not complete hang.
HangsByStatus(part) == part.status # "completed"
Hangs(part) == part.status # "completed" \/ LongByTime(part)

\* exclude_calls.txt
ExcludedCalls == {part.call : part \in {p \in Flagged : Hangs(p)}}

\* Fault: a call that failed counts as open.
OpenUnlessCompleted == {i \in DOMAIN TraceParts : TraceParts[i].status # "completed"}

\* _attr_one and _classify_timeout: the last part that is still open, if there is one.
OpenParts == {i \in DOMAIN TraceParts : TraceParts[i].status = "running"}
Cause ==
  IF trace.status # "timeout" THEN "none"
  ELSE IF OpenParts # {} THEN Tool[TraceParts[Max(OpenParts)].call]
  ELSE "awaiting_llm"

-------------------------------------------------------------------------------
(* Properties *)

Once(s) == Cardinality(Lines(s, "query.start")) = 1

\* A response was streamed under a step whose turn had ended.
Compacted(s) ==
  \E k \in Steps : \E i \in Events(s, "turn.end", k), j \in Events(s, "llm.start", k) : i < j

\* The calls of a turn took turns.
Apart(turn) ==
  \A a, b \in turn.tools :
    a # b => a.ts <= b.ts - b.duration \/ b.ts <= a.ts - a.duration

\* The components of a turn make up its duration when its tools took turns, and are
\* never less than it: in the profiler's split and in the anchored one.  The tools' own
\* lines agree with the turn's, and llm.end with turn.end.  It takes a session that
\* was asked once, and that did not compact, which streams another response under the
\* step of the turn before.  The decomposition of the residual is over the same turns.
SharesAddUp ==
  LET rows == Decomposed({})
      bare == RatioTurns({})
      streamed == ToolRatioTurns
  IN
  /\ PostRows(None, {}) = rows
  /\ \A r \in rows :
       LET t == Turn(r[1], r[2]) IN
       Once(r[1]) /\ ~Compacted(r[1]) =>
         /\ t.llm + t.tool + t.post >= t.duration
         /\ Llm(t) + t.tool + Others(t) >= t.duration
         /\ Unexplained(t) <= t.post
         /\ Summed(t.tools) = t.tool
         /\ t.tools # {} => TimeOf(t, Dominant(t)) <= t.tool
         /\ r \in bare <=> r \in streamed
         /\ Apart(t) => /\ t.llm + t.tool + t.post = t.duration
                        /\ Llm(t) + t.tool + Others(t) = t.duration

\* The anchored model time is the time the turn spent before finish-step without a
\* tool, however late the response's first event arrived; parallel tools make it less.
AnchoredIsTrue ==
  \A r \in Decomposed({}) :
    LET t == Turn(r[1], r[2]) IN
    Once(r[1]) /\ ~Compacted(r[1]) /\ LlmTrue(t) # None =>
      /\ LlmTrue(t) <= spent[r[1]][r[2]].model
      /\ Apart(t) => LlmTrue(t) = spent[r[1]][r[2]].model
      /\ LastOf(r[1], Events(r[1], "turn.end", r[2]), LAMBDA e : e.llmTrue) = LlmTrue(t)

\* The union of a turn's calls is the time at least one of them ran, for the ordinary
\* tools and for sub-agents, and no more than the turn took.
WallIsBlockedTime ==
  \A s \in Session : Once(s) => \A k \in TurnSteps(s) :
    LET took == Turn(s, k).duration
        wall == ToolWall(s, k, {})
    IN
    took # None =>
      /\ wall = spent[s][k].tools
      /\ TaskWall(s, k) = spent[s][k].task
      /\ wall <= Summed(Counted(s, k, ToolNames \ {"task"}, {}))
      /\ wall <= took

\* What a query took is the time of its turns and the idle time around them; a child's
\* query is part of its parent's turn, and the resources that it took of the parent's,
\* unless another session runs the same child.
\* A query that did not end is credited with all the turns that did.
IdleAddsUp ==
  \A s \in Started : Once(s) =>
    LET mine == SessionWindow(s)
        split == Idle(s)
    IN
    /\ split.busy + TotalIdle(split) <= mine.to - mine.from
    /\ s \in Ended =>
         /\ EndToEnd(s) = split.busy + TotalIdle(split)
         /\ TotalIdle(split) = idle[s]
         /\ \A c \in Tasked :
              Of[c] = s /\ Child[c] \in Started
                /\ (\A d \in Tasked : Child[d] = Child[c] => Of[d] = s) =>
                LET its == SessionWindow(Child[c]) IN
                mine.from <= its.from /\ its.to <= mine.to

\* Trimming to the window drops no sample taken while a query ran, as far as its log
\* goes, except for a query asked of a session that had answered before.
WindowCoversWork ==
  \A s \in Started :
    Stamps(s, DOMAIN log[s]) \subseteq Window \/ (~Once(s) /\ s \in Ended)

\* With the flagged calls excluded, no turn of the recorded session has a call of bash
\* in it that took MinDuration, except one that was still short when the messages were
\* listed; every call of a suspicious command that did not complete is gone; and so is
\* the mean over the calls of bash shorter than MinDuration, where no sub-agent runs bash.
HangsExcluded ==
  trace.status = "success" =>
    LET excluded == ExcludedCalls
        stats == DurationStats("bash", excluded)
    IN
    /\ stats.n > 0 /\ (\A r \in OkCalls("bash", excluded) : r[1] = Main) =>
         stats.sum < MinDuration * stats.n
    /\ \A r \in Decomposed(excluded) :
         r[1] = Main =>
           \A e \in Turn(r[1], r[2]).tools :
             e.name = "bash" => e.duration < MinDuration /\ (e.ok \/ Shapes[e.call] = {})

\* A timeout is put down to the tool that was under way when the messages were listed,
\* and a call under way then hangs exactly if its command looks like it.
CauseIsUnderWay ==
  trace.status = "timeout" =>
    /\ Cause = "awaiting_llm" <=> \A i \in 1..Len(trace.parts) : trace.parts[i].end # None
    /\ \A i \in 1..Len(trace.parts) :
         trace.parts[i].end = None /\ Bash(trace.parts[i]) =>
           (trace.parts[i].call \in ExcludedCalls <=> Shapes[trace.parts[i].call] # {})
===============================================================================
