----------------------------- MODULE ProfileProofs -----------------------------
(***************************************************************************)
(* What the profiler's logs say of sessions, for any number of sessions,   *)
(* calls, steps, upsets and ticks.                                         *)
(*                                                                         *)
(* LoopInv: the hooks' state agrees with where the agent loop is, the      *)
(* messages with the calls under way, and what is added up for a turn's    *)
(* tools is bounded by the calls that ended.  RecordedInv: the messages    *)
(* that the testbed recorded name each call once.  SequencedInv: a log is  *)
(* in the order of its times, from one query to the next.  TurnedInv: in a *)
(* session that was asked once and did not compact, the lines of a turn    *)
(* say when it began, streamed and had which calls; the time from its      *)
(* beginning to llm.end is the ticks of the model, plus those at which at  *)
(* least one call ran (Busy).  The hooks add up the calls one by one       *)
(* (Pairs), which is as much only if they took turns.                      *)
(***************************************************************************)
EXTENDS ProfileAnalysis, SumTheorems, SequenceTheorems

Mark == Duration \cup {None}
Span == (-MaxTime .. MaxTime) \cup {None}
MaxWall == MaxTime * Cardinality(Call)

\* The state of a session that the hooks keep.
HookState ==
  [fd : {TRUE}, start : Duration, step : Steps, llmStart : [Steps -> Mark],
   llmDuration : [Steps -> Span], llmEnd : [Steps -> Mark], firstTool : [Steps -> Mark],
   lastText : [Steps -> Mark], streamFinish : [Steps -> Mark], turnStart : [Steps -> Mark],
   toolWall : [Steps -> Nat \cup {None}], toolStart : [Call -> [ms : Mark, step : Steps]]]

\* The lines of a log.
QueryStartLines == [ev : {"query.start"}, ts : Duration]
QueryEndLines == [ev : {"query.end"}, ts : Duration, steps : Steps, duration : Duration]
MarkLines ==
  [ev : {"turn.start", "llm.start", "llm.stream-finish"}, ts : Duration, step : Steps]
TurnEndLines ==
  [ev : {"turn.end"}, ts : Duration, step : Steps, duration : Duration, llm : Int,
   tool : 0..MaxWall, post : 0..(2 * MaxTime), llmTrue : Int, othersTrue : Int]
LlmEndLines ==
  [ev : {"llm.end"}, ts : Duration, step : Steps, duration : Int, stepDuration : Int,
   postStream : Int]
ToolStartLines ==
  [ev : {"tool.start"}, ts : Duration, step : Steps, call : Call, name : {Tool[c] : c \in Call}]
ToolEndLines ==
  [ev : {"tool.end"}, ts : Duration, step : Steps, call : Call, name : {Tool[c] : c \in Call},
   ok : BOOLEAN, duration : Duration]
Line ==
  QueryStartLines \cup QueryEndLines \cup MarkLines \cup TurnEndLines \cup LlmEndLines
    \cup ToolStartLines \cup ToolEndLines

Part ==
  [call : Call, status : {"running", "completed", "error"}, start : Duration, end : Mark]
Trace ==
  {NoTrace} \cup [status : {"success", "failed", "timeout"}, steps : Steps, parts : Seq(Part)]
Tally == [model : Nat, tools : Nat, task : Nat]

LoopTyped ==
  /\ now \in Duration /\ upsets \in 0..MaxUpsets
  /\ phase \in [Session -> {"idle", "loop", "turn", "stream", "settle", "compact"}]
  /\ step \in [Session -> Steps]
  /\ running \in [Session -> SUBSET Call]
  /\ state \in [Session -> HookState \cup {NoState}]
DataTyped ==
  /\ log \in [Session -> Seq(Line)]
  /\ parts \in [Session -> Seq(Part)]
  /\ trace \in Trace
  /\ spent \in [Session -> [Steps -> Tally]]
  /\ idle \in [Session -> Nat]

\* Where the loop is, the hooks' state agrees with it.
Attuned(s) ==
  /\ phase[s] # "idle" => Open(s)
  /\ phase[s] # "idle" /\ step[s] > 0 => state[s].step = step[s]
  /\ phase[s] \in {"turn", "stream", "settle", "compact"} => step[s] > 0
  /\ InTurn(s) => state[s].turnStart[step[s]] \in 0..now
  /\ InTurn(s) => state[s].toolWall[step[s]] \in Nat
  /\ running[s] # {} => phase[s] = "stream"
  /\ Open(s) => state[s].start \in 0..now

\* The parts of a session's messages are its calls, each once, and those without an end
\* are the ones under way, whose start the hooks keep.
Dated(s, p) ==
  /\ p.start <= now
  /\ p.end = None <=> p.call \in running[s]
  /\ p.end = None <=> p.status = "running"
  /\ p.end # None => p.start <= p.end /\ p.end <= now
Kept(s, c) ==
  /\ \E i \in DOMAIN parts[s] : parts[s][i].call = c /\ parts[s][i].start = state[s].toolStart[c].ms
  /\ state[s].toolStart[c].ms \in 0..now
  /\ state[s].toolStart[c].step = step[s]
CallOnce(ps) == \A i, j \in DOMAIN ps : ps[i].call = ps[j].call => i = j
Accounted(s) ==
  /\ CallOnce(parts[s])
  /\ \A i \in DOMAIN parts[s] : Dated(s, parts[s][i])
  /\ \A c \in running[s] : Kept(s, c)

\* What the hooks add up for a step is bounded by the calls that ended.
Finished(s) ==
  {c \in Call : \E i \in DOMAIN parts[s] : parts[s][i].call = c /\ parts[s][i].end # None}
Bounded(s) ==
  Open(s) => \A k \in Steps : state[s].toolWall[k] <= MaxTime * Cardinality(Finished(s))

LoopInv ==
  /\ LoopTyped /\ DataTyped
  /\ \A s \in Session : Attuned(s) /\ Accounted(s) /\ Bounded(s)

-------------------------------------------------------------------------------
(* Numbers, and what the hooks leave and write *)

LEMMA Numbers ==
  /\ Duration \subseteq Nat /\ Steps \subseteq Nat /\ MaxTime \in Nat /\ MaxSteps \in Nat
  /\ None \notin Duration /\ None \in Int /\ 0 \in Duration /\ 0 \in Steps
  /\ IsFiniteSet(Call) /\ Cardinality(Call) \in Nat /\ MaxUpsets \in Nat
  BY ProfileAssumption, FS_CardinalityType DEF Duration, Steps, None

LEMMA Marks ==
  /\ \A m \in Mark : m \in Int /\ (m # None => m \in Duration /\ m \in Nat)
  /\ \A d \in Duration : d \in Mark /\ d \in Nat /\ d \in Int
  <1>1. Mark = Duration \cup {None}
    BY DEF Mark
  <1>2. \A m \in Duration : m \in Nat /\ m \in Int
    BY Numbers
  <1>3. QED
    BY <1>1, <1>2, Numbers

LEMMA Multiples ==
  ASSUME NEW a \in Nat, NEW b \in Nat, a <= b
  PROVE  /\ MaxTime * a \in Nat
         /\ MaxTime * a <= MaxTime * b
         /\ MaxTime * (a + 1) = MaxTime * a + MaxTime
  <1>1. MaxTime \in Nat
    BY Numbers
  <1>2. \A m, n, l \in Nat : m * n \in Nat /\ m * (n + l) = m * n + m * l /\ m * 1 = m
    BY SMT
  <1>3. PICK d \in Nat : b = a + d
    BY SMT
  <1>4. MaxTime * b = MaxTime * a + MaxTime * d /\ MaxTime * d \in Nat
    BY <1>1, <1>2, <1>3
  <1>5. MaxTime * (a + 1) = MaxTime * a + MaxTime * 1 /\ MaxTime * 1 = MaxTime
    BY <1>1, <1>2
  <1>6. MaxTime * a \in Nat
    BY <1>1, <1>2
  <1>7. QED
    BY <1>1, <1>4, <1>5, <1>6

LEMMA FreshTyped == now \in Duration => Fresh \in HookState
  BY Numbers DEF Fresh, HookState, Blank, Mark, Span

LEMMA StateTyped ==
  ASSUME LoopTyped, NEW s \in Session
  PROVE  State(s) \in HookState /\ (Open(s) => state[s] \in HookState /\ State(s) = state[s])
  BY FreshTyped DEF LoopTyped, State, Open

LEMMA OpenTyped == \A h \in HookState : h # NoState
  <1>1. NoState.fd = FALSE /\ \A h \in HookState : h.fd = TRUE
    BY DEF HookState, NoState
  <1>2. QED
    BY <1>1

\* The fields of the state of a session.
LEMMA Fields ==
  ASSUME NEW h \in HookState, NEW k \in Steps
  PROVE  /\ h.start \in Duration /\ h.step \in Steps
         /\ h.llmStart[k] \in Mark /\ h.llmDuration[k] \in Span /\ h.llmEnd[k] \in Mark
         /\ h.firstTool[k] \in Mark /\ h.lastText[k] \in Mark /\ h.streamFinish[k] \in Mark
         /\ h.turnStart[k] \in Mark /\ h.toolWall[k] \in Nat \cup {None}
         /\ \A c \in Call : h.toolStart[c].ms \in Mark /\ h.toolStart[c].step \in Steps
  BY DEF HookState

LEMMA QueryStartTyped ==
  ASSUME LoopTyped, NEW s \in Session
  PROVE  /\ QueryStart(s) \in HookState /\ QueryStart(s).start = now
         /\ QueryStart(s).toolWall = State(s).toolWall
         /\ QueryStart(s).toolStart = State(s).toolStart
         /\ QueryStartLine(s) \in Line
  <1>1. State(s) \in HookState /\ now \in Duration
    BY StateTyped DEF LoopTyped
  <1>2. QueryStartLine(s) \in QueryStartLines
    BY <1>1 DEF QueryStartLine, QueryStartLines
  <1>3. QED
    BY <1>1, <1>2 DEF QueryStart, HookState, Line

LEMMA TurnStartTyped ==
  ASSUME LoopTyped, NEW s \in Session, NEW k \in Steps
  PROVE  /\ TurnStart(s, k) \in HookState
         /\ TurnStart(s, k).start = State(s).start /\ TurnStart(s, k).step = k
         /\ TurnStart(s, k).turnStart[k] = now
         /\ TurnStart(s, k).toolWall = [State(s).toolWall EXCEPT ![k] = 0]
         /\ TurnStart(s, k).toolStart = State(s).toolStart
         /\ TurnStartLine(s, k) \in Line
  <1>1. State(s) \in HookState /\ now \in Duration
    BY StateTyped DEF LoopTyped
  <1>2. TurnStartLine(s, k) \in MarkLines
    BY <1>1 DEF TurnStartLine, MarkLines
  <1>3. QED
    BY <1>1, <1>2 DEF TurnStart, HookState, Mark, Line

LEMMA TurnEndTyped ==
  ASSUME LoopTyped, NEW s \in Session, Open(s), NEW k \in Steps
  PROVE  /\ TurnEnd(s, k) \in HookState
         /\ TurnEnd(s, k).start = state[s].start /\ TurnEnd(s, k).step = state[s].step
         /\ TurnEnd(s, k).toolWall = state[s].toolWall
         /\ TurnEnd(s, k).toolStart = state[s].toolStart
  <1>1. state[s] \in HookState
    BY StateTyped
  <1>2. QED
    BY <1>1 DEF TurnEnd, HookState, Mark

LEMMA TurnEndLineTyped ==
  ASSUME LoopTyped, NEW s \in Session, Open(s), NEW k \in Steps,
         state[s].turnStart[k] \in 0..now, state[s].toolWall[k] \in 0..MaxWall
  PROVE  TurnEndLine(s, k) \in Line
  <1> DEFINE st == state[s]
             turn == now - st.turnStart[k]
             llm == Known(st.llmDuration[k], 0)
             tool == Known(st.toolWall[k], 0)
             llmTrue == IF st.llmEnd[k] = None THEN None
                        ELSE Larger(0, st.llmEnd[k] - st.turnStart[k] - tool)
             othersTrue == IF llmTrue = None THEN None ELSE Larger(0, turn - llmTrue - tool)
  <1>1. now \in 0..MaxTime /\ st \in HookState
    BY StateTyped DEF LoopTyped, Duration
  <1>2. st.llmDuration[k] \in Span /\ st.llmEnd[k] \in Mark
    BY <1>1, Fields
  <1>3. turn \in 0..MaxTime /\ turn \in Duration
    BY <1>1, Numbers DEF Duration
  <1>4. llm \in -MaxTime..MaxTime
    BY <1>2, Numbers DEF Known, Span
  <1>5. tool \in 0..MaxWall
    BY Numbers, Multiples DEF Known, MaxWall, None
  <1>6. tool \in Nat
    BY <1>5
  <1>7. llmTrue \in Int
    <2>1. CASE st.llmEnd[k] = None
      BY <2>1, Numbers
    <2>2. CASE st.llmEnd[k] # None
      <3>1. st.llmEnd[k] \in Nat /\ st.turnStart[k] \in Nat
        <4>1. st.llmEnd[k] \in Nat
          BY <1>2, <2>2, Marks
        <4>2. st.turnStart[k] \in Nat
          BY <1>1, Numbers
        <4>3. QED
          BY <4>1, <4>2
      <3>2. st.llmEnd[k] - st.turnStart[k] - tool \in Int
        BY <1>6, <3>1
      <3> HIDE DEF tool
      <3>3. QED
        BY <2>2, <3>2 DEF Larger
    <2>3. QED
      BY <2>1, <2>2
  <1>8. othersTrue \in Int
    BY <1>3, <1>6, <1>7, Numbers DEF Larger
  <1>9. Post(turn, llm, tool) \in 0..(2 * MaxTime)
    BY <1>3, <1>4, <1>6, Numbers DEF Post, Larger
  <1>10. TurnEndLine(s, k) =
           [ev |-> "turn.end", ts |-> now, step |-> k, duration |-> turn, llm |-> llm,
            tool |-> tool, post |-> Post(turn, llm, tool), llmTrue |-> llmTrue,
            othersTrue |-> othersTrue]
    BY DEF TurnEndLine
  <1> HIDE DEF turn, llm, tool, llmTrue, othersTrue
  <1>11. now \in Duration /\ llm \in Int
    BY <1>1, <1>4, Numbers DEF Duration
  <1>12. TurnEndLine(s, k) \in TurnEndLines
    BY <1>3, <1>5, <1>7, <1>8, <1>9, <1>10, <1>11 DEF TurnEndLines
  <1>13. QED
    BY <1>12 DEF Line

LEMMA LlmStartTyped ==
  ASSUME LoopTyped, NEW s \in Session, Open(s), NEW h,
         h \in {LlmStart(s), StreamingEnd(s), StreamFinish(s)}
  PROVE  /\ h \in HookState
         /\ h.start = state[s].start /\ h.step = state[s].step
         /\ h.turnStart = state[s].turnStart /\ h.toolWall = state[s].toolWall
         /\ h.toolStart = state[s].toolStart
  <1>1. state[s] \in HookState /\ now \in Mark
    BY StateTyped DEF LoopTyped, Mark
  <1>2. CASE h = LlmStart(s)
    BY <1>1, <1>2 DEF LlmStart, HookState
  <1>3. CASE h = StreamingEnd(s)
    BY <1>1, <1>3 DEF StreamingEnd, HookState
  <1>4. CASE h = StreamFinish(s)
    BY <1>1, <1>4 DEF StreamFinish, HookState
  <1>5. QED
    BY <1>2, <1>3, <1>4

LEMMA MarkLineTyped ==
  ASSUME LoopTyped, NEW k \in Steps, NEW ev \in {"turn.start", "llm.start", "llm.stream-finish"}
  PROVE  [ev |-> ev, ts |-> now, step |-> k] \in Line
  BY DEF LoopTyped, MarkLines, Line

LEMMA LlmEndTyped ==
  ASSUME LoopTyped, NEW s \in Session, Open(s)
  PROVE  /\ LlmEnd(s) \in HookState
         /\ LlmEnd(s).start = state[s].start /\ LlmEnd(s).step = state[s].step
         /\ LlmEnd(s).turnStart = state[s].turnStart /\ LlmEnd(s).toolWall = state[s].toolWall
         /\ LlmEnd(s).toolStart = state[s].toolStart
         /\ LlmEnd(s).llmEnd[state[s].step] = now
         /\ LlmEndLine(s) \in Line
  <1> DEFINE st == state[s]
             k == st.step
             to == Known(st.streamFinish[k], Known(st.firstTool[k], Known(st.lastText[k], now)))
  <1>1. st \in HookState /\ now \in Duration /\ k \in Steps
    BY StateTyped, Fields DEF LoopTyped
  <1>2. /\ st.llmStart[k] \in Mark /\ st.streamFinish[k] \in Mark
        /\ st.firstTool[k] \in Mark /\ st.lastText[k] \in Mark
    BY <1>1, Fields
  <1>3. to \in Duration
    BY <1>1, <1>2 DEF Known, Mark
  <1>4. LlmDuration(s) = IF st.llmStart[k] = None THEN 0 ELSE to - st.llmStart[k]
    BY DEF LlmDuration
  <1>5. LlmDuration(s) \in -MaxTime .. MaxTime
    <2>1. CASE st.llmStart[k] = None
      BY <1>4, <2>1, Numbers
    <2>2. CASE st.llmStart[k] # None
      <3>1. st.llmStart[k] \in 0..MaxTime /\ to \in 0..MaxTime
        BY <1>2, <1>3, <2>2 DEF Mark, Duration
      <3> HIDE DEF to
      <3>2. QED
        BY <1>4, <2>2, <3>1, Numbers
    <2>3. QED
      BY <2>1, <2>2
  <1>6. LlmDuration(s) \in Span /\ LlmDuration(s) \in Int
    BY <1>5 DEF Span
  <1>7. LlmEndLine(s) \in LlmEndLines
    <2>1. (IF st.llmStart[k] = None THEN 0 ELSE now - st.llmStart[k]) \in Int
      BY <1>1, <1>2, Numbers DEF Mark
    <2>2. (IF st.streamFinish[k] = None \/ st.llmStart[k] = None THEN None
           ELSE Larger(0, now - st.streamFinish[k])) \in Int
      <3>1. st.streamFinish[k] \in Int /\ now \in Int
        BY <1>1, <1>2, Marks
      <3>2. now - st.streamFinish[k] \in Int
        BY <3>1
      <3>3. QED
        BY <3>2, Numbers DEF Larger
    <2>3. QED
      BY <1>1, <1>6, <2>1, <2>2 DEF LlmEndLine, LlmEndLines
  <1>8. LlmEnd(s) \in HookState
    <2> HIDE DEF to
    <2>1. QED
      BY <1>1, <1>6 DEF LlmEnd, HookState, Mark
  <1>9. QED
    BY <1>1, <1>7, <1>8 DEF LlmEnd, Line, HookState

LEMMA ToolStartTyped ==
  ASSUME LoopTyped, NEW s \in Session, Open(s), NEW c \in Call
  PROVE  /\ ToolStart(s, c) \in HookState
         /\ ToolStart(s, c).start = state[s].start /\ ToolStart(s, c).step = state[s].step
         /\ ToolStart(s, c).turnStart = state[s].turnStart
         /\ ToolStart(s, c).toolWall = state[s].toolWall
         /\ ToolStart(s, c).toolStart =
              [state[s].toolStart EXCEPT ![c] = [ms |-> now, step |-> state[s].step]]
         /\ ToolStartLine(s, c) \in Line
  <1>1. state[s] \in HookState /\ now \in Duration /\ state[s].step \in Steps
    BY StateTyped, Fields DEF LoopTyped
  <1>2. ToolStartLine(s, c) \in ToolStartLines
    BY <1>1 DEF ToolStartLine, ToolStartLines
  <1>3. ToolStart(s, c) \in HookState
    BY <1>1 DEF ToolStart, HookState, Mark, Known
  <1>4. QED
    BY <1>1, <1>2, <1>3 DEF ToolStart, Line, HookState

LEMMA ToolEndTyped ==
  ASSUME LoopTyped, NEW s \in Session, Open(s), NEW c \in Call, NEW ok \in BOOLEAN,
         NEW k \in Steps, state[s].toolStart[c].step = k, state[s].toolStart[c].ms \in 0..now,
         state[s].toolWall[k] \in Nat
  PROVE  /\ ToolEnd(s, c) \in HookState
         /\ ToolEnd(s, c).start = state[s].start /\ ToolEnd(s, c).step = state[s].step
         /\ ToolEnd(s, c).turnStart = state[s].turnStart
         /\ ToolEnd(s, c).toolWall =
              [state[s].toolWall EXCEPT ![k] = @ + (now - state[s].toolStart[c].ms)]
         /\ \A d \in Call \ {c} : ToolEnd(s, c).toolStart[d] = state[s].toolStart[d]
         /\ now - state[s].toolStart[c].ms \in Duration
         /\ ToolEndLine(s, c, ok) \in Line
  <1> DEFINE ms == state[s].toolStart[c].ms
  <1>1. state[s] \in HookState /\ now \in 0..MaxTime
    BY StateTyped DEF LoopTyped, Duration
  <1>2. now - ms \in Duration /\ now - ms \in Nat /\ ms \in Nat /\ now \in Nat /\ now \in Duration
    BY <1>1, Numbers DEF Duration
  <1>3. ToolEndLine(s, c, ok) \in ToolEndLines
    BY <1>2 DEF ToolEndLine, ToolEndLines
  <1>4. state[s].toolWall[k] # None
    BY DEF None
  <1>5. state[s].toolWall[k] + now - ms = state[s].toolWall[k] + (now - ms)
    BY <1>2
  <1> DEFINE ts == state[s].toolStart
             tw == state[s].toolWall
  <1>6. ToolEnd(s, c) = [state[s] EXCEPT !.toolStart = [ts EXCEPT ![c].ms = None],
                                         !.toolWall = [tw EXCEPT ![k] = @ + (now - ms)]]
    <2>1. Known(tw[k], 0) = tw[k]
      BY <1>4 DEF Known
    <2>2. ToolEnd(s, c) =
            [state[s] EXCEPT !.toolStart = [ts EXCEPT ![c].ms = None],
                             !.toolWall = [tw EXCEPT ![k] = Known(tw[k], 0) + now - ms]]
      BY <1>1 DEF ToolEnd, HookState
    <2>3. QED
      BY <1>5, <2>1, <2>2
  <1>7. tw[k] + (now - ms) \in Nat
    BY <1>2
  <1>8. /\ [tw EXCEPT ![k] = @ + (now - ms)] \in [Steps -> Nat \cup {None}]
        /\ [ts EXCEPT ![c].ms = None] \in [Call -> [ms : Mark, step : Steps]]
        /\ \A d \in Call \ {c} : [ts EXCEPT ![c].ms = None][d] = ts[d]
    <2>1. tw \in [Steps -> Nat \cup {None}] /\ ts \in [Call -> [ms : Mark, step : Steps]]
      BY <1>1 DEF HookState
    <2> HIDE DEF tw, ts, ms
    <2>2. QED
      BY <1>7, <2>1 DEF Mark
  <1>9. ToolEnd(s, c) \in HookState
    BY <1>1, <1>6, <1>8 DEF HookState
  <1>10. /\ ToolEnd(s, c).start = state[s].start /\ ToolEnd(s, c).step = state[s].step
         /\ ToolEnd(s, c).turnStart = state[s].turnStart
         /\ ToolEnd(s, c).toolWall = [tw EXCEPT ![k] = @ + (now - ms)]
         /\ ToolEnd(s, c).toolStart = [ts EXCEPT ![c].ms = None]
    BY <1>1, <1>6 DEF HookState
  <1>11. ToolEndLine(s, c, ok) \in Line
    BY <1>3 DEF Line
  <1>12. QED
    BY <1>2, <1>8, <1>9, <1>10, <1>11

LEMMA QueryEndTyped ==
  ASSUME LoopTyped, NEW s \in Session, Open(s), state[s].start \in 0..now
  PROVE  QueryEndLine(s) \in Line
  <1>1. now \in 0..MaxTime /\ step[s] \in Steps
    BY DEF LoopTyped, Duration
  <1>2. now \in Duration /\ now - state[s].start \in Duration
    BY <1>1, Numbers DEF Duration
  <1>3. QueryEndLine(s) \in QueryEndLines
    BY <1>1, <1>2 DEF QueryEndLine, QueryEndLines
  <1>4. QED
    BY <1>3 DEF Line

-------------------------------------------------------------------------------
(* Every action keeps LoopInv *)

LEMMA HookKeeps ==
  ASSUME LoopTyped, DataTyped, NEW s \in Session, NEW st \in HookState \cup {NoState},
         NEW line \in Line, Hook(s, st, line)
  PROVE  /\ state' \in [Session -> HookState \cup {NoState}]
         /\ log' \in [Session -> Seq(Line)]
         /\ state'[s] = st /\ \A t \in Session \ {s} : state'[t] = state[t]
  <1>1. log[s] \in Seq(Line) /\ Append(log[s], line) \in Seq(Line)
    BY DEF DataTyped
  <1>2. QED
    BY <1>1 DEF Hook, LoopTyped, DataTyped

LEMMA Same ==
  ASSUME LoopInv, NEW t \in Session, now' = now, state'[t] = state[t], phase'[t] = phase[t],
         step'[t] = step[t], running'[t] = running[t], parts'[t] = parts[t]
  PROVE  Attuned(t)' /\ Accounted(t)' /\ Bounded(t)'
  <1>1. Attuned(t) /\ Accounted(t) /\ Bounded(t)
    BY DEF LoopInv
  <1>2. Attuned(t)'
    BY <1>1 DEF Attuned, InTurn, Open
  <1>3. Accounted(t)'
    BY <1>1 DEF Accounted, CallOnce, Dated, Kept
  <1>4. Bounded(t)'
    BY <1>1 DEF Bounded, Open, Finished
  <1>5. QED
    BY <1>2, <1>3, <1>4

\* A step that neither starts nor ends a call.
LEMMA Calm ==
  ASSUME LoopInv, NEW s \in Session, now' = now, running'[s] = running[s],
         parts'[s] = parts[s],
         running[s] # {} => step'[s] = step[s] /\ state'[s].toolStart = state[s].toolStart,
         Open(s)' => \A k \in Steps :
           \/ state'[s].toolWall[k] \in {0, None}
           \/ Open(s) /\ state'[s].toolWall[k] = state[s].toolWall[k]
  PROVE  Accounted(s)' /\ Bounded(s)'
  <1>1. Accounted(s) /\ Bounded(s)
    BY DEF LoopInv
  <1>2. Accounted(s)'
    BY <1>1 DEF Accounted, CallOnce, Dated, Kept
  <1>3. Finished(s)' = Finished(s)
    BY DEF Finished
  <1>4. MaxTime * Cardinality(Finished(s)) \in Nat
    <2>1. Cardinality(Finished(s)) \in Nat
      BY Numbers, FS_Subset, FS_CardinalityType DEF Finished
    <2>2. QED
      BY <2>1, Multiples
  <1>5. Bounded(s)'
    BY <1>1, <1>3, <1>4 DEF Bounded, None
  <1>6. QED
    BY <1>2, <1>5

LEMMA OneMoves ==
  ASSUME LoopInv, LoopTyped', DataTyped', NEW s \in Session, now' = now,
         \A t \in Session \ {s} :
           /\ state'[t] = state[t] /\ phase'[t] = phase[t] /\ step'[t] = step[t]
           /\ running'[t] = running[t] /\ parts'[t] = parts[t],
         Attuned(s)', Accounted(s)', Bounded(s)'
  PROVE  LoopInv'
  <1>1. ASSUME NEW t \in Session \ {s}
        PROVE  Attuned(t)' /\ Accounted(t)' /\ Bounded(t)'
    BY <1>1, Same
  <1>2. QED
    BY <1>1 DEF LoopInv

LEMMA QueryBeginsKeeps ==
  ASSUME LoopInv, NEW s \in Session, QueryBegins(s)
  PROVE  LoopInv'
  <1>1. LoopTyped /\ DataTyped /\ Attuned(s)
    BY DEF LoopInv
  <1>2. /\ QueryStart(s) \in HookState /\ QueryStart(s).start = now
        /\ QueryStart(s).toolWall = State(s).toolWall
        /\ QueryStartLine(s) \in Line /\ Hook(s, QueryStart(s), QueryStartLine(s))
    BY <1>1, QueryStartTyped DEF QueryBegins
  <1>3. /\ state' \in [Session -> HookState \cup {NoState}] /\ log' \in [Session -> Seq(Line)]
        /\ state'[s] = QueryStart(s) /\ \A t \in Session \ {s} : state'[t] = state[t]
    BY <1>1, <1>2, HookKeeps
  <1>4. LoopTyped' /\ DataTyped'
    BY <1>1, <1>3, Numbers DEF QueryBegins, Go, LoopTyped, DataTyped
  <1>5. now \in Nat /\ phase'[s] = "loop" /\ step'[s] = 0
    BY <1>1, Numbers DEF QueryBegins, Go, LoopTyped
  <1>6. running[s] = {} /\ running' = running
    BY <1>1 DEF QueryBegins, Attuned
  <1>7. Attuned(s)'
    BY <1>2, <1>3, <1>5, <1>6, OpenTyped DEF Attuned, InTurn, Open, QueryBegins
  <1>8. ASSUME NEW k \in Steps
        PROVE  State(s).toolWall[k] = None \/ (Open(s) /\ State(s) = state[s])
    <2>1. CASE Open(s)
      BY <2>1 DEF State
    <2>2. CASE ~Open(s)
      <3>1. State(s) = Fresh /\ Fresh.toolWall = Blank
        BY <2>2 DEF State, Fresh
      <3>2. State(s).toolWall = Blank
        BY <3>1
      <3>3. QED
        BY <3>2 DEF Blank
    <2>3. QED
      BY <2>1, <2>2
  <1>9. Accounted(s)' /\ Bounded(s)'
    BY <1>2, <1>3, <1>6, <1>8, Calm DEF QueryBegins
  <1>10. QED
    BY <1>1, <1>3, <1>4, <1>7, <1>9, OneMoves DEF QueryBegins, Go, LoopTyped

LEMMA TurnBeginsKeeps ==
  ASSUME LoopInv, NEW s \in Session, TurnBegins(s)
  PROVE  LoopInv'
  <1> DEFINE k == step[s] + 1
  <1>1. LoopTyped /\ DataTyped /\ Attuned(s)
    BY DEF LoopInv
  <1>2. k \in Steps /\ k > 0 /\ now \in Nat
    BY <1>1, Numbers DEF TurnBegins, LoopTyped, Steps
  <1> HIDE DEF k
  <1>3. /\ TurnStart(s, k) \in HookState /\ TurnStart(s, k).start = State(s).start
        /\ TurnStart(s, k).step = k /\ TurnStart(s, k).turnStart[k] = now
        /\ TurnStart(s, k).toolWall = [State(s).toolWall EXCEPT ![k] = 0]
        /\ TurnStartLine(s, k) \in Line /\ Hook(s, TurnStart(s, k), TurnStartLine(s, k))
    BY <1>1, <1>2, TurnStartTyped DEF TurnBegins, k
  <1>4. /\ state' \in [Session -> HookState \cup {NoState}] /\ log' \in [Session -> Seq(Line)]
        /\ state'[s] = TurnStart(s, k) /\ \A t \in Session \ {s} : state'[t] = state[t]
    BY <1>1, <1>3, HookKeeps
  <1>5. LoopTyped' /\ DataTyped'
    <2>1. step' = [step EXCEPT ![s] = k] /\ spent' = [spent EXCEPT ![s][k] = Nothing]
      BY DEF TurnBegins, k
    <2>2. Nothing \in Tally
      BY DEF Nothing, Tally
    <2>3. LoopTyped'
      BY <1>1, <1>2, <1>4, <2>1 DEF TurnBegins, Go, LoopTyped
    <2>4. spent' \in [Session -> [Steps -> Tally]]
      BY <1>1, <1>2, <2>1, <2>2 DEF DataTyped
    <2>5. DataTyped'
      BY <1>1, <1>4, <2>4 DEF TurnBegins, DataTyped
    <2>6. QED
      BY <2>3, <2>5
  <1>6. phase[s] = "loop" /\ phase'[s] = "turn" /\ step'[s] = k
    BY <1>1 DEF TurnBegins, Go, LoopTyped, k
  <1>7. running[s] = {} /\ running' = running /\ Open(s) /\ State(s) = state[s]
    BY <1>1, <1>6 DEF TurnBegins, Attuned, State
  <1>8. State(s).toolWall \in [Steps -> Nat \cup {None}]
    BY <1>1, StateTyped DEF HookState
  <1>9. Attuned(s)'
    <2>1. state'[s].toolWall[k] = 0 /\ now' = now
      BY <1>2, <1>3, <1>4, <1>8 DEF TurnBegins
    <2>2. Open(s)'
      BY <1>3, <1>4, OpenTyped DEF Open
    <2>3. state'[s].start \in 0..now
      BY <1>1, <1>3, <1>4, <1>7 DEF Attuned
    <2>4. QED
      BY <1>2, <1>3, <1>4, <1>6, <1>7, <2>1, <2>2, <2>3 DEF Attuned, InTurn
  <1>10. Accounted(s)' /\ Bounded(s)'
    <2>1. \A j \in Steps : \/ state'[s].toolWall[j] \in {0, None}
                           \/ Open(s) /\ state'[s].toolWall[j] = state[s].toolWall[j]
      BY <1>2, <1>3, <1>4, <1>7, <1>8
    <2>2. QED
      BY <1>7, <2>1, Calm DEF TurnBegins
  <1>11. QED
    BY <1>1, <1>4, <1>5, <1>9, <1>10, OneMoves DEF TurnBegins, Go, LoopTyped

\* A hook that marks a moment of the response: same start, step, and tools.
Marking(s, h) ==
  /\ h \in HookState /\ h.start = state[s].start /\ h.step = state[s].step
  /\ h.turnStart = state[s].turnStart /\ h.toolWall = state[s].toolWall
  /\ h.toolStart = state[s].toolStart

LEMMA MarkingKeeps ==
  ASSUME LoopInv, LoopTyped', DataTyped', NEW s \in Session, NEW h, Marking(s, h), Open(s),
         state' = [state EXCEPT ![s] = h], now' = now, step' = step, running' = running,
         parts' = parts, \A t \in Session \ {s} : phase'[t] = phase[t],
         phase'[s] # "idle" => phase[s] # "idle",
         phase'[s] \in {"turn", "stream", "settle", "compact"} => step[s] > 0,
         InTurn(s)' => InTurn(s), running[s] # {} => phase'[s] = "stream"
  PROVE  LoopInv'
  <1>1. LoopTyped /\ DataTyped /\ Attuned(s)
    BY DEF LoopInv
  <1>2. state'[s] = h /\ Open(s)'
    BY <1>1, OpenTyped DEF LoopTyped, Open, Marking
  <1>3. Attuned(s)'
    BY <1>1, <1>2 DEF Attuned, Marking, InTurn
  <1>4. Accounted(s)' /\ Bounded(s)'
    BY <1>2, Calm DEF Marking
  <1>5. QED
    BY <1>1, <1>3, <1>4, OneMoves DEF LoopTyped

LEMMA MarksKeep ==
  ASSUME LoopInv, NEW s \in Session,
         StepBegins(s) \/ TextEnds(s) \/ StreamFinishes(s) \/ CompactionBegins(s)
  PROVE  LoopInv'
  <1>1. LoopTyped /\ DataTyped /\ Attuned(s)
    BY DEF LoopInv
  <1>2. phase[s] \in {"turn", "stream", "settle", "loop"} /\ phase[s] # "idle" /\ Open(s)
    BY <1>1 DEF Attuned, StepBegins, TextEnds, StreamFinishes, CompactionBegins
  <1>3. state[s].step \in Steps /\ step[s] \in Steps
    BY <1>1, <1>2, StateTyped, Fields DEF LoopTyped
  <1>4. \A h \in {LlmStart(s), StreamingEnd(s), StreamFinish(s)} : Marking(s, h)
    BY <1>1, <1>2, LlmStartTyped DEF Marking
  <1>5. CASE StepBegins(s)
    <2>1. [ev |-> "llm.start", ts |-> now, step |-> state[s].step] \in Line
      BY <1>1, <1>3, MarkLineTyped
    <2>2. /\ state' \in [Session -> HookState \cup {NoState}]
          /\ log' \in [Session -> Seq(Line)]
      BY <1>1, <1>4, <1>5, <2>1, HookKeeps DEF StepBegins, Marking
    <2>3. LoopTyped' /\ DataTyped'
      BY <1>1, <1>5, <2>2 DEF StepBegins, Go, LoopTyped, DataTyped, ghostVars
    <2>4. phase[s] = "turn" /\ phase'[s] = "stream" /\ step[s] > 0
      BY <1>1, <1>5 DEF StepBegins, Go, LoopTyped, Attuned
    <2>5. QED
      BY <1>1, <1>2, <1>4, <1>5, <2>3, <2>4, MarkingKeeps
         DEF StepBegins, Go, LoopTyped, Hook, InTurn
  <1>6. CASE TextEnds(s)
    <2>1. LoopTyped' /\ DataTyped'
      BY <1>1, <1>4, <1>6 DEF TextEnds, LoopTyped, DataTyped, ghostVars, loopVars, Marking
    <2>2. QED
      BY <1>1, <1>2, <1>4, <1>6, <2>1, MarkingKeeps
         DEF TextEnds, LoopTyped, InTurn, loopVars, Attuned
  <1>7. CASE StreamFinishes(s)
    <2>1. [ev |-> "llm.stream-finish", ts |-> now, step |-> step[s]] \in Line
      BY <1>1, <1>3, MarkLineTyped
    <2>2. /\ state' \in [Session -> HookState \cup {NoState}]
          /\ log' \in [Session -> Seq(Line)]
      BY <1>1, <1>4, <1>7, <2>1, HookKeeps DEF StreamFinishes, Marking
    <2>3. LoopTyped' /\ DataTyped'
      BY <1>1, <1>7, <2>2 DEF StreamFinishes, LoopTyped, DataTyped, ghostVars, loopVars
    <2>4. QED
      BY <1>1, <1>2, <1>4, <1>7, <2>3, MarkingKeeps
         DEF StreamFinishes, LoopTyped, Hook, InTurn, loopVars, Attuned
  <1>8. CASE CompactionBegins(s)
    <2>1. [ev |-> "llm.start", ts |-> now, step |-> state[s].step] \in Line
      BY <1>1, <1>3, MarkLineTyped
    <2>2. /\ state' \in [Session -> HookState \cup {NoState}]
          /\ log' \in [Session -> Seq(Line)]
      BY <1>1, <1>4, <1>8, <2>1, HookKeeps DEF CompactionBegins, Marking
    <2>3. upsets' \in 0..MaxUpsets
      BY <1>1, <1>8, Numbers DEF CompactionBegins, LoopTyped
    <2>4. LoopTyped' /\ DataTyped'
      BY <1>1, <1>8, <2>2, <2>3 DEF CompactionBegins, Go, LoopTyped, DataTyped, ghostVars
    <2>5. phase[s] = "loop" /\ phase'[s] = "compact" /\ step[s] > 0
      BY <1>1, <1>8 DEF CompactionBegins, Go, LoopTyped
    <2>6. running[s] = {}
      BY <1>1, <2>5 DEF Attuned
    <2>7. QED
      BY <1>1, <1>2, <1>4, <1>8, <2>4, <2>5, <2>6, MarkingKeeps
         DEF CompactionBegins, Go, LoopTyped, Hook, InTurn
  <1>9. QED
    BY <1>5, <1>6, <1>7, <1>8

LEMMA StepEndsKeeps ==
  ASSUME LoopInv, NEW s \in Session, StepEnds(s) \/ CompactionEnds(s)
  PROVE  LoopInv'
  <1>1. LoopTyped /\ DataTyped /\ Attuned(s)
    BY DEF LoopInv
  <1>2. phase[s] \in {"stream", "compact"} /\ phase[s] # "idle" /\ Open(s)
    BY <1>1 DEF Attuned, StepEnds, CompactionEnds
  <1>3. Marking(s, LlmEnd(s)) /\ LlmEndLine(s) \in Line
    BY <1>1, <1>2, LlmEndTyped DEF Marking
  <1>4. Hook(s, LlmEnd(s), LlmEndLine(s)) /\ step[s] > 0
    BY <1>1 DEF StepEnds, CompactionEnds, Attuned
  <1>5. /\ state' \in [Session -> HookState \cup {NoState}]
        /\ log' \in [Session -> Seq(Line)]
    BY <1>1, <1>3, <1>4, HookKeeps DEF Marking
  <1>6. CASE StepEnds(s)
    <2>1. LoopTyped' /\ DataTyped'
      BY <1>1, <1>5, <1>6 DEF StepEnds, Go, LoopTyped, DataTyped, ghostVars
    <2>2. phase[s] = "stream" /\ phase'[s] = "settle" /\ running[s] = {}
      BY <1>1, <1>6 DEF StepEnds, Go, LoopTyped
    <2>3. QED
      BY <1>1, <1>2, <1>3, <1>4, <1>6, <2>1, <2>2, MarkingKeeps
         DEF StepEnds, Go, LoopTyped, Hook, InTurn
  <1>7. CASE CompactionEnds(s)
    <2>1. LoopTyped' /\ DataTyped'
      BY <1>1, <1>5, <1>7 DEF CompactionEnds, Go, LoopTyped, DataTyped, ghostVars
    <2>2. phase[s] = "compact" /\ phase'[s] = "loop" /\ running[s] = {}
      BY <1>1, <1>7 DEF CompactionEnds, Go, LoopTyped, Attuned
    <2>3. QED
      BY <1>1, <1>2, <1>3, <1>4, <1>7, <2>1, <2>2, MarkingKeeps
         DEF CompactionEnds, Go, LoopTyped, Hook, InTurn
  <1>8. QED
    BY <1>6, <1>7

LEMMA TurnEndsKeeps ==
  ASSUME LoopInv, NEW s \in Session, TurnEnds(s)
  PROVE  LoopInv'
  <1> DEFINE k == step[s]
  <1>1. LoopTyped /\ DataTyped /\ Attuned(s) /\ Bounded(s)
    BY DEF LoopInv
  <1>2. phase[s] = "settle" /\ phase[s] # "idle" /\ InTurn(s) /\ Open(s) /\ k \in Steps
    BY <1>1 DEF TurnEnds, Attuned, InTurn, LoopTyped
  <1>3. state[s].turnStart[k] \in 0..now /\ state[s].toolWall[k] \in Nat /\ running[s] = {}
    BY <1>1, <1>2 DEF Attuned
  <1>4. state[s].toolWall[k] \in 0..MaxWall
    <2>1. Finished(s) \subseteq Call
      BY DEF Finished
    <2>2. Cardinality(Finished(s)) \in Nat /\ Cardinality(Finished(s)) <= Cardinality(Call)
      BY <2>1, Numbers, FS_Subset, FS_CardinalityType
    <2>3. MaxTime * Cardinality(Finished(s)) <= MaxWall
      BY <2>2, Numbers, Multiples DEF MaxWall
    <2>4. MaxWall \in Nat /\ MaxTime * Cardinality(Finished(s)) \in Nat
      BY <2>2, Numbers, Multiples DEF MaxWall
    <2>5. state[s].toolWall[k] <= MaxTime * Cardinality(Finished(s))
      BY <1>1, <1>2 DEF Bounded
    <2>6. QED
      BY <1>3, <2>3, <2>4, <2>5
  <1>5. /\ TurnEnd(s, k) \in HookState /\ TurnEnd(s, k).start = state[s].start
        /\ TurnEnd(s, k).step = state[s].step /\ TurnEnd(s, k).toolWall = state[s].toolWall
        /\ TurnEnd(s, k).toolStart = state[s].toolStart
    BY <1>1, <1>2, TurnEndTyped
  <1>6. TurnEndLine(s, k) \in Line
    BY <1>1, <1>2, <1>3, <1>4, TurnEndLineTyped
  <1>7. Hook(s, TurnEnd(s, k), TurnEndLine(s, k))
    BY DEF TurnEnds
  <1> HIDE DEF k
  <1>8. /\ state' \in [Session -> HookState \cup {NoState}] /\ log' \in [Session -> Seq(Line)]
        /\ state'[s] = TurnEnd(s, k) /\ \A t \in Session \ {s} : state'[t] = state[t]
    BY <1>1, <1>5, <1>6, <1>7, HookKeeps
  <1>9. LoopTyped' /\ DataTyped'
    BY <1>1, <1>8 DEF TurnEnds, Go, LoopTyped, DataTyped, ghostVars
  <1>10. phase'[s] = "loop" /\ step' = step
    BY <1>1 DEF TurnEnds, Go, LoopTyped
  <1>11. Attuned(s)'
    BY <1>1, <1>2, <1>3, <1>5, <1>8, <1>10, OpenTyped DEF Attuned, InTurn, Open, TurnEnds
  <1>12. Accounted(s)' /\ Bounded(s)'
    BY <1>2, <1>3, <1>5, <1>8, Calm DEF TurnEnds
  <1>13. QED
    BY <1>1, <1>8, <1>9, <1>11, <1>12, OneMoves DEF TurnEnds, Go, LoopTyped

LEMMA QueryEndsKeeps ==
  ASSUME LoopInv, NEW s \in Session, QueryEnds(s)
  PROVE  LoopInv'
  <1>1. LoopTyped /\ DataTyped /\ Attuned(s)
    BY DEF LoopInv
  <1>2. phase[s] = "loop" /\ phase[s] # "idle" /\ Open(s) /\ running[s] = {}
    BY <1>1 DEF QueryEnds, Attuned
  <1>3. QueryEndLine(s) \in Line /\ Hook(s, NoState, QueryEndLine(s))
    BY <1>1, <1>2, QueryEndTyped DEF QueryEnds, Attuned
  <1>4. /\ state' \in [Session -> HookState \cup {NoState}] /\ log' \in [Session -> Seq(Line)]
        /\ state'[s] = NoState /\ \A t \in Session \ {s} : state'[t] = state[t]
    BY <1>1, <1>3, HookKeeps
  <1>5. trace' \in Trace
    <2>1. [status |-> "success", steps |-> step[s], parts |-> parts[s]] \in Trace
      BY <1>1 DEF LoopTyped, DataTyped, Trace
    <2>2. QED
      BY <1>1, <2>1 DEF QueryEnds, DataTyped
  <1>6. LoopTyped' /\ DataTyped'
    BY <1>1, <1>4, <1>5 DEF QueryEnds, Go, LoopTyped, DataTyped, ghostVars
  <1>7. phase'[s] = "idle" /\ running'[s] = {} /\ ~Open(s)'
    BY <1>1, <1>2, <1>4 DEF QueryEnds, Go, LoopTyped, Open
  <1>8. Attuned(s)'
    BY <1>7 DEF Attuned, InTurn
  <1>9. Accounted(s)' /\ Bounded(s)'
    BY <1>2, <1>7, Calm DEF QueryEnds
  <1>10. QED
    BY <1>1, <1>4, <1>6, <1>8, <1>9, OneMoves DEF QueryEnds, Go, LoopTyped

LEMMA UpsetsKeep ==
  ASSUME LoopInv, NEW s \in Session, StreamBreaks(s) \/ LoopFails(s)
  PROVE  LoopInv'
  <1>1. LoopTyped /\ DataTyped /\ Attuned(s)
    BY DEF LoopInv
  <1>2. upsets' \in 0..MaxUpsets /\ running[s] = {}
    BY <1>1, Numbers DEF StreamBreaks, LoopFails, LoopTyped
  <1>3. trace' \in Trace
    <2>1. <<>> \in Seq(Part)
      OBVIOUS
    <2>2. [status |-> "failed", steps |-> step[s], parts |-> <<>>] \in Trace
      BY <1>1, <2>1 DEF LoopTyped, Trace
    <2>3. QED
      BY <1>1, <2>2 DEF StreamBreaks, LoopFails, DataTyped
  <1>4. LoopTyped' /\ DataTyped'
    BY <1>1, <1>2, <1>3 DEF StreamBreaks, LoopFails, Go, LoopTyped, DataTyped, ghostVars
  <1>5. phase'[s] = "idle" \/ (InTurn(s) /\ phase'[s] = "settle")
    BY <1>1 DEF StreamBreaks, LoopFails, Go, LoopTyped, InTurn
  <1>6. state' = state /\ step' = step /\ running' = running /\ now' = now /\ parts' = parts
    BY DEF StreamBreaks, LoopFails
  <1>7. Attuned(s)'
    <2>1. Open(s)' <=> Open(s)
      BY <1>6 DEF Open
    <2>2. CASE phase'[s] = "idle"
      BY <1>1, <1>2, <1>6, <2>1, <2>2 DEF Attuned, InTurn
    <2>3. CASE InTurn(s) /\ phase'[s] = "settle"
      <3>1. phase[s] \in {"turn", "stream", "settle"} /\ phase[s] # "idle"
        BY <2>3 DEF InTurn
      <3>2. QED
        BY <1>1, <1>2, <1>6, <2>1, <2>3, <3>1 DEF Attuned
    <2>4. QED
      BY <1>5, <2>2, <2>3
  <1>8. Accounted(s)' /\ Bounded(s)'
    BY <1>2, <1>6, Calm DEF Open
  <1>9. \A t \in Session \ {s} : phase'[t] = phase[t]
    BY <1>1 DEF StreamBreaks, LoopFails, Go, LoopTyped
  <1>10. QED
    BY <1>4, <1>6, <1>7, <1>8, <1>9, OneMoves

LEMMA TimeoutKeeps ==
  ASSUME LoopInv, Timeout
  PROVE  LoopInv'
  <1>1. LoopTyped /\ DataTyped
    BY DEF LoopInv
  <1>2. trace' \in Trace
    BY <1>1, ProfileAssumption DEF LoopTyped, DataTyped, Trace, Timeout
  <1>3. LoopTyped' /\ DataTyped'
    BY <1>1, <1>2 DEF Timeout, LoopTyped, DataTyped, ghostVars, loopVars
  <1>4. ASSUME NEW t \in Session
        PROVE  Attuned(t)' /\ Accounted(t)' /\ Bounded(t)'
    BY <1>4, Same DEF Timeout, loopVars
  <1>5. QED
    BY <1>3, <1>4 DEF LoopInv

LEMMA TickKeeps ==
  ASSUME LoopInv, Tick
  PROVE  LoopInv'
  <1>1. LoopTyped /\ DataTyped
    BY DEF LoopInv
  <1>2. now \in Nat /\ now' = now + 1 /\ now' \in Duration /\ \A d \in 0..now : d \in 0..now'
    BY <1>1, Numbers DEF Tick, LoopTyped, Duration
  <1>3. LoopTyped'
    BY <1>1, <1>2 DEF Tick, LoopTyped, loopVars
  <1>4. spent' \in [Session -> [Steps -> Tally]]
    <2>1. ASSUME NEW s \in Session, NEW tally \in Tally
          PROVE  [model |-> tally.model + One(phase[s] # "settle" /\ running[s] = {}),
                  tools |-> tally.tools + One(running[s] \ Tasked # {}),
                  task |-> tally.task + One(running[s] \cap Tasked # {})] \in Tally
      BY DEF Tally, One
    <2>2. ASSUME NEW s \in Session
          PROVE  (IF ~InTurn(s) THEN spent[s]
                  ELSE [spent[s] EXCEPT ![step[s]] =
                    [model |-> @.model + One(phase[s] # "settle" /\ running[s] = {}),
                     tools |-> @.tools + One(running[s] \ Tasked # {}),
                     task |-> @.task + One(running[s] \cap Tasked # {})]])
                 \in [Steps -> Tally]
      <3>1. spent[s] \in [Steps -> Tally] /\ step[s] \in Steps
        BY <1>1 DEF LoopTyped, DataTyped
      <3>2. [model |-> spent[s][step[s]].model + One(phase[s] # "settle" /\ running[s] = {}),
             tools |-> spent[s][step[s]].tools + One(running[s] \ Tasked # {}),
             task |-> spent[s][step[s]].task + One(running[s] \cap Tasked # {})] \in Tally
        BY <2>1, <3>1
      <3>3. QED
        BY <3>1, <3>2
    <2>3. QED
      BY <2>2 DEF Tick
  <1>5. idle' \in [Session -> Nat]
    BY <1>1 DEF Tick, DataTyped, One
  <1>6. DataTyped'
    BY <1>1, <1>4, <1>5 DEF Tick, DataTyped
  <1>7. ASSUME NEW t \in Session
        PROVE  Attuned(t)' /\ Accounted(t)' /\ Bounded(t)'
    <2>1. Attuned(t) /\ Accounted(t) /\ Bounded(t)
      BY DEF LoopInv
    <2>2. Attuned(t)'
      BY <1>2, <2>1 DEF Attuned, InTurn, Open, Tick, loopVars
    <2>3. ASSUME NEW i \in DOMAIN parts[t]
          PROVE  Dated(t, parts[t][i])'
      <3>1. Dated(t, parts[t][i]) /\ parts[t][i] \in Part
        BY <1>1, <2>1 DEF Accounted, DataTyped
      <3>2. parts[t][i].start \in Nat /\ parts[t][i].end \in Mark
        BY <3>1, Numbers DEF Part
      <3>3. parts[t][i].end # None => parts[t][i].end \in Nat
        BY <3>2, Marks
      <3>4. QED
        BY <1>2, <3>1, <3>2, <3>3 DEF Dated, Tick, loopVars
    <2>4. \A c \in running[t] : Kept(t, c)'
      BY <1>2, <2>1 DEF Accounted, Kept, Tick, loopVars
    <2>5. Accounted(t)'
      BY <2>1, <2>3, <2>4 DEF Accounted, CallOnce, Tick, loopVars
    <2>6. Bounded(t)'
      BY <2>1 DEF Bounded, Open, Finished, Tick
    <2>7. QED
      BY <2>2, <2>5, <2>6
  <1>8. QED
    BY <1>3, <1>6, <1>7 DEF LoopInv

LEMMA ToolBeginsKeeps ==
  ASSUME LoopInv, NEW s \in Session, NEW c \in Call, ToolBegins(s, c)
  PROVE  LoopInv'
  <1> DEFINE n == Len(parts[s])
             part == [call |-> c, status |-> "running", start |-> now, end |-> None]
  <1>1. LoopTyped /\ DataTyped /\ Attuned(s) /\ Accounted(s) /\ Bounded(s)
    BY DEF LoopInv
  <1>2. phase[s] = "stream" /\ phase[s] # "idle" /\ InTurn(s) /\ Open(s) /\ state[s].step = step[s]
    BY <1>1 DEF ToolBegins, Attuned, InTurn
  <1>3. /\ ToolStart(s, c) \in HookState /\ ToolStart(s, c).start = state[s].start
        /\ ToolStart(s, c).step = state[s].step
        /\ ToolStart(s, c).turnStart = state[s].turnStart
        /\ ToolStart(s, c).toolWall = state[s].toolWall
        /\ ToolStart(s, c).toolStart =
             [state[s].toolStart EXCEPT ![c] = [ms |-> now, step |-> state[s].step]]
        /\ ToolStartLine(s, c) \in Line /\ Hook(s, ToolStart(s, c), ToolStartLine(s, c))
    BY <1>1, <1>2, ToolStartTyped DEF ToolBegins
  <1>4. /\ state' \in [Session -> HookState \cup {NoState}] /\ log' \in [Session -> Seq(Line)]
        /\ state'[s] = ToolStart(s, c) /\ \A t \in Session \ {s} : state'[t] = state[t]
    BY <1>1, <1>3, HookKeeps
  <1>5. now \in Duration /\ now \in Nat /\ part \in Part
    BY <1>1, Marks DEF LoopTyped, Part, Mark
  <1> HIDE DEF part
  <1>6. /\ parts[s] \in Seq(Part) /\ parts'[s] = Append(parts[s], part)
        /\ parts'[s] \in Seq(Part) /\ \A t \in Session \ {s} : parts'[t] = parts[t]
        /\ parts' \in [Session -> Seq(Part)]
    BY <1>1, <1>5 DEF ToolBegins, DataTyped, part
  <1>7. /\ n \in Nat /\ DOMAIN parts[s] = 1..n /\ DOMAIN parts'[s] = 1..(n + 1)
        /\ parts'[s][n + 1] = part /\ \A i \in 1..n : parts'[s][i] = parts[s][i]
    BY <1>6
  <1>8. running' = [running EXCEPT ![s] = @ \cup {c}] /\ running'[s] = running[s] \cup {c}
    BY <1>1 DEF ToolBegins, LoopTyped
  <1> HIDE DEF n
  <1>9. LoopTyped' /\ DataTyped'
    BY <1>1, <1>4, <1>6, <1>8 DEF ToolBegins, LoopTyped, DataTyped, ghostVars
  <1>10. part.call = c /\ part.end = None /\ part.status = "running" /\ part.start = now
    BY DEF part
  <1>11. \A i \in 1..n : parts[s][i].call # c
    BY <1>6, <1>7 DEF ToolBegins, n
  <1>12. now' = now /\ step' = step /\ phase' = phase
    BY DEF ToolBegins
  <1>13. Attuned(s)'
    BY <1>1, <1>2, <1>3, <1>4, <1>12, OpenTyped DEF Attuned, InTurn, Open
  <1>14. Accounted(s)'
    <2>1. CallOnce(parts'[s])
      <3>1. ASSUME NEW i \in 1..(n + 1), NEW j \in 1..(n + 1),
                   parts'[s][i].call = parts'[s][j].call
            PROVE  i = j
        <4>1. (i \in 1..n \/ i = n + 1) /\ (j \in 1..n \/ j = n + 1)
          BY <1>7
        <4>2. QED
          BY <1>1, <1>7, <1>10, <1>11, <3>1, <4>1 DEF Accounted, CallOnce
      <3>2. QED
        BY <1>7, <3>1 DEF CallOnce
    <2>2. ASSUME NEW i \in 1..n
          PROVE  Dated(s, parts[s][i])'
      BY <1>1, <1>7, <1>8, <1>11, <1>12 DEF Accounted, Dated
    <2>3. /\ part.start <= now' /\ part.end = None /\ part.call \in running'[s]
          /\ part.status = "running"
      BY <1>5, <1>8, <1>10, <1>12
    <2>4. ASSUME NEW i \in DOMAIN parts'[s]
          PROVE  Dated(s, parts[s][i])'
      <3>1. i \in 1..n \/ i = n + 1
        BY <1>7, <2>4
      <3>2. CASE i = n + 1
        BY <1>7, <2>3, <3>2 DEF Dated
      <3>3. QED
        BY <2>2, <3>1, <3>2
    <2>5. state'[s].toolStart = [state[s].toolStart EXCEPT ![c] = [ms |-> now, step |-> step[s]]]
      BY <1>2, <1>3, <1>4
    <2>6. state[s].toolStart \in [Call -> [ms : Mark, step : Steps]]
      BY <1>1, <1>2, StateTyped DEF HookState
    <2>7. Kept(s, c)'
      <3>1. parts'[s][n + 1].call = c /\ parts'[s][n + 1].start = now /\ n + 1 \in DOMAIN parts'[s]
        BY <1>7, <1>10
      <3>2. state'[s].toolStart[c] = [ms |-> now, step |-> step[s]]
        BY <2>5, <2>6
      <3>3. QED
        BY <1>5, <1>12, <3>1, <3>2 DEF Kept
    <2>8. ASSUME NEW d \in running[s], d # c
          PROVE  Kept(s, d)'
      <3>1. Kept(s, d) /\ d \in Call
        BY <1>1 DEF Accounted, LoopTyped
      <3>2. PICK i \in 1..n : parts[s][i].call = d /\ parts[s][i].start = state[s].toolStart[d].ms
        BY <1>7, <3>1 DEF Kept
      <3>3. state'[s].toolStart[d] = state[s].toolStart[d]
        BY <2>5, <2>6, <2>8, <3>1
      <3>4. i \in DOMAIN parts'[s] /\ parts'[s][i] = parts[s][i]
        BY <1>7
      <3>5. QED
        BY <1>12, <3>1, <3>2, <3>3, <3>4 DEF Kept
    <2>9. QED
      BY <1>8, <2>1, <2>4, <2>7, <2>8 DEF Accounted
  <1>15. Bounded(s)'
    <2>1. Finished(s)' = Finished(s)
      <3>1. ASSUME NEW d \in Call
            PROVE  (\E i \in DOMAIN parts'[s] : parts'[s][i].call = d /\ parts'[s][i].end # None)
                   <=> \E i \in DOMAIN parts[s] : parts[s][i].call = d /\ parts[s][i].end # None
        <4>1. \A i \in 1..(n + 1) : i \in 1..n \/ i = n + 1
          BY <1>7
        <4>2. \A i \in 1..n : i \in 1..(n + 1)
          BY <1>7
        <4>3. QED
          BY <1>7, <1>10, <4>1, <4>2
      <3>2. QED
        BY <3>1 DEF Finished
    <2>2. QED
      BY <1>1, <1>2, <1>3, <1>4, <2>1 DEF Bounded
  <1>16. QED
    BY <1>4, <1>6, <1>8, <1>9, <1>12, <1>13, <1>14, <1>15, <1>1, OneMoves DEF LoopTyped

LEMMA ToolEndsKeeps ==
  ASSUME LoopInv, NEW s \in Session, NEW c \in Call, NEW ok \in BOOLEAN, ToolEnds(s, c, ok)
  PROVE  LoopInv'
  <1> DEFINE ms == state[s].toolStart[c].ms
             k == step[s]
             done(p) == [p EXCEPT !.status = IF ok THEN "completed" ELSE "error", !.end = now]
  <1>1. LoopTyped /\ DataTyped /\ Attuned(s) /\ Accounted(s) /\ Bounded(s)
    BY DEF LoopInv
  <1>2. /\ c \in running[s] /\ Kept(s, c) /\ phase[s] = "stream" /\ phase[s] # "idle"
        /\ InTurn(s) /\ Open(s) /\ state[s].step = k /\ k > 0 /\ k \in Steps
    BY <1>1 DEF ToolEnds, Attuned, InTurn, Accounted, LoopTyped
  <1>3. state[s].toolStart[c].step = k /\ ms \in 0..now /\ state[s].toolWall[k] \in Nat
    BY <1>1, <1>2 DEF Attuned, Kept
  <1>4. /\ ToolEnd(s, c) \in HookState /\ ToolEnd(s, c).start = state[s].start
        /\ ToolEnd(s, c).step = state[s].step /\ ToolEnd(s, c).turnStart = state[s].turnStart
        /\ ToolEnd(s, c).toolWall = [state[s].toolWall EXCEPT ![k] = @ + (now - ms)]
        /\ \A d \in Call \ {c} : ToolEnd(s, c).toolStart[d] = state[s].toolStart[d]
        /\ now - ms \in Duration /\ ToolEndLine(s, c, ok) \in Line
    BY <1>1, <1>2, <1>3, ToolEndTyped
  <1>5. Hook(s, ToolEnd(s, c), ToolEndLine(s, c, ok))
    BY DEF ToolEnds
  <1> HIDE DEF ms, k
  <1>6. /\ state' \in [Session -> HookState \cup {NoState}] /\ log' \in [Session -> Seq(Line)]
        /\ state'[s] = ToolEnd(s, c) /\ \A t \in Session \ {s} : state'[t] = state[t]
    BY <1>1, <1>4, <1>5, HookKeeps
  <1>7. now \in Duration /\ now \in Nat /\ now \in Mark /\ now # None
    BY <1>1, Marks, Numbers DEF LoopTyped
  <1>8. \A p \in Part : /\ done(p) \in Part /\ done(p).call = p.call /\ done(p).start = p.start
                        /\ done(p).end = now /\ done(p).status # "running"
    BY <1>7 DEF Part
  <1> HIDE DEF done
  <1>9. /\ parts[s] \in Seq(Part)
        /\ parts'[s] = [i \in 1..Len(parts[s]) |->
             IF parts[s][i].call # c THEN parts[s][i] ELSE done(parts[s][i])]
        /\ \A t \in Session \ {s} : parts'[t] = parts[t]
        /\ parts' = [parts EXCEPT ![s] = parts'[s]]
    BY <1>1 DEF ToolEnds, DataTyped, done
  <1>10. /\ DOMAIN parts'[s] = DOMAIN parts[s]
         /\ \A i \in DOMAIN parts[s] :
              /\ parts[s][i] \in Part
              /\ parts'[s][i] = IF parts[s][i].call # c THEN parts[s][i] ELSE done(parts[s][i])
    BY <1>9
  <1>11. \A i \in DOMAIN parts[s] : /\ parts'[s][i] \in Part
                                    /\ parts'[s][i].call = parts[s][i].call
                                    /\ parts'[s][i].start = parts[s][i].start
    BY <1>8, <1>10
  <1>12. parts' \in [Session -> Seq(Part)]
    <2>1. parts'[s] \in Seq(Part)
      <3>1. DOMAIN parts'[s] = 1..Len(parts[s]) /\ Len(parts[s]) \in Nat
        BY <1>9
      <3>2. parts'[s] = [i \in 1..Len(parts[s]) |-> parts'[s][i]]
        BY <1>9, <1>10
      <3>3. \A i \in 1..Len(parts[s]) : parts'[s][i] \in Part
        BY <1>10, <1>11, <3>1
      <3>4. QED
        BY <3>1, <3>2, <3>3, IsASeq
    <2>2. QED
      BY <1>1, <1>9, <2>1 DEF DataTyped
  <1>13. running' = [running EXCEPT ![s] = @ \ {c}] /\ running'[s] = running[s] \ {c}
    BY <1>1 DEF ToolEnds, LoopTyped
  <1>14. LoopTyped' /\ DataTyped'
    BY <1>1, <1>6, <1>12, <1>13 DEF ToolEnds, LoopTyped, DataTyped, ghostVars
  <1>15. now' = now /\ step' = step /\ phase' = phase
    BY DEF ToolEnds
  <1>16. state[s].toolWall \in [Steps -> Nat \cup {None}]
    BY <1>1, <1>2, StateTyped DEF HookState
  <1>17. Attuned(s)'
    <2>1. state'[s].toolWall[k] = state[s].toolWall[k] + (now - ms)
      BY <1>2, <1>4, <1>6, <1>16
    <2>2. state'[s].toolWall[k] \in Nat
      BY <1>3, <1>4, <2>1, Marks
    <2>3. QED
      BY <1>1, <1>2, <1>4, <1>6, <1>13, <1>15, <2>2, OpenTyped DEF Attuned, InTurn, Open, k
  <1>18. Accounted(s)'
    <2>1. CallOnce(parts'[s])
      BY <1>1, <1>10, <1>11 DEF Accounted, CallOnce
    <2>2. ASSUME NEW i \in DOMAIN parts'[s]
          PROVE  Dated(s, parts[s][i])'
      <3>1. Dated(s, parts[s][i]) /\ parts[s][i] \in Part
        BY <1>1, <1>10, <2>2 DEF Accounted
      <3>2. CASE parts[s][i].call # c
        BY <1>10, <1>13, <1>15, <2>2, <3>1, <3>2 DEF Dated
      <3>3. CASE parts[s][i].call = c
        <4>1. parts'[s][i] = done(parts[s][i])
          BY <1>10, <2>2, <3>3
        <4>2. parts'[s][i].end = now /\ parts'[s][i].status # "running"
              /\ parts'[s][i].call = c /\ parts'[s][i].start <= now
          BY <1>8, <1>11, <2>2, <3>1, <3>3, <4>1 DEF Dated
        <4>3. c \notin running'[s]
          BY <1>13
        <4>4. QED
          BY <1>7, <1>15, <4>2, <4>3 DEF Dated
      <3>4. QED
        BY <3>2, <3>3
    <2>3. ASSUME NEW d \in running[s] \ {c}
          PROVE  Kept(s, d)'
      <3>1. Kept(s, d) /\ d \in Call
        BY <1>1 DEF Accounted, LoopTyped
      <3>2. state'[s].toolStart[d] = state[s].toolStart[d]
        BY <1>4, <1>6, <2>3, <3>1
      <3>3. QED
        BY <1>10, <1>11, <1>15, <3>1, <3>2 DEF Kept
    <2>4. QED
      BY <1>13, <2>1, <2>2, <2>3 DEF Accounted
  <1>19. Bounded(s)'
    <2>1. PICK j \in DOMAIN parts[s] : parts[s][j].call = c
      BY <1>2 DEF Kept
    <2>2. c \notin Finished(s)
      <3>1. \A i \in DOMAIN parts[s] : parts[s][i].call = c => parts[s][i].end = None
        BY <1>1, <1>2 DEF Accounted, Dated
      <3>2. QED
        BY <3>1 DEF Finished
    <2>3. Finished(s)' = Finished(s) \cup {c}
      <3>1. ASSUME NEW i \in DOMAIN parts[s], parts[s][i].call # c
            PROVE  parts'[s][i] = parts[s][i]
        BY <1>10, <3>1
      <3>2. ASSUME NEW i \in DOMAIN parts[s], parts[s][i].call = c
            PROVE  parts'[s][i].call = c /\ parts'[s][i].end # None
        BY <1>7, <1>8, <1>10, <1>11, <3>2
      <3>3. ASSUME NEW d \in Call, d # c
            PROVE  d \in Finished(s)' <=> d \in Finished(s)
        BY <1>10, <1>11, <3>1, <3>3 DEF Finished
      <3>4. c \in Finished(s)'
        BY <1>10, <2>1, <3>2 DEF Finished
      <3>5. Finished(s)' \subseteq Call /\ Finished(s) \subseteq Call
        BY DEF Finished
      <3>6. QED
        BY <3>3, <3>4, <3>5
    <2> DEFINE m == Cardinality(Finished(s))
    <2>4. Cardinality(Finished(s)') = m + 1 /\ m \in Nat
      <3>1. IsFiniteSet(Finished(s))
        BY Numbers, FS_Subset DEF Finished
      <3>2. QED
        BY <2>2, <2>3, <3>1, FS_AddElement, FS_CardinalityType
    <2>5. MaxTime * (m + 1) = MaxTime * m + MaxTime /\ MaxTime * m \in Nat
      BY <2>4, Multiples
    <2> HIDE DEF m
    <2>6. ASSUME NEW l \in Steps
          PROVE  state'[s].toolWall[l] <= MaxTime * (m + 1)
      <3>1. state[s].toolWall[l] <= MaxTime * m
        BY <1>1, <1>2 DEF Bounded, m
      <3>2. state[s].toolWall[l] \in Nat \cup {None} /\ now - ms \in 0..MaxTime
        BY <1>4, <1>16 DEF Duration
      <3>3. state'[s].toolWall[l] \in {state[s].toolWall[l], state[s].toolWall[l] + (now - ms)}
        BY <1>4, <1>6, <1>16
      <3>4. QED
        BY <2>5, <3>1, <3>2, <3>3, Numbers DEF None
    <2>7. Cardinality(Finished(s))' = m + 1
      BY <2>4
    <2>8. QED
      BY <2>6, <2>7 DEF Bounded
  <1>20. QED
    BY <1>1, <1>6, <1>9, <1>13, <1>14, <1>15, <1>17, <1>18, <1>19, OneMoves DEF LoopTyped

LEMMA LoopNext ==
  ASSUME LoopInv, [Next]_vars
  PROVE  LoopInv'
  <1>1. CASE UNCHANGED vars
    <2>1. LoopTyped' /\ DataTyped'
      BY <1>1 DEF vars, loopVars, ghostVars, LoopInv, LoopTyped, DataTyped
    <2>2. ASSUME NEW t \in Session
          PROVE  Attuned(t)' /\ Accounted(t)' /\ Bounded(t)'
      BY <1>1, <2>2, Same DEF vars, loopVars
    <2>3. QED
      BY <2>1, <2>2 DEF LoopInv
  <1>2. CASE Next
    BY <1>2, QueryBeginsKeeps, TurnBeginsKeeps, MarksKeep, StepEndsKeeps, TurnEndsKeeps,
       QueryEndsKeeps, UpsetsKeep, ToolBeginsKeeps, ToolEndsKeeps, TimeoutKeeps, TickKeeps
       DEF Next
  <1>3. QED
    BY <1>1, <1>2

LEMMA LoopInvariant == Spec => []LoopInv
  <1>1. Init => LoopInv
    <2>1. SUFFICES ASSUME Init PROVE LoopInv
      OBVIOUS
    <2>2. Nothing \in Tally /\ Blank \in [Steps -> {None}]
      BY DEF Nothing, Tally, Blank
    <2>3. LoopTyped
      BY <2>1, Numbers DEF Init, LoopTyped
    <2>4. DataTyped
      BY <2>1, <2>2 DEF Init, DataTyped, Trace
    <2>5. ASSUME NEW s \in Session
          PROVE  Attuned(s) /\ Accounted(s) /\ Bounded(s)
      BY <2>1 DEF Init, Attuned, Accounted, Bounded, Open, InTurn, CallOnce
    <2>6. QED
      BY <2>3, <2>4, <2>5 DEF LoopInv
  <1>2. LoopInv /\ [Next]_vars => LoopInv'
    BY LoopNext
  <1>3. QED
    BY <1>1, <1>2, PTL DEF Spec

\* The loop and its logs stay within their types: durations are those of the clock, and
\* what a turn's line says of its tools and its residual stays within their bounds.
THEOREM TypeCorrect == Spec => []TypeOK
  <1>1. LoopInv => TypeOK
    <2>1. SUFFICES ASSUME LoopInv PROVE TypeOK
      OBVIOUS
    <2>2. ASSUME NEW e \in Line
          PROVE  /\ e.ts \in Duration
                 /\ e.ev \in {"turn.end", "tool.end", "query.end"} => e.duration \in Duration
                 /\ e.ev = "turn.end" => /\ e.tool \in 0..(MaxTime * Cardinality(Call))
                                         /\ e.post \in 0..(2 * MaxTime)
      BY DEF Line, QueryStartLines, QueryEndLines, MarkLines, TurnEndLines, LlmEndLines,
             ToolStartLines, ToolEndLines, MaxWall
    <2>3. \A s \in Session : \A i \in DOMAIN log[s] : log[s][i] \in Line
      BY <2>1 DEF LoopInv, DataTyped
    <2>4. QED
      BY <2>1, <2>2, <2>3 DEF TypeOK, LoopInv, LoopTyped
  <1>2. QED
    BY <1>1, LoopInvariant, PTL

-------------------------------------------------------------------------------
(* What the testbed recorded, and the causes it is put down to *)

RecordedInv ==
  trace # NoTrace =>
    /\ CallOnce(trace.parts)
    /\ \A i \in DOMAIN trace.parts : trace.parts[i].end = None <=> trace.parts[i].status = "running"

LEMMA RecordedInvariant == Spec => []RecordedInv
  <1>1. Init => RecordedInv
    BY DEF Init, RecordedInv
  <1>2. LoopInv /\ RecordedInv /\ [Next]_vars => RecordedInv'
    <2>1. SUFFICES ASSUME LoopInv, RecordedInv, [Next]_vars PROVE RecordedInv'
      OBVIOUS
    <2>2. Accounted(Main) /\ parts[Main] \in Seq(Part)
      BY <2>1, ProfileAssumption DEF LoopInv, DataTyped
    <2>3. /\ CallOnce(parts[Main])
          /\ \A i \in DOMAIN parts[Main] :
               parts[Main][i].end = None <=> parts[Main][i].status = "running"
      BY <2>2 DEF Accounted, Dated
    <2>4. \/ trace' = trace
          \/ trace'.parts = parts[Main]
          \/ trace'.parts = <<>>
      <3>1. ASSUME NEW s \in Session,
                   \/ QueryBegins(s) \/ TurnBegins(s) \/ StepBegins(s) \/ TextEnds(s)
                   \/ StepEnds(s) \/ StreamFinishes(s) \/ TurnEnds(s) \/ StreamBreaks(s)
                   \/ CompactionBegins(s) \/ CompactionEnds(s)
            PROVE  trace' = trace
        BY <3>1 DEF QueryBegins, TurnBegins, StepBegins, TextEnds, StepEnds, StreamFinishes,
           TurnEnds, StreamBreaks, CompactionBegins, CompactionEnds
      <3>2. ASSUME NEW s \in Session, NEW c \in Call,
                   ToolBegins(s, c) \/ \E ok \in BOOLEAN : ToolEnds(s, c, ok)
            PROVE  trace' = trace
        BY <3>2 DEF ToolBegins, ToolEnds
      <3>3. ASSUME NEW s \in Session, QueryEnds(s)
            PROVE  trace' = trace \/ trace'.parts = parts[Main]
        BY <3>3 DEF QueryEnds
      <3>4. ASSUME NEW s \in Session, LoopFails(s)
            PROVE  trace' = trace \/ trace'.parts = <<>>
        BY <3>4 DEF LoopFails
      <3>5. Timeout => trace'.parts = parts[Main]
        BY DEF Timeout
      <3>6. (UNCHANGED vars \/ Tick) => trace' = trace
        BY DEF vars, Tick
      <3>7. QED
        BY <2>1, <3>1, <3>2, <3>3, <3>4, <3>5, <3>6 DEF Next
    <2>5. QED
      BY <2>1, <2>3, <2>4 DEF RecordedInv, CallOnce
  <1>3. QED
    BY <1>1, <1>2, LoopInvariant, PTL DEF Spec

\* For every timeout the analysis names a tool exactly if the testbed recorded one that was
\* under way, and a recorded call that is under way is excluded exactly if its command has
\* the shape of one that hangs.
THEOREM TimeoutsArePutDown == Spec => []CauseIsUnderWay
  <1>1. LoopInv /\ RecordedInv => CauseIsUnderWay
    <2>1. SUFFICES ASSUME LoopInv, RecordedInv, trace.status = "timeout",
                          trace # NoTrace
                   PROVE  CauseIsUnderWay
      <3>1. trace.status = "timeout" => trace # NoTrace
        BY DEF NoTrace
      <3>2. QED
        BY <3>1 DEF CauseIsUnderWay
    <2>2. trace.parts \in Seq(Part) /\ TraceParts = trace.parts
      BY <2>1 DEF LoopInv, DataTyped, Trace, TraceParts
    <2> DEFINE ps == trace.parts
    <2>3. /\ DOMAIN ps = 1..Len(ps) /\ Len(ps) \in Nat
          /\ \A i \in 1..Len(ps) : ps[i] \in Part
      BY <2>2
    <2>4. \A i \in 1..Len(ps) : ps[i].end = None <=> ps[i].status = "running"
      BY <2>1, <2>3 DEF RecordedInv
    <2>5. OpenParts = {i \in 1..Len(ps) : ps[i].status = "running"}
      BY <2>2, <2>3 DEF OpenParts
    <2>6. Cause = "awaiting_llm" <=> \A i \in 1..Len(ps) : ps[i].end # None
      <3>1. CASE OpenParts = {}
        BY <2>1, <2>4, <2>5, <3>1 DEF Cause
      <3>2. CASE OpenParts # {}
        <4>1. OpenParts \subseteq 0..Len(ps)
          BY <2>3, <2>5
        <4>2. Max(OpenParts) \in OpenParts
          BY <2>3, <3>2, <4>1, MaxIsGreatest
        <4>3. Max(OpenParts) \in 1..Len(ps)
          BY <2>5, <4>2
        <4>4. ps[Max(OpenParts)].call \in Call
          BY <2>3, <4>3 DEF Part
        <4>5. Cause = Tool[ps[Max(OpenParts)].call]
          BY <2>1, <2>2, <3>2 DEF Cause
        <4>6. Cause # "awaiting_llm"
          BY <4>4, <4>5, CausesAssumption
        <4>7. QED
          BY <2>4, <2>5, <3>2, <4>6
      <3>3. QED
        BY <3>1, <3>2
    <2>7. ASSUME NEW i \in 1..Len(ps), ps[i].end = None, Bash(ps[i])
          PROVE  ps[i].call \in ExcludedCalls <=> Shapes[ps[i].call] # {}
      <3>1. \A p \in ToSet(TraceParts) : p.call = ps[i].call => p = ps[i]
        BY <2>1, <2>2, <2>3 DEF ToSet, RecordedInv, CallOnce
      <3>2. ps[i] \in ToSet(TraceParts)
        BY <2>2, <2>3 DEF ToSet
      <3>3. PartDuration(ps[i]) = None
        BY <2>7 DEF PartDuration
      <3>4. ~LongByTime(ps[i])
        BY <3>3 DEF LongByTime
      <3>5. ps[i].status # "completed"
        BY <2>4, <2>7
      <3>6. ps[i] \in Flagged <=> Shapes[ps[i].call] # {}
        BY <2>7, <3>2, <3>4 DEF Flagged
      <3>7. Hangs(ps[i])
        BY <3>5 DEF Hangs
      <3>8. Flagged \subseteq ToSet(TraceParts)
        BY DEF Flagged
      <3>9. QED
        BY <3>1, <3>6, <3>7, <3>8 DEF ExcludedCalls
    <2>8. QED
      BY <2>6, <2>7 DEF CauseIsUnderWay
  <1>2. QED
    BY <1>1, LoopInvariant, RecordedInvariant, PTL

-------------------------------------------------------------------------------
(* The lines of a log, in order *)

\* A log begins with a query, its lines are in the order of their time, and after a query's
\* end it goes on with another query, if at all.
Sequenced(s) ==
  /\ \A i \in DOMAIN log[s] : log[s][i].ts <= now
  /\ \A i, j \in DOMAIN log[s] : i <= j => log[s][i].ts <= log[s][j].ts
  /\ log[s] # <<>> => log[s][1].ev = "query.start"
  /\ Open(s) \/ phase[s] # "idle" => log[s] # <<>>
  /\ phase[s] # "idle" => log[s][Len(log[s])].ev # "query.end"
  /\ \A i \in DOMAIN log[s] :
       log[s][i].ev = "query.end" /\ i + 1 \in DOMAIN log[s] => log[s][i + 1].ev = "query.start"

\* What every step does to the logs.
Quiet ==
  /\ log' = log /\ now <= now'
  /\ \A t \in Session : (Open(t)' => Open(t)) /\ (phase'[t] # "idle" => phase[t] # "idle")
Writes(s, line) ==
  /\ log' = [log EXCEPT ![s] = Append(@, line)] /\ line \in Line
  /\ line.ts = now /\ now' = now
  /\ phase[s] # "idle" \/ line.ev = "query.start"
  /\ phase'[s] = "idle" \/ line.ev # "query.end"
  /\ \A t \in Session \ {s} : phase'[t] = phase[t] /\ state'[t] = state[t]

LEMMA LineTimes == \A e \in Line : e.ts \in Nat
  <1>1. \A e \in Line : e.ts \in Duration
    BY DEF Line, QueryStartLines, QueryEndLines, MarkLines, TurnEndLines, LlmEndLines,
           ToolStartLines, ToolEndLines
  <1>2. QED
    BY <1>1, Marks

\* A hook that an action calls in a session that is under way.
LEMMA HookWrites ==
  ASSUME LoopInv, NEW s \in Session, NEW st, NEW line \in Line, Hook(s, st, line),
         line.ts = now, now' = now, phase[s] # "idle" \/ line.ev = "query.start",
         phase'[s] = "idle" \/ line.ev # "query.end",
         \A t \in Session \ {s} : phase'[t] = phase[t]
  PROVE  Writes(s, line)
  BY DEF Writes, Hook, LoopInv, LoopTyped

LEMMA LogSteps ==
  ASSUME LoopInv, [Next]_vars
  PROVE  Quiet \/ \E s \in Session : \E line \in Line : Writes(s, line)
  <1>1. LoopTyped /\ DataTyped /\ now \in Nat
    BY Marks DEF LoopInv, LoopTyped
  <1>2. ASSUME NEW s \in Session
        PROVE  /\ phase[s] # "idle" => Open(s) /\ state[s].step \in Steps
               /\ Attuned(s) /\ Bounded(s) /\ step[s] \in Steps
    <2>1. Attuned(s) /\ Bounded(s) /\ step[s] \in Steps
      BY DEF LoopInv, LoopTyped
    <2>2. QED
      BY <1>1, <2>1, StateTyped, Fields DEF Attuned
  <1>3. CASE UNCHANGED vars
    BY <1>1, <1>3 DEF vars, Quiet, loopVars, Open
  <1>4. ASSUME NEW s \in Session, QueryBegins(s)
        PROVE  \E line \in Line : Writes(s, line)
    <2>1. /\ QueryStartLine(s) \in Line /\ Hook(s, QueryStart(s), QueryStartLine(s))
          /\ QueryStartLine(s).ts = now /\ QueryStartLine(s).ev = "query.start"
      BY <1>1, <1>4, QueryStartTyped DEF QueryBegins, QueryStartLine
    <2>2. QED
      BY <1>1, <1>4, <2>1, HookWrites DEF QueryBegins, Go, LoopTyped
  <1>5. ASSUME NEW s \in Session, TurnBegins(s)
        PROVE  \E line \in Line : Writes(s, line)
    <2>1. step[s] + 1 \in Steps
      BY <1>2, <1>5, Numbers DEF TurnBegins, Steps
    <2>2. /\ TurnStartLine(s, step[s] + 1) \in Line
          /\ TurnStartLine(s, step[s] + 1).ts = now
          /\ TurnStartLine(s, step[s] + 1).ev = "turn.start"
      BY <1>1, <2>1, TurnStartTyped DEF TurnStartLine
    <2>3. QED
      BY <1>1, <1>5, <2>2, HookWrites DEF TurnBegins, Go, LoopTyped
  <1>6. ASSUME NEW s \in Session, StepBegins(s) \/ CompactionBegins(s)
        PROVE  \E line \in Line : Writes(s, line)
    <2> DEFINE line == [ev |-> "llm.start", ts |-> now, step |-> state[s].step]
    <2>1. phase[s] # "idle" /\ phase'[s] # "idle"
      BY <1>1, <1>6 DEF StepBegins, CompactionBegins, Go, LoopTyped
    <2>2. line \in Line /\ line.ts = now /\ line.ev = "llm.start"
      BY <1>1, <1>2, <2>1, MarkLineTyped
    <2>3. Hook(s, LlmStart(s), line) /\ now' = now
      BY <1>6 DEF StepBegins, CompactionBegins
    <2>4. \A t \in Session \ {s} : phase'[t] = phase[t]
      BY <1>1, <1>6 DEF StepBegins, CompactionBegins, Go, LoopTyped
    <2> HIDE DEF line
    <2>5. QED
      BY <2>1, <2>2, <2>3, <2>4, HookWrites
  <1>7. ASSUME NEW s \in Session, StepEnds(s) \/ CompactionEnds(s)
        PROVE  \E line \in Line : Writes(s, line)
    <2>1. phase[s] # "idle" /\ phase'[s] # "idle"
      BY <1>1, <1>7 DEF StepEnds, CompactionEnds, Go, LoopTyped
    <2>2. /\ LlmEndLine(s) \in Line /\ LlmEndLine(s).ts = now /\ LlmEndLine(s).ev = "llm.end"
      BY <1>1, <1>2, <2>1, LlmEndTyped DEF LlmEndLine
    <2>3. Hook(s, LlmEnd(s), LlmEndLine(s)) /\ now' = now
      BY <1>7 DEF StepEnds, CompactionEnds
    <2>4. \A t \in Session \ {s} : phase'[t] = phase[t]
      BY <1>1, <1>7 DEF StepEnds, CompactionEnds, Go, LoopTyped
    <2>5. QED
      BY <2>1, <2>2, <2>3, <2>4, HookWrites
  <1>8. ASSUME NEW s \in Session, StreamFinishes(s)
        PROVE  \E line \in Line : Writes(s, line)
    <2> DEFINE line == [ev |-> "llm.stream-finish", ts |-> now, step |-> step[s]]
    <2>1. line \in Line /\ line.ts = now /\ line.ev = "llm.stream-finish"
      BY <1>1, <1>2, MarkLineTyped
    <2>2. Hook(s, StreamFinish(s), line)
      BY <1>8 DEF StreamFinishes
    <2> HIDE DEF line
    <2>3. QED
      BY <1>8, <2>1, <2>2, HookWrites DEF StreamFinishes, loopVars
  <1>9. ASSUME NEW s \in Session, TurnEnds(s)
        PROVE  \E line \in Line : Writes(s, line)
    <2>1. /\ TurnEndLine(s, step[s]).ts = now /\ TurnEndLine(s, step[s]).ev = "turn.end"
      BY DEF TurnEndLine
    <2>2. Hook(s, TurnEnd(s, step[s]), TurnEndLine(s, step[s])) /\ now' = now
      BY <1>9 DEF TurnEnds
    <2>3. log'[s] \in Seq(Line)
      BY <1>9, TurnEndsKeeps DEF LoopInv, DataTyped
    <2>4. TurnEndLine(s, step[s]) \in Line
      <3>1. log'[s] = Append(log[s], TurnEndLine(s, step[s])) /\ log[s] \in Seq(Line)
        BY <1>1, <2>2 DEF Hook, DataTyped
      <3>2. log'[s][Len(log[s]) + 1] = TurnEndLine(s, step[s]) /\ Len(log'[s]) = Len(log[s]) + 1
        BY <3>1
      <3>3. QED
        BY <2>3, <3>1, <3>2
    <2>5. phase[s] # "idle" /\ \A t \in Session \ {s} : phase'[t] = phase[t]
      BY <1>1, <1>9 DEF TurnEnds, Go, LoopTyped
    <2>6. QED
      BY <2>1, <2>2, <2>4, <2>5, HookWrites
  <1>10. ASSUME NEW s \in Session, QueryEnds(s)
         PROVE  \E line \in Line : Writes(s, line)
    <2>1. phase[s] # "idle" /\ phase'[s] = "idle" /\ \A t \in Session \ {s} : phase'[t] = phase[t]
      BY <1>1, <1>10 DEF QueryEnds, Go, LoopTyped
    <2>2. QueryEndLine(s) \in Line /\ QueryEndLine(s).ts = now
      BY <1>1, <1>2, <2>1, QueryEndTyped DEF QueryEndLine, Attuned
    <2>3. QED
      BY <1>10, <2>1, <2>2, HookWrites DEF QueryEnds
  <1>11. ASSUME NEW s \in Session, NEW c \in Call, ToolBegins(s, c)
         PROVE  \E line \in Line : Writes(s, line)
    <2>1. phase[s] # "idle" /\ phase' = phase
      BY <1>11 DEF ToolBegins
    <2>2. /\ ToolStartLine(s, c) \in Line /\ ToolStartLine(s, c).ts = now
          /\ ToolStartLine(s, c).ev = "tool.start"
      BY <1>1, <1>2, <2>1, ToolStartTyped DEF ToolStartLine
    <2>3. QED
      BY <1>11, <2>1, <2>2, HookWrites DEF ToolBegins
  <1>12. ASSUME NEW s \in Session, NEW c \in Call, NEW ok \in BOOLEAN, ToolEnds(s, c, ok)
         PROVE  \E line \in Line : Writes(s, line)
    <2>1. /\ c \in running[s] /\ Kept(s, c) /\ phase[s] = "stream" /\ InTurn(s)
          /\ state[s].step = step[s] /\ step[s] > 0
      BY <1>12, <1>2 DEF ToolEnds, Attuned, InTurn, LoopInv, Accounted
    <2>2. ToolEndLine(s, c, ok) \in Line
      BY <1>1, <1>2, <2>1, ToolEndTyped DEF Kept, Attuned
    <2>3. ToolEndLine(s, c, ok).ts = now /\ ToolEndLine(s, c, ok).ev = "tool.end"
      BY DEF ToolEndLine
    <2>4. QED
      BY <1>12, <2>1, <2>2, <2>3, HookWrites DEF ToolEnds
  <1>13. ASSUME NEW s \in Session, TextEnds(s) \/ StreamBreaks(s) \/ LoopFails(s)
         PROVE  Quiet
    <2>1. CASE TextEnds(s)
      BY <1>1, <1>2, <2>1 DEF TextEnds, Quiet, LoopTyped, Open, loopVars
    <2>2. CASE StreamBreaks(s) \/ LoopFails(s)
      BY <1>1, <2>2 DEF StreamBreaks, LoopFails, Quiet, LoopTyped, Open, Go
    <2>3. QED
      BY <1>13, <2>1, <2>2
  <1>14. Timeout \/ Tick => Quiet
    BY <1>1 DEF Timeout, Tick, Quiet, LoopTyped, Open, loopVars
  <1>15. QED
    BY <1>3, <1>4, <1>5, <1>6, <1>7, <1>8, <1>9, <1>10, <1>11, <1>12, <1>13, <1>14 DEF Next

\* A log and the same log with one more line.
LEMMA Appended ==
  ASSUME LoopInv, NEW s \in Session, NEW line \in Line,
         log' = [log EXCEPT ![s] = Append(@, line)]
  PROVE  LET n == Len(log[s]) IN
         /\ n \in Nat /\ DOMAIN log[s] = 1..n /\ DOMAIN log'[s] = 1..(n + 1)
         /\ \A i \in 1..n : log[s][i] \in Line /\ log'[s][i] = log[s][i]
         /\ log'[s][n + 1] = line /\ Len(log'[s]) = n + 1 /\ log'[s] # <<>>
         /\ \A t \in Session \ {s} : log'[t] = log[t]
  <1>1. log \in [Session -> Seq(Line)]
    BY DEF LoopInv, DataTyped
  <1>2. log'[s] = Append(log[s], line) /\ \A t \in Session \ {s} : log'[t] = log[t]
    BY <1>1
  <1>3. QED
    BY <1>1, <1>2

LEMMA SequencedKeeps ==
  ASSUME LoopInv, [Next]_vars, NEW t \in Session, Sequenced(t)
  PROVE  Sequenced(t)'
  <1>1. /\ log \in [Session -> Seq(Line)] /\ now \in Nat
        /\ DOMAIN log[t] = 1..Len(log[t]) /\ Len(log[t]) \in Nat
        /\ \A i \in DOMAIN log[t] : log[t][i] \in Line /\ log[t][i].ts \in Nat
    BY LineTimes, Marks DEF LoopInv, LoopTyped, DataTyped
  <1>2. now' \in Nat
    <2>1. LoopInv'
      BY LoopNext
    <2>2. QED
      BY <2>1, Marks DEF LoopInv, LoopTyped
  <1>3. CASE Quiet
    <2>1. /\ log'[t] = log[t] /\ (Open(t)' => Open(t)) /\ now <= now'
          /\ (phase'[t] # "idle" => phase[t] # "idle")
      BY <1>3 DEF Quiet
    <2>2. \A i \in DOMAIN log[t] : log[t][i].ts <= now'
      BY <1>1, <1>2, <2>1 DEF Sequenced
    <2>3. QED
      BY <2>1, <2>2 DEF Sequenced
  <1>4. ASSUME NEW s \in Session, NEW line \in Line, Writes(s, line), s # t
        PROVE  Sequenced(t)'
    <2>1. log'[t] = log[t] /\ now' = now /\ phase'[t] = phase[t] /\ state'[t] = state[t]
      BY <1>1, <1>4 DEF Writes
    <2>2. QED
      BY <2>1 DEF Sequenced, Open
  <1>5. ASSUME NEW line \in Line, Writes(t, line)
        PROVE  Sequenced(t)'
    <2> DEFINE n == Len(log[t])
    <2>1. /\ n \in Nat /\ DOMAIN log[t] = 1..n /\ DOMAIN log'[t] = 1..(n + 1)
          /\ \A i \in 1..n : log[t][i] \in Line /\ log'[t][i] = log[t][i]
          /\ log'[t][n + 1] = line /\ Len(log'[t]) = n + 1 /\ log'[t] # <<>>
      BY <1>5, Appended DEF Writes
    <2>2. /\ line.ts = now /\ now' = now /\ (phase[t] # "idle" \/ line.ev = "query.start")
          /\ (phase'[t] = "idle" \/ line.ev # "query.end")
      BY <1>5 DEF Writes
    <2>3. \A i \in 1..(n + 1) : i \in 1..n \/ i = n + 1
      BY <2>1
    <2>4. log[t] = <<>> <=> n = 0
      BY <1>1
    <2> HIDE DEF n
    <2>5. \A i \in 1..(n + 1) : log'[t][i].ts <= now'
      BY <1>1, <2>1, <2>2, <2>3 DEF Sequenced
    <2>6. \A i, j \in 1..(n + 1) : i <= j => log'[t][i].ts <= log'[t][j].ts
      <3>1. SUFFICES ASSUME NEW i \in 1..(n + 1), NEW j \in 1..(n + 1), i <= j
                     PROVE  log'[t][i].ts <= log'[t][j].ts
        OBVIOUS
      <3>2. CASE j = n + 1
        BY <2>1, <2>2, <2>5, <3>2
      <3>3. CASE j \in 1..n
        <4>1. i \in 1..n
          BY <2>1, <3>1, <3>3
        <4>2. QED
          BY <2>1, <3>1, <3>3, <4>1 DEF Sequenced
      <3>4. QED
        BY <2>3, <3>2, <3>3
    <2>7. log'[t][1].ev = "query.start"
      <3>1. CASE n = 0
        <4>1. phase[t] = "idle"
          BY <2>4, <3>1 DEF Sequenced
        <4>2. QED
          BY <2>1, <2>2, <3>1, <4>1
      <3>2. CASE n # 0
        <4>1. 1 \in 1..n
          BY <2>1, <3>2
        <4>2. QED
          BY <2>1, <2>4, <3>2, <4>1 DEF Sequenced
      <3>3. QED
        BY <3>1, <3>2
    <2>8. phase'[t] # "idle" => log'[t][n + 1].ev # "query.end"
      BY <2>1, <2>2
    <2>9. ASSUME NEW i \in 1..(n + 1), log'[t][i].ev = "query.end", i + 1 \in 1..(n + 1)
          PROVE  log'[t][i + 1].ev = "query.start"
      <3>1. i \in 1..n
        BY <2>1, <2>9
      <3>2. CASE i = n
        <4>1. phase[t] = "idle"
          BY <2>1, <2>9, <3>1, <3>2 DEF Sequenced, n
        <4>2. QED
          BY <2>1, <2>2, <3>2, <4>1
      <3>3. CASE i # n
        <4>1. i + 1 \in 1..n
          BY <2>1, <3>1, <3>3
        <4>2. QED
          BY <2>1, <2>9, <3>1, <4>1 DEF Sequenced
      <3>4. QED
        BY <3>2, <3>3
    <2>10. QED
      BY <2>1, <2>5, <2>6, <2>7, <2>8, <2>9 DEF Sequenced
  <1>6. QED
    BY <1>3, <1>4, <1>5, LogSteps

SequencedInv == \A s \in Session : Sequenced(s)

LEMMA SequencedInvariant == Spec => []SequencedInv
  <1>1. Init => SequencedInv
    BY DEF Init, SequencedInv, Sequenced, Open
  <1>2. LoopInv /\ SequencedInv /\ [Next]_vars => SequencedInv'
    BY SequencedKeeps DEF SequencedInv
  <1>3. QED
    BY <1>1, <1>2, LoopInvariant, PTL DEF Spec

\* The window that trimming keeps has every line of every log in it, those of a session that
\* never ended included, but for a session that was asked again.
THEOREM WindowKeepsWork == Spec => []WindowCoversWork
  <1> DEFINE starts == UNION {Stamps(s, Lines(s, "query.start")) : s \in Session}
             ends == UNION {Stamps(s, Lines(s, "query.end")) \cup Unended(s) : s \in Session}
             n(s) == Len(log[s])
  <1>1. LoopInv /\ SequencedInv => WindowCoversWork
    <2>1. SUFFICES ASSUME LoopInv, SequencedInv, NEW s \in Started, Once(s) \/ s \notin Ended
                   PROVE  Stamps(s, DOMAIN log[s]) \subseteq Window
      BY DEF WindowCoversWork
    <2>2. ASSUME NEW t \in Session
          PROVE  /\ n(t) \in Nat /\ DOMAIN log[t] = 1..n(t)
                 /\ \A i \in 1..n(t) : log[t][i].ts \in 0..now
      <3>1. log[t] \in Seq(Line) /\ Sequenced(t) /\ now \in Nat
        BY <2>1, Marks DEF LoopInv, LoopTyped, DataTyped, SequencedInv
      <3>2. n(t) \in Nat /\ DOMAIN log[t] = 1..n(t) /\ \A i \in 1..n(t) : log[t][i] \in Line
        BY <3>1
      <3>3. ASSUME NEW i \in 1..n(t)
            PROVE  log[t][i].ts \in 0..now
        <4>1. log[t][i].ts \in Nat /\ log[t][i].ts <= now
          BY <3>1, <3>2, LineTimes DEF Sequenced
        <4>2. QED
          BY <3>1, <4>1
      <3>4. QED
        BY <3>2, <3>3
    <2>3. now \in Nat /\ s \in Session /\ Sequenced(s) /\ Lines(s, "query.start") # {}
      BY <2>1, Marks DEF LoopInv, LoopTyped, SequencedInv, Started
    <2>4. n(s) >= 1 /\ 1 \in DOMAIN log[s] /\ n(s) \in DOMAIN log[s] /\ log[s] # <<>>
      <3>1. DOMAIN log[s] # {}
        BY <2>3 DEF Lines
      <3>2. QED
        BY <2>2, <2>3, <3>1
    <2>5. log[s][1].ev = "query.start" /\ 1 \in Lines(s, "query.start")
      BY <2>3, <2>4 DEF Sequenced, Lines
    <2>6. starts \subseteq 0..now /\ ends \subseteq 0..now
      <3>1. ASSUME NEW t \in Session
            PROVE  /\ Stamps(t, Lines(t, "query.start")) \subseteq 0..now
                   /\ Stamps(t, Lines(t, "query.end")) \subseteq 0..now
                   /\ Unended(t) \subseteq 0..now
        <4>1. \A ev : Lines(t, ev) \subseteq DOMAIN log[t]
          BY DEF Lines
        <4>2. \A i \in DOMAIN log[t] : log[t][i].ts \in 0..now
          BY <2>2
        <4>3. CASE t \in Started \ Ended
          <5>1. DOMAIN log[t] # {}
            BY <4>3 DEF Started, Lines
          <5>2. n(t) \in DOMAIN log[t]
            BY <2>2, <5>1
          <5>3. QED
            BY <4>1, <4>2, <4>3, <5>2 DEF Stamps, Unended, Last
        <4>4. CASE t \notin Started \ Ended
          BY <4>1, <4>2, <4>4 DEF Stamps, Unended
        <4>5. QED
          BY <4>3, <4>4
      <3>2. QED
        BY <3>1
    <2>7. log[s][1].ts \in starts
      BY <2>3, <2>5 DEF Stamps
    <2>8. log[s][n(s)].ts \in ends
      <3>1. CASE s \in Ended
        <4>1. PICK e \in Lines(s, "query.end") : TRUE
          BY <3>1 DEF Ended
        <4>2. e \in 1..n(s) /\ log[s][e].ev = "query.end"
          BY <2>2, <2>3, <4>1 DEF Lines
        <4>3. CASE e = n(s)
          BY <2>3, <4>1, <4>3 DEF Stamps
        <4>4. CASE e # n(s)
          <5>1. e + 1 \in 1..n(s) /\ e + 1 # 1
            BY <2>2, <2>3, <4>2, <4>4
          <5>2. log[s][e + 1].ev = "query.start"
            BY <2>2, <2>3, <4>2, <5>1 DEF Sequenced
          <5>3. e + 1 \in Lines(s, "query.start")
            BY <2>2, <2>3, <5>1, <5>2 DEF Lines
          <5>4. IsFiniteSet(Lines(s, "query.start"))
            <6>1. IsFiniteSet(1..n(s)) /\ n(s) \in Nat
              BY <2>2, <2>3, FS_Interval
            <6>2. Lines(s, "query.start") \in SUBSET (1..n(s))
              BY <2>2, <2>3 DEF Lines
            <6>3. QED
              BY <6>1, <6>2, FS_Subset
          <5>5. ~Once(s)
            <6>1. SUFFICES ASSUME Once(s) PROVE FALSE
              OBVIOUS
            <6>2. \E x : Lines(s, "query.start") = {x}
              BY <5>4, <6>1, FS_Singleton DEF Once
            <6>3. QED
              BY <2>5, <5>1, <5>3, <6>2
          <5>6. QED
            BY <2>1, <3>1, <5>5
        <4>5. QED
          BY <4>3, <4>4
      <3>2. CASE s \notin Ended
        <4>1. Unended(s) = {log[s][n(s)].ts}
          BY <2>1, <3>2 DEF Unended, Last
        <4>2. QED
          BY <2>3, <4>1
      <3>3. QED
        BY <3>1, <3>2
    <2>9. Min(starts) \in starts /\ Min(starts) <= log[s][1].ts
      <3> HIDE DEF starts
      <3>1. starts \subseteq Nat /\ starts # {}
        BY <2>6, <2>7
      <3>2. QED
        BY <2>7, <3>1, MinIsLeast
    <2>10. Max(ends) \in ends /\ log[s][n(s)].ts <= Max(ends)
      <3> HIDE DEF ends
      <3>1. QED
        BY <2>3, <2>6, <2>8, MaxIsGreatest
    <2>11. Window = Min(starts)..Max(ends)
      BY <2>8 DEF Window
    <2>12. ASSUME NEW i \in DOMAIN log[s]
           PROVE  log[s][i].ts \in Min(starts)..Max(ends)
      <3> HIDE DEF starts, ends
      <3>1. 1 <= i /\ i <= n(s) /\ i \in 1..n(s)
        BY <2>2, <2>3, <2>12
      <3>2. log[s][1].ts <= log[s][i].ts /\ log[s][i].ts <= log[s][n(s)].ts
        BY <2>3, <2>4, <3>1 DEF Sequenced
      <3>3. /\ log[s][1].ts \in 0..now /\ log[s][i].ts \in 0..now /\ log[s][n(s)].ts \in 0..now
            /\ Min(starts) \in 0..now /\ Max(ends) \in 0..now
        BY <2>2, <2>3, <2>4, <2>6, <2>9, <2>10, <3>1
      <3>4. QED
        BY <2>3, <2>9, <2>10, <3>2, <3>3
    <2>13. QED
      BY <2>11, <2>12 DEF Stamps
  <1>2. QED
    BY <1>1, LoopInvariant, SequencedInvariant, PTL

-------------------------------------------------------------------------------
(* The turns of a session that was asked once and did not compact *)

\* The kinds of line a turn is measured by.
Measured == {"turn.start", "turn.end", "llm.end", "tool.end"}

OneQuery(s) == \A i, j \in Lines(s, "query.start") : i = j
Clean(s) == OneQuery(s) /\ ~Compacted(s)

\* The ticks of a step's calls that ended, call by call, and those of at least one; and
\* with the calls under way.
Moment == 0..(MaxTime - 1)
During(e, m) == e.ts - e.duration <= m /\ m < e.ts
Pairs(s, k) == {r \in Events(s, "tool.end", k) \X Moment : During(log[s][r[1]], r[2])}
Busy(s, k) == {m \in Moment : \E i \in Events(s, "tool.end", k) : During(log[s][i], m)}
BusyCalls(s) == {m \in Moment : m < now /\ \E c \in running[s] : state[s].toolStart[c].ms <= m}
BusyNow(s, k) == Busy(s, k) \cup BusyCalls(s)

\* Every call ends once, within the time there is, and is a part of the messages.
CallLines(s) ==
  /\ \A i, j \in Lines(s, "tool.end") : log[s][i].call = log[s][j].call => i = j
  /\ \A i \in Lines(s, "tool.end") :
       /\ log[s][i].call \notin running[s]
       /\ \E j \in DOMAIN parts[s] : parts[s][j].call = log[s][i].call
       /\ log[s][i].ts - log[s][i].duration >= 0

\* The turn the loop is in: it began once, and what went on since is in the model's time
\* or in that of the tools.
Begun(s, k) ==
  /\ \E i \in Events(s, "turn.start", k) : log[s][i].ts = state[s].turnStart[k]
  /\ \A i, j \in Events(s, "turn.start", k) : i = j
  /\ Events(s, "turn.end", k) = {}
  /\ state[s].toolWall[k] = Cardinality(Pairs(s, k))
Streaming(s, k) ==
  /\ Events(s, "llm.end", k) = {} /\ state[s].llmEnd[k] = None
  /\ now - state[s].turnStart[k] = spent[s][k].model + Cardinality(BusyNow(s, k))
Settling(s, k) ==
  /\ \A i \in Events(s, "llm.end", k) :
       /\ log[s][i].ts = state[s].llmEnd[k]
       /\ log[s][i].ts - state[s].turnStart[k] = spent[s][k].model + Cardinality(Busy(s, k))
  /\ \A i, j \in Events(s, "llm.end", k) : i = j
  /\ Events(s, "llm.end", k) = {} => state[s].llmEnd[k] = None

\* A turn that ended.
Over(s, k) ==
  /\ Events(s, "turn.end", k) # {} => /\ \A i, j \in Events(s, "turn.start", k) : i = j
                                      /\ \A i, j \in Events(s, "llm.end", k) : i = j
                                      /\ \A i, j \in Events(s, "turn.end", k) : i = j
  /\ \A e \in Events(s, "turn.end", k) : log[s][e].tool = Cardinality(Pairs(s, k))
  /\ \A e \in Events(s, "turn.end", k), b \in Events(s, "turn.start", k),
        l \in Events(s, "llm.end", k) :
       /\ log[s][l].ts - log[s][b].ts = spent[s][k].model + Cardinality(Busy(s, k))
       /\ log[s][e].llmTrue = Larger(0, log[s][l].ts - log[s][b].ts - log[s][e].tool)

\* Steps that are still to come.
Ahead(s) ==
  \A k \in Steps : k > step[s] =>
    /\ \A ev \in Measured : Events(s, ev, k) = {}
    /\ phase[s] # "idle" => state[s].llmEnd[k] = None

Anchored(s) ==
  /\ InTurn(s) => Begun(s, step[s])
  /\ phase[s] \in {"turn", "stream"} => Streaming(s, step[s])
  /\ phase[s] = "settle" => Settling(s, step[s])
  /\ phase[s] # "compact"
  /\ phase[s] = "loop" /\ step[s] > 0 => Events(s, "turn.end", step[s]) # {}
  /\ Ahead(s)
  /\ \A k \in Steps : Over(s, k)
Turned(s) == CallLines(s) /\ (Clean(s) => Anchored(s))

LEMMA Extended ==
  ASSUME LoopInv, NEW s \in Session, NEW line \in Line,
         log' = [log EXCEPT ![s] = Append(@, line)]
  PROVE  /\ \A ev : Lines(s, ev)' =
              Lines(s, ev) \cup (IF line.ev = ev THEN {Len(log[s]) + 1} ELSE {})
         /\ \A ev, k : Events(s, ev, k)' =
              Events(s, ev, k) \cup
                (IF line.ev = ev /\ line.step = k THEN {Len(log[s]) + 1} ELSE {})
  <1> DEFINE n == Len(log[s])
  <1>1. /\ n \in Nat /\ DOMAIN log[s] = 1..n /\ DOMAIN log'[s] = 1..(n + 1)
        /\ \A i \in 1..n : log[s][i] \in Line /\ log'[s][i] = log[s][i]
        /\ log'[s][n + 1] = line
    BY Appended
  <1>2. \A i : i \in 1..(n + 1) <=> i \in 1..n \/ i = n + 1
    BY <1>1
  <1>3. n + 1 \notin 1..n
    BY <1>1
  <1> HIDE DEF n
  <1>4. ASSUME NEW ev
        PROVE  Lines(s, ev)' = Lines(s, ev) \cup (IF line.ev = ev THEN {n + 1} ELSE {})
    <2>1. Lines(s, ev)' = {i \in 1..(n + 1) : log'[s][i].ev = ev}
      BY <1>1 DEF Lines
    <2>2. Lines(s, ev) = {i \in 1..n : log[s][i].ev = ev}
      BY <1>1 DEF Lines
    <2>3. QED
      BY <1>1, <1>2, <2>1, <2>2
  <1>5. ASSUME NEW ev, NEW k
        PROVE  Events(s, ev, k)' =
                 Events(s, ev, k) \cup (IF line.ev = ev /\ line.step = k THEN {n + 1} ELSE {})
    <2>1. Events(s, ev, k)' = {i \in Lines(s, ev)' : log'[s][i].step = k}
      BY DEF Events
    <2>2. Lines(s, ev) \subseteq 1..n
      BY <1>1 DEF Lines
    <2>3. \A i \in Lines(s, ev) : log'[s][i] = log[s][i]
      BY <1>1, <2>2
    <2>4. QED
      BY <1>1, <1>4, <2>1, <2>3 DEF Events
  <1>6. QED
    BY <1>4, <1>5 DEF n

LEMMA EventsIn ==
  ASSUME NEW s \in Session, NEW ev, NEW k
  PROVE  /\ Events(s, ev, k) \subseteq Lines(s, ev)
         /\ Lines(s, ev) \subseteq DOMAIN log[s]
  BY DEF Events, Lines

\* The fields of the lines a turn is measured by.
LEMMA MeasuredLines ==
  ASSUME LoopInv, NEW s \in Session, NEW ev, NEW i \in Lines(s, ev)
  PROVE  /\ log[s][i] \in Line /\ log[s][i].ev = ev /\ i \in Nat /\ log[s][i].ts \in Duration
         /\ ev = "tool.end" => log[s][i] \in ToolEndLines
         /\ ev = "turn.end" => log[s][i] \in TurnEndLines
  <1>1. log[s][i] \in Line /\ log[s][i].ev = ev /\ i \in Nat
    BY DEF LoopInv, DataTyped, Lines
  <1>2. log[s][i].ts \in Duration
    BY <1>1 DEF Line, QueryStartLines, QueryEndLines, MarkLines, TurnEndLines, LlmEndLines,
           ToolStartLines, ToolEndLines
  <1>3. ev = "tool.end" => log[s][i] \in ToolEndLines
    BY <1>1 DEF Line, QueryStartLines, QueryEndLines, MarkLines, TurnEndLines, LlmEndLines,
           ToolStartLines
  <1>4. ev = "turn.end" => log[s][i] \in TurnEndLines
    BY <1>1 DEF Line, QueryStartLines, QueryEndLines, MarkLines, ToolEndLines, LlmEndLines,
           ToolStartLines
  <1>5. QED
    BY <1>1, <1>2, <1>3, <1>4

LEMMA FiniteEvents ==
  ASSUME LoopInv, NEW s \in Session, NEW k
  PROVE  /\ IsFiniteSet(Pairs(s, k)) /\ Cardinality(Pairs(s, k)) \in Nat
         /\ IsFiniteSet(Busy(s, k)) /\ Cardinality(Busy(s, k)) \in Nat
         /\ IsFiniteSet(BusyNow(s, k)) /\ Cardinality(BusyNow(s, k)) \in Nat
         /\ IsFiniteSet(Moment)
  <1>1. IsFiniteSet(Moment)
    BY Numbers, FS_Interval DEF Moment
  <1>2. IsFiniteSet(Events(s, "tool.end", k))
    <2>1. Len(log[s]) \in Nat /\ DOMAIN log[s] = 1..Len(log[s])
      BY DEF LoopInv, DataTyped
    <2>2. IsFiniteSet(1..Len(log[s]))
      BY <2>1, FS_Interval
    <2>3. Events(s, "tool.end", k) \in SUBSET (1..Len(log[s]))
      BY <2>1, EventsIn
    <2>4. QED
      BY <2>2, <2>3, FS_Subset
  <1>3. IsFiniteSet(Events(s, "tool.end", k) \X Moment)
    BY <1>1, <1>2, FS_Product
  <1>4. Pairs(s, k) \in SUBSET (Events(s, "tool.end", k) \X Moment)
    BY DEF Pairs
  <1>5. Busy(s, k) \in SUBSET Moment /\ BusyNow(s, k) \in SUBSET Moment
    BY DEF Busy, BusyNow, BusyCalls
  <1>6. QED
    BY <1>1, <1>3, <1>4, <1>5, FS_Subset, FS_CardinalityType

\* Steps of the session that do not touch the lines of step k.
LEMMA StepKept ==
  ASSUME NEW s \in Session, NEW k \in Steps,
         \A ev \in Measured : Events(s, ev, k)' = Events(s, ev, k),
         \A i \in DOMAIN log[s] : log'[s][i] = log[s][i]
  PROVE  /\ Pairs(s, k)' = Pairs(s, k) /\ Busy(s, k)' = Busy(s, k)
         /\ spent'[s][k].model = spent[s][k].model /\ Over(s, k) => Over(s, k)'
  <1>1. \A ev \in Measured : \A i \in Events(s, ev, k) : log'[s][i] = log[s][i]
    BY EventsIn
  <1>2. Events(s, "tool.end", k)' = Events(s, "tool.end", k)
        /\ \A i \in Events(s, "tool.end", k) : log'[s][i] = log[s][i]
    BY <1>1 DEF Measured
  <1>3. Pairs(s, k)' = Pairs(s, k)
    <2>1. Pairs(s, k)' = {r \in Events(s, "tool.end", k)' \X Moment : During(log'[s][r[1]], r[2])}
      BY DEF Pairs, During, Moment
    <2>2. Pairs(s, k)' =
            {r \in Events(s, "tool.end", k) \X Moment : During(log'[s][r[1]], r[2])}
      BY <1>2, <2>1, Zenon
    <2>3. \A r \in Events(s, "tool.end", k) \X Moment : log'[s][r[1]] = log[s][r[1]]
      <3>1. \A r \in Events(s, "tool.end", k) \X Moment : r[1] \in Events(s, "tool.end", k)
        OBVIOUS
      <3>2. QED
        BY <1>2, <3>1, Zenon
    <2>4. QED
      BY <2>2, <2>3, Zenon DEF Pairs
  <1>4. Busy(s, k)' = Busy(s, k)
    <2>1. Busy(s, k)' =
            {m \in Moment : \E i \in Events(s, "tool.end", k)' : During(log'[s][i], m)}
      BY DEF Busy, During, Moment
    <2>2. QED
      BY <1>2, <2>1 DEF Busy
  <1>5. spent'[s][k].model = spent[s][k].model /\ Over(s, k) => Over(s, k)'
    BY <1>1, <1>3, <1>4 DEF Over, Measured
  <1>6. QED
    BY <1>3, <1>4, <1>5

\* A log that only grows was clean before if it is clean after.
LEMMA CleanBefore ==
  ASSUME NEW s \in Session, Clean(s)',
         \A i \in DOMAIN log[s] : i \in DOMAIN log'[s] /\ log'[s][i] = log[s][i]
  PROVE  Clean(s)
  <1>1. \A ev : Lines(s, ev) \subseteq Lines(s, ev)'
    BY DEF Lines
  <1>2. \A ev, k : Events(s, ev, k) \subseteq Events(s, ev, k)'
    BY <1>1 DEF Events, Lines
  <1>3. OneQuery(s)
    BY <1>1 DEF Clean, OneQuery
  <1>4. ~Compacted(s)
    BY <1>2 DEF Clean, Compacted
  <1>5. QED
    BY <1>3, <1>4 DEF Clean

-------------------------------------------------------------------------------
(* What AnchoredIsTrue needs of a turn that ended *)

\* Ticks with a call under way, against the sum of the calls.
LEMMA Overlaps ==
  ASSUME LoopInv, NEW s \in Session, CallLines(s), NEW k
  PROVE  /\ Cardinality(Busy(s, k)) <= Cardinality(Pairs(s, k))
         /\ (\A a, b \in ToolLines(s, k) :
               a # b => a.ts <= b.ts - b.duration \/ b.ts <= a.ts - a.duration)
            => Cardinality(Busy(s, k)) = Cardinality(Pairs(s, k))
  <1> DEFINE f == [r \in Pairs(s, k) |-> r[2]]
  <1>1. f \in Surjection(Pairs(s, k), Busy(s, k))
    <2>1. f \in [Pairs(s, k) -> Busy(s, k)]
      BY DEF Pairs, Busy
    <2>2. ASSUME NEW m \in Busy(s, k)
          PROVE  \E r \in Pairs(s, k) : f[r] = m
      <3>1. PICK i \in Events(s, "tool.end", k) : During(log[s][i], m)
        BY <2>2 DEF Busy
      <3>2. <<i, m>> \in Pairs(s, k)
        BY <2>2, <3>1 DEF Pairs, Busy
      <3>3. QED
        BY <3>2
    <2>3. QED
      BY <2>1, <2>2 DEF Surjection
  <1>2. IsFiniteSet(Pairs(s, k))
    BY FiniteEvents
  <1>3. /\ Cardinality(Busy(s, k)) <= Cardinality(Pairs(s, k))
        /\ Cardinality(Busy(s, k)) = Cardinality(Pairs(s, k))
             <=> f \in Injection(Pairs(s, k), Busy(s, k))
    BY <1>1, <1>2, FS_Surjection
  <1>4. ASSUME \A a, b \in ToolLines(s, k) :
                 a # b => a.ts <= b.ts - b.duration \/ b.ts <= a.ts - a.duration
        PROVE  f \in Injection(Pairs(s, k), Busy(s, k))
    <2>1. ASSUME NEW r \in Pairs(s, k), NEW q \in Pairs(s, k), f[r] = f[q]
          PROVE  r = q
      <3> DEFINE a == log[s][r[1]]
                 b == log[s][q[1]]
                 m == r[2]
      <3>1. /\ r[1] \in Events(s, "tool.end", k) /\ q[1] \in Events(s, "tool.end", k)
            /\ m \in Moment /\ q[2] = m /\ During(a, m) /\ During(b, m)
            /\ r = <<r[1], r[2]>> /\ q = <<q[1], q[2]>>
        BY <2>1 DEF Pairs
      <3>2. a \in ToolLines(s, k) /\ b \in ToolLines(s, k)
        BY <3>1 DEF ToolLines
      <3>3. /\ a \in ToolEndLines /\ b \in ToolEndLines
            /\ r[1] \in Lines(s, "tool.end") /\ q[1] \in Lines(s, "tool.end")
        BY <3>1, MeasuredLines DEF Events
      <3>4. a.ts \in Int /\ b.ts \in Int /\ a.duration \in Int /\ b.duration \in Int /\ m \in Int
        BY <3>1, <3>3, Marks DEF ToolEndLines, Moment
      <3>5. a = b
        <4>1. ~(a.ts <= b.ts - b.duration) /\ ~(b.ts <= a.ts - a.duration)
          BY <3>1, <3>4 DEF During
        <4>2. QED
          BY <1>4, <3>2, <4>1
      <3>6. r[1] = q[1]
        BY <3>3, <3>5 DEF CallLines
      <3>7. QED
        BY <3>1, <3>6
    <2>2. QED
      BY <1>1, <2>1 DEF Injection, IsInjective, Surjection
  <1>5. QED
    BY <1>3, <1>4

\* A field of a line that is alone of its kind in its step.
LEMMA OnlyOne ==
  ASSUME NEW s, NEW lines, NEW i \in lines, i \in Nat, \A j \in lines : j = i
  PROVE  lines # {} /\ Max(lines) = i
  <1>1. lines = {i}
    OBVIOUS
  <1>2. Max({i}) = i
    BY DEF Max
  <1>3. QED
    BY <1>1, <1>2

TurnedInv == \A s \in Session : Turned(s)

LEMMA AnchoredTurns ==
  ASSUME LoopInv, TurnedInv
  PROVE  AnchoredIsTrue
  <1>1. SUFFICES ASSUME NEW r \in Decomposed({}), Once(r[1]), ~Compacted(r[1]),
                        LlmTrue(Turn(r[1], r[2])) # None
                 PROVE  LET t == Turn(r[1], r[2]) IN
                        /\ LlmTrue(t) <= spent[r[1]][r[2]].model
                        /\ Apart(t) => LlmTrue(t) = spent[r[1]][r[2]].model
                        /\ LastOf(r[1], Events(r[1], "turn.end", r[2]), LAMBDA e : e.llmTrue)
                             = LlmTrue(t)
    BY DEF AnchoredIsTrue
  <1> DEFINE s == r[1]
             k == r[2]
             t == Turn(s, k)
             ends == Events(s, "turn.end", k)
             starts == Events(s, "turn.start", k)
             llms == Events(s, "llm.end", k)
             model == spent[s][k].model
  <1>2. s \in Session /\ k \in Steps /\ t.duration # None
    BY DEF Decomposed
  <1>3. Clean(s)
    <2>1. IsFiniteSet(Lines(s, "query.start"))
      <3>1. Len(log[s]) \in Nat /\ DOMAIN log[s] = 1..Len(log[s])
        BY <1>2 DEF LoopInv, DataTyped
      <3>2. Lines(s, "query.start") \in SUBSET (1..Len(log[s]))
        BY <3>1 DEF Lines
      <3>3. IsFiniteSet(1..Len(log[s]))
        BY <3>1, FS_Interval
      <3>4. QED
        BY <3>2, <3>3, FS_Subset
    <2>2. \E x : Lines(s, "query.start") = {x}
      BY <1>1, <2>1, FS_Singleton DEF Once
    <2>3. QED
      BY <1>1, <2>2 DEF Clean, OneQuery
  <1>4. CallLines(s) /\ Over(s, k)
    BY <1>2, <1>3 DEF TurnedInv, Turned, Anchored
  <1>5. /\ t.start = LastOf(s, starts, Ts)
        /\ t.llmEnd = LastOf(s, llms, Ts)
        /\ t.duration = LastOf(s, ends, LAMBDA e : e.duration)
        /\ t.tool = LastOf(s, ends, LAMBDA e : e.tool)
        /\ t.tools = ToolLines(s, k)
    BY DEF Turn
  <1>6. t.start # None /\ t.llmEnd # None
    BY <1>1 DEF LlmTrue
  <1>7. ends # {} /\ starts # {} /\ llms # {}
    BY <1>2, <1>5, <1>6 DEF LastOf
  <1>8. PICK e \in ends, b \in starts, l \in llms : TRUE
    BY <1>7
  <1>9. /\ \A j \in ends : j = e
        /\ \A j \in starts : j = b
        /\ \A j \in llms : j = l
        /\ log[s][e].tool = Cardinality(Pairs(s, k))
        /\ log[s][l].ts - log[s][b].ts = model + Cardinality(Busy(s, k))
        /\ log[s][e].llmTrue = Larger(0, log[s][l].ts - log[s][b].ts - log[s][e].tool)
    BY <1>4, <1>8 DEF Over
  <1>10. e \in Nat /\ b \in Nat /\ l \in Nat /\ log[s][l].ts \in Nat /\ log[s][b].ts \in Nat
    BY <1>2, <1>8, MeasuredLines, Marks DEF Events
  <1>11. Max(ends) = e /\ Max(starts) = b /\ Max(llms) = l
    BY <1>8, <1>9, <1>10, OnlyOne
  <1>12. /\ t.start = log[s][b].ts /\ t.llmEnd = log[s][l].ts /\ t.tool = log[s][e].tool
         /\ LastOf(s, ends, LAMBDA x : x.llmTrue) = log[s][e].llmTrue
    BY <1>5, <1>7, <1>11 DEF LastOf, Ts
  <1>13. LlmTrue(t) = Larger(0, log[s][l].ts - log[s][b].ts - log[s][e].tool)
    BY <1>6, <1>12 DEF LlmTrue
  <1> DEFINE pairs == Cardinality(Pairs(s, k))
             busy == Cardinality(Busy(s, k))
  <1>14. pairs \in Nat /\ busy \in Nat /\ busy <= pairs
    BY <1>2, <1>4, FiniteEvents, Overlaps
  <1>15. model \in Nat
    BY <1>2 DEF LoopInv, DataTyped, Tally
  <1>16. Apart(t) => busy = pairs
    BY <1>2, <1>4, <1>5, Overlaps DEF Apart
  <1>17. LlmTrue(t) = Larger(0, model + busy - pairs)
    <2> DEFINE x == log[s][l].ts - log[s][b].ts - log[s][e].tool
    <2>1. x = model + busy - pairs
      BY <1>9, <1>10, <1>14, <1>15
    <2>2. LlmTrue(t) = Larger(0, x)
      BY <1>13
    <2> HIDE DEF x, model, busy, pairs, t
    <2>3. QED
      BY <2>1, <2>2
  <1> HIDE DEF pairs, busy, model, t
  <1>18. LlmTrue(t) <= model /\ (busy = pairs => LlmTrue(t) = model)
    BY <1>14, <1>15, <1>17 DEF Larger
  <1>19. QED
    BY <1>9, <1>12, <1>13, <1>16, <1>18 DEF t, model

-------------------------------------------------------------------------------
(* Every action keeps TurnedInv *)

\* The log of s keeps its lines.
Grows(s) == \A i \in DOMAIN log[s] : i \in DOMAIN log'[s] /\ log'[s][i] = log[s][i]

LEMMA CallLinesKept ==
  ASSUME NEW s \in Session, CallLines(s), Grows(s),
         Lines(s, "tool.end")' = Lines(s, "tool.end"), running'[s] \subseteq running[s],
         parts'[s] = parts[s]
  PROVE  CallLines(s)'
  <1>1. \A i \in Lines(s, "tool.end") : log'[s][i] = log[s][i]
    BY DEF Grows, Lines
  <1>2. QED
    BY <1>1 DEF CallLines

\* A session none of whose measured lines changes, and that neither begins nor ends a turn.
LEMMA Still ==
  ASSUME LoopInv, NEW s \in Session, Turned(s), Grows(s),
         Lines(s, "tool.end")' = Lines(s, "tool.end"),
         \A ev \in Measured, k \in Steps : Events(s, ev, k)' = Events(s, ev, k),
         now' = now, step'[s] = step[s], running'[s] = running[s], parts'[s] = parts[s],
         spent'[s] = spent[s],
         \/ phase'[s] = phase[s]
         \/ phase'[s] = "idle"
         \/ phase[s] = "turn" /\ phase'[s] = "stream"
         \/ phase[s] \in {"turn", "stream"} /\ phase'[s] = "settle",
         phase'[s] # "idle" =>
           /\ state'[s].turnStart = state[s].turnStart /\ state'[s].toolWall = state[s].toolWall
           /\ state'[s].llmEnd = state[s].llmEnd /\ state'[s].toolStart = state[s].toolStart
  PROVE  Turned(s)'
  <1>1. CallLines(s)'
    BY CallLinesKept DEF Turned
  <1>2. SUFFICES ASSUME Clean(s)' PROVE Anchored(s)'
    BY <1>1 DEF Turned
  <1>3. Anchored(s)
    <2>1. Clean(s)
      BY <1>2, CleanBefore DEF Grows
    <2>2. QED
      BY <2>1 DEF Turned
  <1>4. ASSUME NEW k \in Steps
        PROVE  /\ Pairs(s, k)' = Pairs(s, k) /\ Busy(s, k)' = Busy(s, k) /\ Over(s, k)'
               /\ \A ev \in Measured : \A i \in Events(s, ev, k) : log'[s][i] = log[s][i]
    <2>1. \A i \in DOMAIN log[s] : log'[s][i] = log[s][i]
      BY DEF Grows
    <2>2. Pairs(s, k)' = Pairs(s, k) /\ Busy(s, k)' = Busy(s, k) /\ (Over(s, k) => Over(s, k)')
      BY <2>1, StepKept
    <2>3. \A ev \in Measured : \A i \in Events(s, ev, k) : log'[s][i] = log[s][i]
      BY <2>1, EventsIn
    <2>4. QED
      BY <1>3, <2>2, <2>3 DEF Anchored
  <1>5. phase'[s] # "idle" => BusyCalls(s)' = BusyCalls(s)
    BY DEF BusyCalls, Moment
  <1>6. step[s] \in Steps
    BY DEF LoopInv, LoopTyped
  <1>7. PICK k \in Steps : k = step[s] /\ step'[s] = k
    BY <1>6
  <1>8. Anchored(s) <=>
          /\ InTurn(s) => Begun(s, k)
          /\ phase[s] \in {"turn", "stream"} => Streaming(s, k)
          /\ phase[s] = "settle" => Settling(s, k)
          /\ phase[s] # "compact"
          /\ phase[s] = "loop" /\ step[s] > 0 => Events(s, "turn.end", k) # {}
          /\ Ahead(s)
          /\ \A l \in Steps : Over(s, l)
    BY <1>7 DEF Anchored
  <1>9. InTurn(s)' => Begun(s, k)'
    <2>1. InTurn(s)' => InTurn(s) /\ phase'[s] # "idle"
      BY DEF InTurn
    <2>2. InTurn(s) /\ phase'[s] # "idle" => Begun(s, k)'
      BY <1>3, <1>4, <1>7, <1>8 DEF Begun, Measured
    <2>3. QED
      BY <2>1, <2>2
  <1>10. phase'[s] \in {"turn", "stream"} => Streaming(s, k)'
    <2>1. SUFFICES ASSUME phase'[s] \in {"turn", "stream"} PROVE Streaming(s, k)'
      OBVIOUS
    <2>2. phase[s] \in {"turn", "stream"} /\ phase'[s] # "idle"
      BY <2>1
    <2>3. BusyNow(s, k)' = BusyNow(s, k)
      BY <1>4, <1>5, <1>7, <2>2 DEF BusyNow
    <2>4. Streaming(s, k)
      BY <1>3, <1>8, <2>2
    <2>5. QED
      BY <1>7, <2>2, <2>3, <2>4 DEF Streaming, Measured
  <1>11. phase'[s] = "settle" => Settling(s, k)'
    <2>1. SUFFICES ASSUME phase'[s] = "settle" PROVE Settling(s, k)'
      OBVIOUS
    <2>2. Settling(s, k) \/ Streaming(s, k)
      BY <1>3, <1>8, <2>1
    <2>3. Settling(s, k)
      BY <2>2 DEF Settling, Streaming
    <2>4. QED
      BY <1>4, <1>7, <2>1, <2>3 DEF Settling, Measured
  <1>12. Ahead(s)'
    BY <1>3 DEF Anchored, Ahead
  <1>13. phase'[s] = "loop" /\ step'[s] > 0 => Events(s, "turn.end", k)' # {}
    BY <1>3, <1>7, <1>8 DEF Measured
  <1>14. phase'[s] # "compact" /\ \A l \in Steps : Over(s, l)'
    BY <1>3, <1>4 DEF Anchored
  <1>15. QED
    BY <1>7, <1>9, <1>10, <1>11, <1>12, <1>13, <1>14 DEF Anchored

\* The same, of a session that the step leaves alone.
LEMMA Untouched ==
  ASSUME LoopInv, NEW s \in Session, Turned(s), log'[s] = log[s], now' = now,
         step'[s] = step[s], running'[s] = running[s], parts'[s] = parts[s],
         spent'[s] = spent[s], state'[s] = state[s],
         \/ phase'[s] = phase[s]
         \/ phase'[s] = "idle"
         \/ phase[s] \in {"turn", "stream"} /\ phase'[s] = "settle"
  PROVE  Turned(s)'
  <1>1. \A ev : Lines(s, ev)' = Lines(s, ev)
    BY DEF Lines
  <1>2. \A ev, k : Events(s, ev, k)' = Events(s, ev, k)
    BY <1>1 DEF Events
  <1>3. QED
    BY <1>1, <1>2, Still DEF Grows

\* A step of session s leaves the others alone.
Alone(s) ==
  /\ now' = now
  /\ \A t \in Session \ {s} :
       /\ log'[t] = log[t] /\ state'[t] = state[t] /\ phase'[t] = phase[t]
       /\ step'[t] = step[t] /\ running'[t] = running[t] /\ parts'[t] = parts[t]
       /\ spent'[t] = spent[t]

LEMMA OneTurns ==
  ASSUME LoopInv, TurnedInv, NEW s \in Session, Alone(s), Turned(s)'
  PROVE  TurnedInv'
  <1>1. ASSUME NEW t \in Session \ {s}
        PROVE  Turned(t)'
    BY <1>1, Untouched DEF TurnedInv, Alone
  <1>2. QED
    BY <1>1 DEF TurnedInv

\* The mark that a step's response ended, in what the hooks leave.
LEMMA LlmEndField ==
  ASSUME LoopTyped, NEW s \in Session, Open(s), NEW k \in Steps, NEW c \in Call
  PROVE  /\ \A h \in {LlmStart(s), StreamingEnd(s), StreamFinish(s), ToolStart(s, c),
                      ToolEnd(s, c), TurnStart(s, k)} : h.llmEnd = state[s].llmEnd
         /\ TurnEnd(s, k).llmEnd = [state[s].llmEnd EXCEPT ![k] = None]
         /\ LlmEnd(s).llmEnd = [state[s].llmEnd EXCEPT ![state[s].step] = now]
  <1>1. state[s] \in HookState /\ State(s) = state[s]
    BY StateTyped
  <1>2. LlmStart(s).llmEnd = state[s].llmEnd
    BY <1>1 DEF LlmStart, HookState
  <1>3. StreamingEnd(s).llmEnd = state[s].llmEnd
    BY <1>1 DEF StreamingEnd, HookState
  <1>4. StreamFinish(s).llmEnd = state[s].llmEnd
    BY <1>1 DEF StreamFinish, HookState
  <1>5. ToolStart(s, c).llmEnd = state[s].llmEnd
    BY <1>1 DEF ToolStart, HookState
  <1>6. ToolEnd(s, c).llmEnd = state[s].llmEnd
    BY <1>1 DEF ToolEnd, HookState
  <1>7. TurnStart(s, k).llmEnd = state[s].llmEnd
    BY <1>1 DEF TurnStart, HookState
  <1>8. TurnEnd(s, k).llmEnd = [state[s].llmEnd EXCEPT ![k] = None]
    BY <1>1 DEF TurnEnd, HookState
  <1>9. LlmEnd(s).llmEnd = [state[s].llmEnd EXCEPT ![state[s].step] = now]
    BY <1>1 DEF LlmEnd, HookState
  <1>10. QED
    BY <1>2, <1>3, <1>4, <1>5, <1>6, <1>7, <1>8, <1>9

\* A line of another kind than those that turns are measured by.
LEMMA PlainLine ==
  ASSUME LoopInv, NEW s \in Session, NEW line \in Line, line.ev \notin Measured,
         log' = [log EXCEPT ![s] = Append(@, line)]
  PROVE  /\ Grows(s) /\ Lines(s, "tool.end")' = Lines(s, "tool.end")
         /\ \A ev \in Measured, k \in Steps : Events(s, ev, k)' = Events(s, ev, k)
  <1>1. Grows(s)
    BY Appended DEF Grows
  <1>2. Lines(s, "tool.end")' = Lines(s, "tool.end")
    <2>1. line.ev # "tool.end"
      BY DEF Measured
    <2>2. \A ev : Lines(s, ev)' =
            Lines(s, ev) \cup (IF line.ev = ev THEN {Len(log[s]) + 1} ELSE {})
      BY Extended
    <2>3. QED
      BY <2>1, <2>2
  <1>3. ASSUME NEW ev \in Measured, NEW k \in Steps
        PROVE  Events(s, ev, k)' = Events(s, ev, k)
    <2>1. line.ev # ev
      BY <1>3
    <2>2. \A e, l : Events(s, e, l)' = Events(s, e, l) \cup
            (IF line.ev = e /\ line.step = l THEN {Len(log[s]) + 1} ELSE {})
      BY Extended
    <2>3. Events(s, ev, k)' = Events(s, ev, k) \cup {}
      BY <2>1, <2>2, Zenon
    <2>4. QED
      BY <2>3
  <1>4. QED
    BY <1>1, <1>2, <1>3

LEMMA MarksTurn ==
  ASSUME LoopInv, TurnedInv, NEW s \in Session,
         StepBegins(s) \/ TextEnds(s) \/ StreamFinishes(s) \/ QueryEnds(s)
  PROVE  TurnedInv'
  <1>1. LoopTyped /\ DataTyped /\ Attuned(s) /\ Turned(s)
    BY DEF LoopInv, TurnedInv
  <1>2. phase[s] # "idle" /\ Open(s) /\ state[s].step \in Steps /\ step[s] \in Steps
    BY <1>1, StateTyped, Fields
       DEF StepBegins, TextEnds, StreamFinishes, QueryEnds, Attuned, LoopTyped
  <1>3. Alone(s)
    BY <1>1 DEF StepBegins, TextEnds, StreamFinishes, QueryEnds, Alone, Hook, Go, LoopTyped,
       DataTyped, loopVars, ghostVars
  <1>4. /\ step'[s] = step[s] /\ running'[s] = running[s] /\ parts'[s] = parts[s]
        /\ spent'[s] = spent[s] /\ now' = now
    BY DEF StepBegins, TextEnds, StreamFinishes, QueryEnds, loopVars, ghostVars
  <1> DEFINE kept(h) == /\ h.turnStart = state[s].turnStart /\ h.toolWall = state[s].toolWall
                        /\ h.llmEnd = state[s].llmEnd /\ h.toolStart = state[s].toolStart
  <1>5. kept(LlmStart(s)) /\ kept(StreamingEnd(s)) /\ kept(StreamFinish(s))
    <2>1. state[s] \in HookState
      BY <1>1, <1>2, StateTyped
    <2>2. kept(LlmStart(s))
      BY <2>1 DEF LlmStart, HookState
    <2>3. kept(StreamingEnd(s))
      BY <2>1 DEF StreamingEnd, HookState
    <2>4. kept(StreamFinish(s))
      BY <2>1 DEF StreamFinish, HookState
    <2>5. QED
      BY <2>2, <2>3, <2>4
  <1>6. CASE StepBegins(s)
    <2> DEFINE line == [ev |-> "llm.start", ts |-> now, step |-> state[s].step]
    <2>1. line \in Line /\ line.ev \notin Measured
      BY <1>1, <1>2, MarkLineTyped DEF Measured
    <2>2. log' = [log EXCEPT ![s] = Append(@, line)] /\ state'[s] = LlmStart(s)
      BY <1>1, <1>6 DEF StepBegins, Hook, LoopTyped
    <2> HIDE DEF line
    <2>3. phase[s] = "turn" /\ phase'[s] = "stream"
      BY <1>1, <1>6 DEF StepBegins, Go, LoopTyped
    <2>4. Turned(s)'
      BY <1>1, <1>4, <1>5, <2>1, <2>2, <2>3, PlainLine, Still
    <2>5. QED
      BY <1>3, <2>4, OneTurns
  <1>7. CASE TextEnds(s)
    <2>1. log' = log /\ state'[s] = StreamingEnd(s) /\ phase' = phase
      BY <1>1, <1>7 DEF TextEnds, LoopTyped, loopVars
    <2>2. \A ev : Lines(s, ev)' = Lines(s, ev)
      BY <2>1 DEF Lines
    <2>3. \A ev, k : Events(s, ev, k)' = Events(s, ev, k)
      BY <2>1, <2>2 DEF Events
    <2>4. Grows(s)
      BY <2>1 DEF Grows
    <2>5. Turned(s)'
      BY <1>1, <1>4, <1>5, <2>1, <2>2, <2>3, <2>4, Still
    <2>6. QED
      BY <1>3, <2>5, OneTurns
  <1>8. CASE StreamFinishes(s)
    <2> DEFINE line == [ev |-> "llm.stream-finish", ts |-> now, step |-> step[s]]
    <2>1. line \in Line /\ line.ev \notin Measured
      BY <1>1, <1>2, MarkLineTyped DEF Measured
    <2>2. /\ log' = [log EXCEPT ![s] = Append(@, line)] /\ state'[s] = StreamFinish(s)
          /\ phase' = phase
      BY <1>1, <1>8 DEF StreamFinishes, Hook, LoopTyped, loopVars
    <2> HIDE DEF line
    <2>3. Turned(s)'
      BY <1>1, <1>4, <1>5, <2>1, <2>2, PlainLine, Still
    <2>4. QED
      BY <1>3, <2>3, OneTurns
  <1>9. CASE QueryEnds(s)
    <2>1. QueryEndLine(s) \in Line
      BY <1>1, <1>2, QueryEndTyped DEF Attuned
    <2>2. QueryEndLine(s).ev \notin Measured
      BY DEF QueryEndLine, Measured
    <2>3. log' = [log EXCEPT ![s] = Append(@, QueryEndLine(s))] /\ phase'[s] = "idle"
      BY <1>1, <1>9 DEF QueryEnds, Hook, Go, LoopTyped
    <2>4. Turned(s)'
      BY <1>1, <1>4, <2>1, <2>2, <2>3, PlainLine, Still
    <2>5. QED
      BY <1>3, <2>4, OneTurns
  <1>10. QED
    BY <1>6, <1>7, <1>8, <1>9

LEMMA UpsetsTurn ==
  ASSUME LoopInv, TurnedInv, NEW s \in Session, StreamBreaks(s) \/ LoopFails(s)
  PROVE  TurnedInv'
  <1>1. LoopTyped /\ DataTyped /\ Turned(s)
    BY DEF LoopInv, TurnedInv
  <1>2. Alone(s)
    BY <1>1 DEF StreamBreaks, LoopFails, Alone, Go, LoopTyped, ghostVars
  <1>3. /\ log' = log /\ state' = state /\ step' = step /\ running' = running /\ parts' = parts
        /\ spent' = spent /\ now' = now
    BY DEF StreamBreaks, LoopFails, ghostVars
  <1>4. phase'[s] = "idle" \/ (phase[s] \in {"turn", "stream"} /\ phase'[s] = "settle")
    BY <1>1 DEF StreamBreaks, LoopFails, Go, LoopTyped
  <1>5. Turned(s)'
    BY <1>1, <1>3, <1>4, Untouched
  <1>6. QED
    BY <1>2, <1>5, OneTurns

LEMMA TimeoutTurns ==
  ASSUME LoopInv, TurnedInv, Timeout \/ UNCHANGED vars
  PROVE  TurnedInv'
  <1>1. ASSUME NEW t \in Session
        PROVE  Turned(t)'
    BY <1>1, Untouched DEF TurnedInv, Timeout, vars, loopVars, ghostVars
  <1>2. QED
    BY <1>1 DEF TurnedInv

\* A line of a kind that turns are measured by.
LEMMA Elsewhere ==
  ASSUME LoopInv, NEW s \in Session, NEW line \in Line,
         log' = [log EXCEPT ![s] = Append(@, line)]
  PROVE  \A e, l : e # line.ev \/ l # line.step => Events(s, e, l)' = Events(s, e, l)
  <1>1. \A e, l : Events(s, e, l)' = Events(s, e, l) \cup
          (IF line.ev = e /\ line.step = l THEN {Len(log[s]) + 1} ELSE {})
    BY Extended
  <1>2. ASSUME NEW e, NEW l, e # line.ev \/ l # line.step
        PROVE  Events(s, e, l)' = Events(s, e, l)
    <2>1. Events(s, e, l)' = Events(s, e, l) \cup {}
      BY <1>1, <1>2, Zenon
    <2>2. QED
      BY <2>1
  <1>3. QED
    BY <1>2

LEMMA Here ==
  ASSUME LoopInv, NEW s \in Session, NEW line \in Line, NEW k \in Steps, NEW ev \in Measured,
         line.step = k, line.ev = ev, log' = [log EXCEPT ![s] = Append(@, line)]
  PROVE  Events(s, ev, k)' = Events(s, ev, k) \cup {Len(log[s]) + 1}
  <1>1. \A e, l : Events(s, e, l)' = Events(s, e, l) \cup
          (IF line.ev = e /\ line.step = l THEN {Len(log[s]) + 1} ELSE {})
    BY Extended
  <1>2. QED
    BY <1>1, Zenon

LEMMA MeasuredLine ==
  ASSUME LoopInv, NEW s \in Session, NEW line \in Line, NEW k \in Steps, NEW ev \in Measured,
         line.step = k, line.ev = ev, log' = [log EXCEPT ![s] = Append(@, line)]
  PROVE  /\ Grows(s)
         /\ log'[s][Len(log[s]) + 1] = line /\ Len(log[s]) + 1 \notin DOMAIN log[s]
         /\ \A e \in Measured, l \in Steps : \A i \in Events(s, e, l) :
              log'[s][i] = log[s][i] /\ i # Len(log[s]) + 1
         /\ \A l \in Steps \ {k} :
              spent'[s][l].model = spent[s][l].model /\ Over(s, l) => Over(s, l)'
  <1> DEFINE n == Len(log[s])
  <1>1. /\ n \in Nat /\ DOMAIN log[s] = 1..n /\ DOMAIN log'[s] = 1..(n + 1)
        /\ \A i \in 1..n : log[s][i] \in Line /\ log'[s][i] = log[s][i]
        /\ log'[s][n + 1] = line
    BY Appended
  <1> HIDE DEF n
  <1>2. Grows(s) /\ n + 1 \notin DOMAIN log[s]
    BY <1>1 DEF Grows
  <1>3. \A e \in Measured, l \in Steps : \A i \in Events(s, e, l) :
          log'[s][i] = log[s][i] /\ i # n + 1
    BY <1>1, <1>2, EventsIn
  <1>4. ASSUME NEW l \in Steps \ {k}, spent'[s][l].model = spent[s][l].model, Over(s, l)
        PROVE  Over(s, l)'
    <2>1. \A e, m : Events(s, e, m)' = Events(s, e, m) \cup
            (IF line.ev = e /\ line.step = m THEN {Len(log[s]) + 1} ELSE {})
      BY Extended
    <2>2. ASSUME NEW e \in Measured
          PROVE  Events(s, e, l)' = Events(s, e, l)
      <3>1. l # line.step
        BY <1>4
      <3>2. Events(s, e, l)' = Events(s, e, l) \cup {}
        BY <2>1, <3>1, Zenon
      <3>3. QED
        BY <3>2
    <2>3. \A i \in DOMAIN log[s] : log'[s][i] = log[s][i]
      BY <1>2 DEF Grows
    <2>4. QED
      BY <1>4, <2>2, <2>3, StepKept
  <1>5. QED
    BY <1>1, <1>2, <1>3, <1>4 DEF n

LEMMA ToolsKept ==
  ASSUME LoopInv, NEW s \in Session, NEW line \in Line, NEW k \in Steps, NEW ev \in Measured,
         line.step = k, line.ev = ev, log' = [log EXCEPT ![s] = Append(@, line)],
         ev # "tool.end"
  PROVE  /\ Lines(s, "tool.end")' = Lines(s, "tool.end")
         /\ Pairs(s, k)' = Pairs(s, k) /\ Busy(s, k)' = Busy(s, k)
  <1>1. Lines(s, "tool.end")' = Lines(s, "tool.end")
    <2>1. \A e : Lines(s, e)' = Lines(s, e) \cup
            (IF line.ev = e THEN {Len(log[s]) + 1} ELSE {})
      BY Extended
    <2>2. Lines(s, "tool.end")' = Lines(s, "tool.end") \cup {}
      BY <2>1, Zenon
    <2>3. QED
      BY <2>2
  <1>2. /\ Events(s, "tool.end", k)' = Events(s, "tool.end", k)
        /\ \A i \in Events(s, "tool.end", k) : log'[s][i] = log[s][i]
    <2>1. \A e, m : Events(s, e, m)' = Events(s, e, m) \cup
            (IF line.ev = e /\ line.step = m THEN {Len(log[s]) + 1} ELSE {})
      BY Extended
    <2>2. Events(s, "tool.end", k)' = Events(s, "tool.end", k) \cup {}
      BY <2>1, Zenon
    <2>3. Grows(s)
      BY MeasuredLine
    <2>4. QED
      BY <2>2, <2>3, EventsIn DEF Grows
  <1>3. Pairs(s, k)' = Pairs(s, k)
    <2>1. Pairs(s, k)' =
            {r \in Events(s, "tool.end", k)' \X Moment : During(log'[s][r[1]], r[2])}
      BY DEF Pairs, During, Moment
    <2>2. Pairs(s, k)' =
            {r \in Events(s, "tool.end", k) \X Moment : During(log'[s][r[1]], r[2])}
      BY <1>2, <2>1, Zenon
    <2>3. \A r \in Events(s, "tool.end", k) \X Moment : log'[s][r[1]] = log[s][r[1]]
      <3>1. \A r \in Events(s, "tool.end", k) \X Moment : r[1] \in Events(s, "tool.end", k)
        OBVIOUS
      <3>2. QED
        BY <1>2, <3>1, Zenon
    <2>4. \A r \in Events(s, "tool.end", k) \X Moment :
            During(log'[s][r[1]], r[2]) <=> During(log[s][r[1]], r[2])
      BY <2>3, Zenon
    <2>5. QED
      BY <2>2, <2>4, Zenon DEF Pairs
  <1>4. Busy(s, k)' = Busy(s, k)
    <2>1. Busy(s, k)' =
            {m \in Moment : \E i \in Events(s, "tool.end", k)' : During(log'[s][i], m)}
      BY DEF Busy, During, Moment
    <2>2. QED
      BY <1>2, <2>1 DEF Busy
  <1>5. QED
    BY <1>1, <1>3, <1>4

LEMMA QueryTurns ==
  ASSUME LoopInv, SequencedInv, TurnedInv, NEW s \in Session, QueryBegins(s)
  PROVE  TurnedInv'
  <1> DEFINE line == QueryStartLine(s)
  <1>1. LoopTyped /\ DataTyped /\ Turned(s) /\ Sequenced(s)
    BY DEF LoopInv, TurnedInv, SequencedInv
  <1>2. line \in Line /\ line.ev = "query.start" /\ line.ev \notin Measured
    BY <1>1, QueryStartTyped DEF Measured, QueryStartLine
  <1>3. log' = [log EXCEPT ![s] = Append(@, line)] /\ state'[s] = QueryStart(s)
    BY <1>1 DEF QueryBegins, Hook, LoopTyped
  <1>4. phase'[s] = "loop" /\ step'[s] = 0
    BY <1>1 DEF QueryBegins, Go, LoopTyped
  <1>5. Alone(s)
    BY <1>1 DEF QueryBegins, Alone, Hook, Go, LoopTyped, DataTyped
  <1>6. running'[s] = running[s] /\ parts'[s] = parts[s]
    BY DEF QueryBegins
  <1> HIDE DEF line
  <1>7. /\ Grows(s) /\ Lines(s, "tool.end")' = Lines(s, "tool.end")
        /\ \A ev \in Measured, k \in Steps : Events(s, ev, k)' = Events(s, ev, k)
    BY <1>2, <1>3, PlainLine
  <1>8. CallLines(s)'
    BY <1>1, <1>6, <1>7, CallLinesKept DEF Turned
  <1>9. ASSUME Clean(s)'
        PROVE  Anchored(s)'
    <2>1. log[s] = <<>>
      <3> DEFINE n == Len(log[s])
      <3>1. /\ n \in Nat /\ DOMAIN log[s] = 1..n /\ DOMAIN log'[s] = 1..(n + 1)
            /\ \A i \in 1..n : log'[s][i] = log[s][i]
            /\ log'[s][n + 1] = line
        BY <1>2, <1>3, Appended
      <3>2. SUFFICES ASSUME log[s] # <<>> PROVE FALSE
        OBVIOUS
      <3>3. n # 0
        BY <1>1, <3>2 DEF DataTyped
      <3>4. log'[s][1].ev = "query.start" /\ 1 \in 1..(n + 1) /\ n + 1 \in 1..(n + 1)
        BY <1>1, <3>1, <3>2, <3>3 DEF Sequenced
      <3>5. 1 \in Lines(s, "query.start")' /\ n + 1 \in Lines(s, "query.start")'
        BY <1>2, <3>1, <3>4 DEF Lines
      <3>6. 1 = n + 1
        BY <1>9, <3>5 DEF Clean, OneQuery
      <3>7. QED
        BY <3>1, <3>3, <3>6
    <2>2. \A ev \in Measured, k \in Steps : Events(s, ev, k)' = {}
      <3>1. DOMAIN log[s] = {}
        BY <2>1
      <3>2. \A ev \in Measured, k \in Steps : Events(s, ev, k) = {}
        BY <3>1, EventsIn
      <3>3. QED
        BY <1>7, <3>2
    <2>3. state'[s].llmEnd = Blank
      <3>1. ~Open(s)
        BY <1>1, <2>1 DEF Sequenced
      <3>2. State(s) = Fresh
        BY <3>1 DEF State
      <3>3. QED
        BY <1>3, <3>2 DEF QueryStart, Fresh
    <2>4. \A k \in Steps : Over(s, k)'
      BY <2>2 DEF Over, Measured
    <2>5. Ahead(s)'
      BY <2>2, <2>3 DEF Ahead, Blank
    <2>6. QED
      BY <1>4, <2>4, <2>5, Numbers DEF Anchored, InTurn
  <1>10. QED
    BY <1>5, <1>8, <1>9, OneTurns DEF Turned

LEMMA LlmEndStart ==
  ASSUME LoopTyped, NEW s \in Session, Open(s), NEW k \in Steps
  PROVE  TurnStart(s, k).llmEnd = state[s].llmEnd
  <1>1. state[s] \in HookState /\ State(s) = state[s]
    BY StateTyped
  <1>2. QED
    BY <1>1 DEF TurnStart, HookState

\* Without a call under way, the time under calls is that of the calls that ended.
LEMMA NoneUnderWay ==
  ASSUME NEW s \in Session, NEW k \in Steps, running[s] = {}
  PROVE  BusyNow(s, k) = Busy(s, k)
  BY DEF BusyNow, BusyCalls

LEMMA TurnTurns ==
  ASSUME LoopInv, TurnedInv, NEW s \in Session, TurnBegins(s)
  PROVE  TurnedInv'
  <1>1. LoopTyped /\ DataTyped /\ Attuned(s) /\ Turned(s)
    BY DEF LoopInv, TurnedInv
  <1>2. PICK k \in Steps : k = step[s] + 1
    BY <1>1, Numbers DEF TurnBegins, LoopTyped, Steps
  <1> DEFINE line == TurnStartLine(s, k)
             x == Len(log[s]) + 1
  <1>3. line \in Line /\ line.ev = "turn.start" /\ line.step = k /\ line.ts = now
    BY <1>1, TurnStartTyped DEF TurnStartLine
  <1>4. log' = [log EXCEPT ![s] = Append(@, line)] /\ state'[s] = TurnStart(s, k)
    BY <1>1, <1>2 DEF TurnBegins, Hook, LoopTyped
  <1>5. phase[s] = "loop" /\ phase'[s] = "turn" /\ step'[s] = k /\ now' = now
    BY <1>1, <1>2 DEF TurnBegins, Go, LoopTyped
  <1>6. /\ spent'[s][k] = Nothing
        /\ \A l \in Steps \ {k} : spent'[s][l] = spent[s][l]
    BY <1>1, <1>2 DEF TurnBegins, DataTyped
  <1>7. Alone(s)
    BY <1>1 DEF TurnBegins, Alone, Hook, Go, LoopTyped, DataTyped
  <1>8. running'[s] = {} /\ running'[s] = running[s] /\ parts'[s] = parts[s] /\ Open(s)
    BY <1>1, <1>5 DEF TurnBegins, Attuned
  <1>9. /\ state'[s].llmEnd = state[s].llmEnd /\ state'[s].turnStart[k] = now
        /\ state'[s].toolWall[k] = 0
    <2>1. state'[s].toolWall = [state[s].toolWall EXCEPT ![k] = 0]
      BY <1>1, <1>4, <1>8, StateTyped, TurnStartTyped
    <2>2. k \in DOMAIN state[s].toolWall
      BY <1>1, <1>8, StateTyped DEF HookState
    <2>3. state'[s].llmEnd = state[s].llmEnd
      BY <1>1, <1>4, <1>8, LlmEndStart
    <2>4. TurnStart(s, k).turnStart[k] = now
      BY <1>1, TurnStartTyped
    <2>5. state'[s].toolWall[k] = 0
      BY <2>1, <2>2
    <2>6. QED
      BY <1>4, <2>3, <2>4, <2>5
  <1> HIDE DEF line, x
  <1>10. /\ Grows(s) /\ log'[s][x] = line
         /\ \A e \in Measured, l \in Steps :
              /\ e # "turn.start" \/ l # k => Events(s, e, l)' = Events(s, e, l)
              /\ \A i \in Events(s, e, l) : log'[s][i] = log[s][i] /\ i # x
         /\ Events(s, "turn.start", k)' = Events(s, "turn.start", k) \cup {x}
         /\ Lines(s, "tool.end")' = Lines(s, "tool.end")
         /\ Pairs(s, k)' = Pairs(s, k) /\ Busy(s, k)' = Busy(s, k)
         /\ \A l \in Steps \ {k} :
              spent'[s][l].model = spent[s][l].model /\ Over(s, l) => Over(s, l)'
    <2>1. "turn.start" \in Measured
      BY DEF Measured
    <2>2. \A e \in Measured, l \in Steps :
            e # "turn.start" \/ l # k => Events(s, e, l)' = Events(s, e, l)
      BY <1>3, <1>4, Elsewhere
    <2>3. Events(s, "turn.start", k)' = Events(s, "turn.start", k) \cup {x}
      BY <1>3, <1>4, <2>1, Here DEF x
    <2>4. /\ Grows(s) /\ log'[s][x] = line /\ x \notin DOMAIN log[s]
          /\ \A e \in Measured, l \in Steps : \A i \in Events(s, e, l) :
               log'[s][i] = log[s][i] /\ i # x
          /\ \A l \in Steps \ {k} :
               spent'[s][l].model = spent[s][l].model /\ Over(s, l) => Over(s, l)'
      BY <1>3, <1>4, <2>1, MeasuredLine DEF x
    <2>5. /\ Lines(s, "tool.end")' = Lines(s, "tool.end")
          /\ Pairs(s, k)' = Pairs(s, k) /\ Busy(s, k)' = Busy(s, k)
      BY <1>3, <1>4, <2>1, ToolsKept
    <2>6. QED
      BY <2>2, <2>3, <2>4, <2>5
  <1>11. CallLines(s)'
    BY <1>1, <1>8, <1>10, CallLinesKept DEF Turned
  <1>12. ASSUME Clean(s)'
         PROVE  Anchored(s)'
    <2>1. Anchored(s)
      <3>1. \A i \in DOMAIN log[s] : i \in DOMAIN log'[s] /\ log'[s][i] = log[s][i]
        BY <1>10 DEF Grows
      <3>2. Clean(s)
        BY <1>12, <3>1, CleanBefore
      <3>3. QED
        BY <1>1, <3>2 DEF Turned
    <2>2. step[s] \in Nat /\ k > step[s] /\ \A l \in Steps : l \in Nat
      <3>1. step[s] \in Steps /\ \A l \in Steps : l \in Nat
        BY <1>1, Numbers DEF LoopTyped
      <3>2. step[s] \in Nat
        BY <3>1
      <3>3. step[s] + 1 > step[s]
        BY <3>2
      <3>4. QED
        BY <1>2, <3>1, <3>2, <3>3
    <2>3. /\ \A ev \in Measured : Events(s, ev, k) = {}
          /\ state[s].llmEnd[k] = None
      BY <1>5, <2>1, <2>2 DEF Anchored, Ahead
    <2>4. /\ Events(s, "turn.start", k)' = {x} /\ Events(s, "turn.end", k)' = {}
          /\ Events(s, "llm.end", k)' = {}
      BY <1>10, <2>3 DEF Measured
    <2>5. Pairs(s, k)' = {} /\ Busy(s, k)' = {} /\ BusyNow(s, k)' = {}
      <3>1. Pairs(s, k) = {} /\ Busy(s, k) = {}
        BY <2>3 DEF Pairs, Busy, Measured
      <3>2. BusyNow(s, k)' = Busy(s, k)'
        BY <1>8 DEF BusyNow, BusyCalls
      <3>3. QED
        BY <1>10, <3>1, <3>2
    <2>6. Cardinality({}) = 0
      BY FS_EmptySet
    <2>7. Begun(s, k)'
      BY <1>3, <1>9, <1>10, <2>4, <2>5, <2>6 DEF Begun
    <2>8. Streaming(s, k)'
      <3>1. now \in Nat /\ spent'[s][k].model = 0
        BY <1>1, <1>6, Marks DEF LoopTyped, Nothing
      <3>2. now' - state'[s].turnStart[k] = spent'[s][k].model + Cardinality(BusyNow(s, k)')
        BY <1>5, <1>9, <2>5, <2>6, <3>1
      <3>3. QED
        BY <1>9, <2>3, <2>4, <3>2 DEF Streaming
    <2>9. Ahead(s)'
      <3>1. ASSUME NEW l \in Steps, l > k
            PROVE  /\ \A ev \in Measured : Events(s, ev, l)' = {}
                   /\ state'[s].llmEnd[l] = None
        <4>1. l > step[s] /\ l # k
          BY <2>2, <3>1
        <4>2. QED
          BY <1>5, <1>9, <1>10, <2>1, <4>1 DEF Anchored, Ahead
      <3>2. QED
        BY <1>5, <3>1 DEF Ahead
    <2>10. ASSUME NEW l \in Steps
           PROVE  Over(s, l)'
      <3>1. CASE l = k
        BY <2>4, <3>1 DEF Over
      <3>2. CASE l # k
        BY <1>6, <1>10, <2>1, <3>2 DEF Anchored
      <3>3. QED
        BY <3>1, <3>2
    <2>11. QED
      BY <1>5, <2>7, <2>8, <2>9, <2>10 DEF Anchored
  <1>13. QED
    BY <1>7, <1>11, <1>12, OneTurns DEF Turned

LEMMA StepEndTurns ==
  ASSUME LoopInv, TurnedInv, NEW s \in Session, StepEnds(s)
  PROVE  TurnedInv'
  <1>1. LoopTyped /\ DataTyped /\ Attuned(s) /\ Turned(s)
    BY DEF LoopInv, TurnedInv
  <1>2. PICK k \in Steps : k = step[s]
    BY <1>1 DEF LoopTyped
  <1> DEFINE line == LlmEndLine(s)
             x == Len(log[s]) + 1
  <1>3. /\ phase[s] = "stream" /\ Open(s) /\ state[s].step = k /\ InTurn(s)
        /\ running[s] = {}
    BY <1>1, <1>2 DEF StepEnds, Attuned, InTurn
  <1>4. line \in Line /\ line.ev = "llm.end" /\ line.step = k /\ line.ts = now
    BY <1>1, <1>3, LlmEndTyped DEF LlmEndLine
  <1>5. log' = [log EXCEPT ![s] = Append(@, line)] /\ state'[s] = LlmEnd(s)
    BY <1>1 DEF StepEnds, Hook, LoopTyped
  <1>6. /\ phase'[s] = "settle" /\ step'[s] = k /\ now' = now /\ running'[s] = running[s]
        /\ parts'[s] = parts[s] /\ spent' = spent
    BY <1>1, <1>2 DEF StepEnds, Go, LoopTyped, ghostVars
  <1>7. Alone(s)
    BY <1>1 DEF StepEnds, Alone, Hook, Go, LoopTyped, ghostVars
  <1>8. /\ state'[s].turnStart = state[s].turnStart /\ state'[s].toolWall = state[s].toolWall
        /\ state'[s].llmEnd[k] = now
        /\ \A l \in Steps \ {k} : state'[s].llmEnd[l] = state[s].llmEnd[l]
    <2>1. state[s] \in HookState
      BY <1>1, <1>3, StateTyped
    <2>2. state'[s].llmEnd = [state[s].llmEnd EXCEPT ![k] = now]
      BY <1>3, <1>5, <2>1 DEF LlmEnd, HookState
    <2>3. state[s].llmEnd \in [Steps -> Mark]
      BY <2>1 DEF HookState
    <2>4. QED
      BY <1>1, <1>3, <1>5, <2>2, <2>3, LlmEndTyped
  <1> HIDE DEF line, x
  <1>9. /\ Grows(s) /\ log'[s][x] = line
        /\ \A e \in Measured, l \in Steps :
             /\ e # "llm.end" \/ l # k => Events(s, e, l)' = Events(s, e, l)
             /\ \A i \in Events(s, e, l) : log'[s][i] = log[s][i] /\ i # x
        /\ Events(s, "llm.end", k)' = Events(s, "llm.end", k) \cup {x}
        /\ Lines(s, "tool.end")' = Lines(s, "tool.end")
        /\ Pairs(s, k)' = Pairs(s, k) /\ Busy(s, k)' = Busy(s, k)
        /\ \A l \in Steps \ {k} :
             spent'[s][l].model = spent[s][l].model /\ Over(s, l) => Over(s, l)'
    <2>1. "llm.end" \in Measured
      BY DEF Measured
    <2>2. \A e \in Measured, l \in Steps :
            e # "llm.end" \/ l # k => Events(s, e, l)' = Events(s, e, l)
      BY <1>4, <1>5, Elsewhere
    <2>3. Events(s, "llm.end", k)' = Events(s, "llm.end", k) \cup {x}
      BY <1>4, <1>5, <2>1, Here DEF x
    <2>4. /\ Grows(s) /\ log'[s][x] = line /\ x \notin DOMAIN log[s]
          /\ \A e \in Measured, l \in Steps : \A i \in Events(s, e, l) :
               log'[s][i] = log[s][i] /\ i # x
          /\ \A l \in Steps \ {k} :
               spent'[s][l].model = spent[s][l].model /\ Over(s, l) => Over(s, l)'
      BY <1>4, <1>5, <2>1, MeasuredLine DEF x
    <2>5. /\ Lines(s, "tool.end")' = Lines(s, "tool.end")
          /\ Pairs(s, k)' = Pairs(s, k) /\ Busy(s, k)' = Busy(s, k)
      BY <1>4, <1>5, <2>1, ToolsKept
    <2>6. QED
      BY <2>2, <2>3, <2>4, <2>5
  <1>10. CallLines(s)'
    <2>1. Grows(s) /\ Lines(s, "tool.end")' = Lines(s, "tool.end")
      BY <1>9
    <2>2. running'[s] \subseteq running[s] /\ parts'[s] = parts[s] /\ CallLines(s)
      BY <1>1, <1>6 DEF Turned
    <2>3. QED
      BY <2>1, <2>2, CallLinesKept
  <1>11. ASSUME Clean(s)'
         PROVE  Anchored(s)'
    <2>1. Anchored(s)
      <3>1. \A i \in DOMAIN log[s] : i \in DOMAIN log'[s] /\ log'[s][i] = log[s][i]
        BY <1>9 DEF Grows
      <3>2. Clean(s)
        BY <1>11, <3>1, CleanBefore
      <3>3. QED
        BY <1>1, <3>2 DEF Turned
    <2>2. Begun(s, k) /\ Streaming(s, k)
      BY <1>2, <1>3, <2>1 DEF Anchored
    <2>3. Begun(s, k)'
      BY <1>8, <1>9, <2>2 DEF Begun, Measured
    <2>4. Events(s, "llm.end", k)' = {x}
      BY <1>9, <2>2 DEF Streaming, Measured
    <2>5. now - state[s].turnStart[k] = spent[s][k].model + Cardinality(Busy(s, k))
      BY <1>3, <2>2, NoneUnderWay DEF Streaming
    <2>6. Settling(s, k)'
      BY <1>4, <1>6, <1>8, <1>9, <2>4, <2>5 DEF Settling, Measured
    <2>7. Ahead(s)'
      <3>1. ASSUME NEW l \in Steps, l > k
            PROVE  /\ \A ev \in Measured : Events(s, ev, l)' = {}
                   /\ state'[s].llmEnd[l] = None
        <4>1. l > step[s] /\ l # k
          BY <1>2, <3>1, Numbers
        <4>2. QED
          BY <1>3, <1>8, <1>9, <2>1, <4>1 DEF Anchored, Ahead
      <3>2. QED
        BY <1>6, <3>1 DEF Ahead
    <2>8. ASSUME NEW l \in Steps
          PROVE  Over(s, l)'
      <3>1. CASE l = k
        BY <2>3, <3>1 DEF Over, Begun
      <3>2. CASE l # k
        <4>1. Over(s, l) /\ spent'[s][l].model = spent[s][l].model /\ l \in Steps \ {k}
          BY <1>6, <2>1, <3>2 DEF Anchored
        <4>2. QED
          BY <1>9, <4>1
      <3>3. QED
        BY <3>1, <3>2
    <2>9. QED
      BY <1>6, <2>3, <2>6, <2>7, <2>8 DEF Anchored
  <1>12. QED
    BY <1>7, <1>10, <1>11, OneTurns DEF Turned

LEMMA TurnEndTurns ==
  ASSUME LoopInv, TurnedInv, NEW s \in Session, TurnEnds(s)
  PROVE  TurnedInv'
  <1>1. LoopTyped /\ DataTyped /\ Attuned(s) /\ Turned(s)
    BY DEF LoopInv, TurnedInv
  <1>2. PICK k \in Steps : k = step[s]
    BY <1>1 DEF LoopTyped
  <1> DEFINE line == TurnEndLine(s, k)
             x == Len(log[s]) + 1
  <1>3. /\ phase[s] = "settle" /\ Open(s) /\ InTurn(s) /\ state[s] \in HookState
        /\ state[s].toolWall[k] \in Nat
    BY <1>1, <1>2, StateTyped DEF TurnEnds, Attuned, InTurn
  <1>4. log' = [log EXCEPT ![s] = Append(@, line)] /\ state'[s] = TurnEnd(s, k)
    BY <1>1, <1>2 DEF TurnEnds, Hook, LoopTyped
  <1>5. line \in Line
    <2>1. log'[s] \in Seq(Line) /\ log'[s] = Append(log[s], line) /\ log[s] \in Seq(Line)
      BY <1>1, <1>4, TurnEndsKeeps DEF LoopInv, DataTyped
    <2> HIDE DEF line
    <2>2. log'[s][Len(log[s]) + 1] = line /\ Len(log'[s]) = Len(log[s]) + 1
      BY <2>1
    <2>3. QED
      BY <2>1, <2>2
  <1>6. /\ line.ev = "turn.end" /\ line.step = k /\ line.tool = state[s].toolWall[k]
        /\ state[s].llmEnd[k] # None =>
             line.llmTrue = Larger(0, state[s].llmEnd[k] - state[s].turnStart[k] - line.tool)
    <2>1. Known(state[s].toolWall[k], 0) = state[s].toolWall[k]
      BY <1>3 DEF Known, None
    <2>2. QED
      BY <2>1 DEF TurnEndLine
  <1>7. /\ phase'[s] = "loop" /\ step'[s] = k /\ now' = now /\ running'[s] = running[s]
        /\ parts'[s] = parts[s] /\ spent' = spent
    BY <1>1, <1>2 DEF TurnEnds, Go, LoopTyped, ghostVars
  <1>8. Alone(s)
    BY <1>1 DEF TurnEnds, Alone, Hook, Go, LoopTyped, ghostVars
  <1>9. \A l \in Steps \ {k} : state'[s].llmEnd[l] = state[s].llmEnd[l]
    <2>1. state'[s].llmEnd = [state[s].llmEnd EXCEPT ![k] = None]
      BY <1>3, <1>4 DEF TurnEnd, HookState
    <2>2. state[s].llmEnd \in [Steps -> Mark]
      BY <1>3 DEF HookState
    <2>3. QED
      BY <2>1, <2>2
  <1> HIDE DEF line, x
  <1>10. /\ Grows(s) /\ log'[s][x] = line
         /\ \A e \in Measured, l \in Steps :
              /\ e # "turn.end" \/ l # k => Events(s, e, l)' = Events(s, e, l)
              /\ \A i \in Events(s, e, l) : log'[s][i] = log[s][i] /\ i # x
         /\ Events(s, "turn.end", k)' = Events(s, "turn.end", k) \cup {x}
         /\ Lines(s, "tool.end")' = Lines(s, "tool.end")
         /\ Pairs(s, k)' = Pairs(s, k) /\ Busy(s, k)' = Busy(s, k)
         /\ \A l \in Steps \ {k} :
              spent'[s][l].model = spent[s][l].model /\ Over(s, l) => Over(s, l)'
    <2>1. "turn.end" \in Measured
      BY DEF Measured
    <2>2. \A e \in Measured, l \in Steps :
            e # "turn.end" \/ l # k => Events(s, e, l)' = Events(s, e, l)
      <3>1. line.ev = "turn.end" /\ line.step = k
        BY <1>6
      <3>2. QED
        BY <1>4, <1>5, <3>1, Elsewhere
    <2>3. Events(s, "turn.end", k)' = Events(s, "turn.end", k) \cup {x}
      <3>1. line.ev = "turn.end" /\ line.step = k
        BY <1>6
      <3>2. QED
        BY <1>4, <1>5, <2>1, <3>1, Here DEF x
    <2>4. /\ Grows(s) /\ log'[s][x] = line /\ x \notin DOMAIN log[s]
          /\ \A e \in Measured, l \in Steps : \A i \in Events(s, e, l) :
               log'[s][i] = log[s][i] /\ i # x
          /\ \A l \in Steps \ {k} :
               spent'[s][l].model = spent[s][l].model /\ Over(s, l) => Over(s, l)'
      BY <1>4, <1>5, <1>6, <2>1, MeasuredLine DEF x
    <2>5. /\ Lines(s, "tool.end")' = Lines(s, "tool.end")
          /\ Pairs(s, k)' = Pairs(s, k) /\ Busy(s, k)' = Busy(s, k)
      BY <1>4, <1>5, <1>6, <2>1, ToolsKept
    <2>6. QED
      BY <2>2, <2>3, <2>4, <2>5
  <1>11. CallLines(s)'
    <2>1. Grows(s) /\ Lines(s, "tool.end")' = Lines(s, "tool.end")
      BY <1>10
    <2>2. running'[s] \subseteq running[s] /\ parts'[s] = parts[s] /\ CallLines(s)
      BY <1>1, <1>7 DEF Turned
    <2>3. QED
      BY <2>1, <2>2, CallLinesKept
  <1>12. ASSUME Clean(s)'
         PROVE  Anchored(s)'
    <2>1. Anchored(s)
      <3>1. \A i \in DOMAIN log[s] : i \in DOMAIN log'[s] /\ log'[s][i] = log[s][i]
        BY <1>10 DEF Grows
      <3>2. Clean(s)
        BY <1>12, <3>1, CleanBefore
      <3>3. QED
        BY <1>1, <3>2 DEF Turned
    <2>2. Begun(s, k) /\ Settling(s, k)
      BY <1>2, <1>3, <2>1 DEF Anchored
    <2>3. Events(s, "turn.end", k)' = {x}
      BY <1>10, <2>2 DEF Begun, Measured
    <2>4. /\ Events(s, "turn.start", k)' = Events(s, "turn.start", k)
          /\ Events(s, "llm.end", k)' = Events(s, "llm.end", k)
      BY <1>10 DEF Measured
    <2>5. \A b \in Events(s, "turn.start", k) : log'[s][b].ts = state[s].turnStart[k]
      BY <1>10, <2>2 DEF Begun, Measured
    <2>6. \A l \in Events(s, "llm.end", k) :
            /\ log'[s][l].ts = state[s].llmEnd[k]
            /\ state[s].llmEnd[k] - state[s].turnStart[k]
                 = spent[s][k].model + Cardinality(Busy(s, k))
      BY <1>10, <2>2 DEF Settling, Measured
    <2>7. Over(s, k)'
      <3>1. line.tool = Cardinality(Pairs(s, k))
        BY <1>6, <2>2 DEF Begun
      <3>2. ASSUME NEW l \in Events(s, "llm.end", k)
            PROVE  line.llmTrue =
                     Larger(0, state[s].llmEnd[k] - state[s].turnStart[k] - line.tool)
        <4>1. log[s][l].ts = state[s].llmEnd[k] /\ log[s][l].ts \in Nat
          BY <2>2, <3>2, MeasuredLines, Marks DEF Settling, Events
        <4>2. QED
          BY <1>6, <4>1 DEF None
      <3>3. /\ \A i, j \in Events(s, "turn.start", k)' : i = j
            /\ \A i, j \in Events(s, "llm.end", k)' : i = j
            /\ \A i, j \in Events(s, "turn.end", k)' : i = j
        BY <2>2, <2>3, <2>4 DEF Begun, Settling
      <3>4. \A e \in Events(s, "turn.end", k)' : log'[s][e] = line
        BY <1>10, <2>3
      <3>5. \A e \in Events(s, "turn.end", k)', b \in Events(s, "turn.start", k)',
               l \in Events(s, "llm.end", k)' :
              /\ log'[s][l].ts - log'[s][b].ts = spent'[s][k].model + Cardinality(Busy(s, k)')
              /\ log'[s][e].llmTrue =
                   Larger(0, log'[s][l].ts - log'[s][b].ts - log'[s][e].tool)
        BY <1>7, <1>10, <2>4, <2>5, <2>6, <3>2, <3>4
      <3>6. \A e \in Events(s, "turn.end", k)' : log'[s][e].tool = Cardinality(Pairs(s, k)')
        BY <1>10, <3>1, <3>4
      <3>7. QED
        BY <3>3, <3>5, <3>6 DEF Over
    <2>8. Ahead(s)'
      <3>1. ASSUME NEW l \in Steps, l > k
            PROVE  /\ \A ev \in Measured : Events(s, ev, l)' = {}
                   /\ state'[s].llmEnd[l] = None
        <4>1. l > step[s] /\ l # k
          BY <1>2, <3>1, Numbers
        <4>2. QED
          BY <1>3, <1>9, <1>10, <2>1, <4>1 DEF Anchored, Ahead
      <3>2. QED
        BY <1>7, <3>1 DEF Ahead
    <2>9. ASSUME NEW l \in Steps
          PROVE  Over(s, l)'
      <3>1. CASE l # k
        <4>1. Over(s, l) /\ spent'[s][l].model = spent[s][l].model /\ l \in Steps \ {k}
          BY <1>7, <2>1, <3>1 DEF Anchored
        <4>2. QED
          BY <1>10, <4>1
      <3>2. QED
        BY <2>7, <3>1
    <2>10. QED
      BY <1>7, <2>3, <2>8, <2>9 DEF Anchored, InTurn
  <1>13. QED
    BY <1>8, <1>11, <1>12, OneTurns DEF Turned

LEMMA CompactionTurns ==
  ASSUME LoopInv, TurnedInv, NEW s \in Session, CompactionBegins(s) \/ CompactionEnds(s)
  PROVE  TurnedInv'
  <1>1. LoopTyped /\ DataTyped /\ Attuned(s) /\ Turned(s)
    BY DEF LoopInv, TurnedInv
  <1>2. PICK k \in Steps : k = step[s]
    BY <1>1 DEF LoopTyped
  <1> DEFINE n == Len(log[s])
  <1>3. phase[s] \in {"loop", "compact"} /\ phase[s] # "idle"
    BY DEF CompactionBegins, CompactionEnds
  <1>4. Open(s) /\ state[s].step = k
    <2>1. step[s] > 0
      BY <1>1 DEF CompactionBegins, CompactionEnds, Attuned
    <2>2. QED
      BY <1>1, <1>2, <1>3, <2>1 DEF Attuned
  <1> HIDE DEF n
  <1>5. Alone(s)
    <2>1. CASE CompactionBegins(s)
      BY <1>1, <2>1 DEF CompactionBegins, Alone, Hook, Go, LoopTyped, ghostVars
    <2>2. CASE CompactionEnds(s)
      BY <1>1, <2>2 DEF CompactionEnds, Alone, Hook, Go, LoopTyped, ghostVars
    <2>3. QED
      BY <2>1, <2>2
  <1>6. running'[s] = running[s] /\ parts'[s] = parts[s]
    BY DEF CompactionBegins, CompactionEnds
  <1>7. CASE CompactionBegins(s)
    <2> DEFINE line == [ev |-> "llm.start", ts |-> now, step |-> state[s].step]
    <2>1. line \in Line /\ line.ev = "llm.start" /\ line.ev \notin Measured /\ line.step = k
      BY <1>1, <1>4, MarkLineTyped DEF Measured
    <2>2. log' = [log EXCEPT ![s] = Append(@, line)] /\ phase[s] = "loop"
      BY <1>1, <1>7 DEF CompactionBegins, Hook, LoopTyped
    <2> HIDE DEF line
    <2>3. /\ Grows(s) /\ Lines(s, "tool.end")' = Lines(s, "tool.end")
          /\ \A ev \in Measured, l \in Steps : Events(s, ev, l)' = Events(s, ev, l)
      BY <2>1, <2>2, PlainLine
    <2>4. CallLines(s)'
      BY <1>1, <1>6, <2>3, CallLinesKept DEF Turned
    <2>5. ASSUME Clean(s)'
          PROVE  FALSE
      <3>1. Anchored(s)
        BY <1>1, <2>3, <2>5, CleanBefore DEF Grows, Turned
      <3>2. PICK i \in Events(s, "turn.end", k) : TRUE
        BY <1>2, <1>7, <2>2, <3>1 DEF Anchored, CompactionBegins
      <3>3. i \in Events(s, "turn.end", k)'
        BY <2>3, <3>2 DEF Measured
      <3>4. /\ n \in Nat /\ DOMAIN log[s] = 1..n /\ DOMAIN log'[s] = 1..(n + 1)
            /\ log'[s][n + 1] = line
        BY <2>1, <2>2, Appended DEF n
      <3>5. i \in 1..n
        BY <3>2, <3>4, EventsIn
      <3>6. n + 1 \in Events(s, "llm.start", k)' /\ i < n + 1
        BY <2>1, <3>4, <3>5 DEF Events, Lines
      <3>7. Compacted(s)'
        BY <3>3, <3>6 DEF Compacted
      <3>8. QED
        BY <2>5, <3>7 DEF Clean
    <2>6. QED
      BY <1>5, <2>4, <2>5, OneTurns DEF Turned
  <1>8. CASE CompactionEnds(s)
    <2> DEFINE line == LlmEndLine(s)
    <2>1. line \in Line /\ line.ev = "llm.end" /\ line.step = k
      BY <1>1, <1>4, LlmEndTyped DEF LlmEndLine
    <2>2. log' = [log EXCEPT ![s] = Append(@, line)] /\ phase[s] = "compact"
      BY <1>1, <1>8 DEF CompactionEnds, Hook, LoopTyped
    <2> HIDE DEF line
    <2>3. Grows(s) /\ Lines(s, "tool.end")' = Lines(s, "tool.end")
      <3>1. "llm.end" \in Measured
        BY DEF Measured
      <3>2. Grows(s)
        BY <2>1, <2>2, <3>1, MeasuredLine
      <3>3. Lines(s, "tool.end")' = Lines(s, "tool.end")
        BY <2>1, <2>2, <3>1, ToolsKept
      <3>4. QED
        BY <3>2, <3>3
    <2>4. CallLines(s)'
      BY <1>1, <1>6, <2>3, CallLinesKept DEF Turned
    <2>5. ~Clean(s)'
      <3>1. ~Clean(s)
        BY <1>1, <2>2 DEF Turned, Anchored
      <3>2. QED
        BY <2>3, <3>1, CleanBefore DEF Grows
    <2>6. QED
      BY <1>5, <2>4, <2>5, OneTurns DEF Turned
  <1>9. QED
    BY <1>7, <1>8

LEMMA ToolStartTurns ==
  ASSUME LoopInv, TurnedInv, NEW s \in Session, NEW c \in Call, ToolBegins(s, c)
  PROVE  TurnedInv'
  <1>1. LoopTyped /\ DataTyped /\ Attuned(s) /\ Accounted(s) /\ Turned(s)
    BY DEF LoopInv, TurnedInv
  <1>2. PICK k \in Steps : k = step[s]
    BY <1>1 DEF LoopTyped
  <1> DEFINE line == ToolStartLine(s, c)
  <1>3. phase[s] = "stream" /\ Open(s) /\ InTurn(s) /\ state[s] \in HookState
    BY <1>1, StateTyped DEF ToolBegins, Attuned, InTurn
  <1>4. line \in Line /\ line.ev \notin Measured
    BY <1>1, <1>3, ToolStartTyped DEF ToolStartLine, Measured
  <1>5. log' = [log EXCEPT ![s] = Append(@, line)] /\ state'[s] = ToolStart(s, c)
    BY <1>1 DEF ToolBegins, Hook, LoopTyped
  <1>6. /\ phase'[s] = "stream" /\ step'[s] = k /\ now' = now /\ spent' = spent
        /\ running'[s] = running[s] \cup {c}
    BY <1>1, <1>2, <1>3 DEF ToolBegins, LoopTyped, ghostVars
  <1>7. Alone(s)
    BY <1>1 DEF ToolBegins, Alone, Hook, LoopTyped, DataTyped, ghostVars
  <1>8. /\ state'[s].turnStart = state[s].turnStart /\ state'[s].toolWall = state[s].toolWall
        /\ state'[s].llmEnd = state[s].llmEnd /\ state'[s].toolStart[c].ms = now
        /\ \A d \in Call \ {c} : state'[s].toolStart[d] = state[s].toolStart[d]
    <2>1. state'[s].toolStart =
            [state[s].toolStart EXCEPT ![c] = [ms |-> now, step |-> state[s].step]]
      BY <1>1, <1>3, <1>5, ToolStartTyped
    <2>2. DOMAIN state[s].toolStart = Call
      BY <1>3 DEF HookState
    <2>3. state'[s].llmEnd = state[s].llmEnd
      BY <1>1, <1>2, <1>3, <1>5, LlmEndField
    <2>4. QED
      BY <1>1, <1>3, <1>5, <2>1, <2>2, <2>3, ToolStartTyped
  <1> HIDE DEF line
  <1>9. /\ Grows(s) /\ Lines(s, "tool.end")' = Lines(s, "tool.end")
        /\ \A ev \in Measured, l \in Steps : Events(s, ev, l)' = Events(s, ev, l)
    BY <1>4, <1>5, PlainLine
  <1>10. \A i \in DOMAIN parts[s] : /\ parts[s][i].call # c
                                    /\ i \in DOMAIN parts'[s] /\ parts'[s][i] = parts[s][i]
    <2>1. parts[s] \in Seq(Part)
      BY <1>1 DEF DataTyped
    <2>2. parts'[s] =
            Append(parts[s], [call |-> c, status |-> "running", start |-> now, end |-> None])
      BY <1>1 DEF ToolBegins, DataTyped
    <2>3. QED
      BY <2>1, <2>2 DEF ToolBegins
  <1>11. c \notin running[s]
    BY <1>1, <1>10 DEF Accounted, Kept
  <1>12. CallLines(s)'
    <2>1. \A i \in Lines(s, "tool.end") : log'[s][i] = log[s][i]
      BY <1>9 DEF Grows, Lines
    <2>2. CallLines(s)
      BY <1>1 DEF Turned
    <2>3. ASSUME NEW i \in Lines(s, "tool.end")
          PROVE  /\ log[s][i].call \notin running'[s]
                 /\ \E j \in DOMAIN parts'[s] : parts'[s][j].call = log[s][i].call
      <3>1. PICK j \in DOMAIN parts[s] : parts[s][j].call = log[s][i].call
        BY <2>2 DEF CallLines
      <3>2. log[s][i].call # c
        BY <1>10, <3>1
      <3>3. QED
        BY <1>6, <1>10, <2>2, <3>1, <3>2 DEF CallLines
    <2>4. QED
      BY <1>9, <2>1, <2>2, <2>3 DEF CallLines
  <1>13. BusyCalls(s)' = BusyCalls(s)
    <2>1. ASSUME NEW m \in Moment
          PROVE  (m < now /\ \E d \in running'[s] : state'[s].toolStart[d].ms <= m)
                 <=> (m < now /\ \E d \in running[s] : state[s].toolStart[d].ms <= m)
      <3>1. m \in Int /\ now \in Nat /\ running[s] \subseteq Call
        BY <1>1, Marks DEF LoopTyped, Moment
      <3>2. m < now => ~(state'[s].toolStart[c].ms <= m)
        BY <1>8, <3>1
      <3>3. QED
        BY <1>6, <1>8, <1>11, <3>1, <3>2
    <2>2. QED
      BY <1>6, <2>1 DEF BusyCalls, Moment
  <1>14. ASSUME Clean(s)'
         PROVE  Anchored(s)'
    <2>1. Anchored(s)
      <3>1. \A i \in DOMAIN log[s] : i \in DOMAIN log'[s] /\ log'[s][i] = log[s][i]
        BY <1>9 DEF Grows
      <3>2. Clean(s)
        BY <1>14, <3>1, CleanBefore
      <3>3. QED
        BY <1>1, <3>2 DEF Turned
    <2>2. ASSUME NEW l \in Steps
          PROVE  Pairs(s, l)' = Pairs(s, l) /\ Busy(s, l)' = Busy(s, l) /\ Over(s, l)'
      <3>1. \A i \in DOMAIN log[s] : log'[s][i] = log[s][i]
        BY <1>9 DEF Grows
      <3>2. QED
        BY <1>6, <1>9, <2>1, <3>1, StepKept DEF Anchored
    <2>3. Begun(s, k) /\ Streaming(s, k)
      BY <1>2, <1>3, <2>1 DEF Anchored
    <2>4. \A i \in Events(s, "turn.start", k) : log'[s][i] = log[s][i]
      BY <1>9, EventsIn DEF Grows
    <2>5. Begun(s, k)'
      BY <1>8, <1>9, <2>2, <2>3, <2>4 DEF Begun, Measured
    <2>6. BusyNow(s, k)' = BusyNow(s, k)
      BY <1>13, <2>2 DEF BusyNow
    <2>7. Streaming(s, k)'
      BY <1>6, <1>8, <1>9, <2>3, <2>6 DEF Streaming, Measured
    <2>8. Ahead(s)'
      BY <1>2, <1>3, <1>6, <1>8, <1>9, <2>1 DEF Anchored, Ahead
    <2>9. QED
      BY <1>6, <2>2, <2>5, <2>7, <2>8 DEF Anchored
  <1>15. QED
    BY <1>7, <1>12, <1>14, OneTurns DEF Turned

\* The ticks of a call that ended.
LEMMA CallTicks ==
  ASSUME NEW a \in Nat, NEW b \in Nat, a <= b, NEW x
  PROVE  /\ IsFiniteSet({x} \X (a..(b - 1))) /\ Cardinality({x} \X (a..(b - 1))) = b - a
  <1>1. IsFiniteSet(a..(b - 1)) /\ Cardinality(a..(b - 1)) = b - a
    <2>1. /\ IsFiniteSet(a..(b - 1))
          /\ Cardinality(a..(b - 1)) = IF a > b - 1 THEN 0 ELSE (b - 1) - a + 1
      BY FS_Interval
    <2>2. QED
      BY <2>1
  <1>2. IsFiniteSet({x}) /\ Cardinality({x}) = 1
    BY FS_Singleton
  <1> DEFINE T == a..(b - 1)
  <1> HIDE DEF T
  <1>3. IsFiniteSet(T) /\ Cardinality(T) = b - a
    BY <1>1 DEF T
  <1> DEFINE S == {x}
  <1>4. IsFiniteSet(S) /\ Cardinality(S) = 1
    BY <1>2 DEF S
  <1> HIDE DEF S
  <1>5. IsFiniteSet(S \X T) /\ Cardinality(S \X T) = Cardinality(S) * Cardinality(T)
    BY <1>3, <1>4, FS_Product
  <1>6. b - a \in Nat /\ 1 * (b - a) = b - a
    OBVIOUS
  <1>7. Cardinality(S \X T) = b - a
    BY <1>3, <1>4, <1>5, <1>6
  <1>8. QED
    BY <1>5, <1>7 DEF S, T

LEMMA ToolEndTurns ==
  ASSUME LoopInv, TurnedInv, NEW s \in Session, NEW c \in Call, NEW ok \in BOOLEAN,
         ToolEnds(s, c, ok)
  PROVE  TurnedInv'
  <1>1. LoopTyped /\ DataTyped /\ Attuned(s) /\ Accounted(s) /\ Turned(s)
    BY DEF LoopInv, TurnedInv
  <1>2. PICK k \in Steps : k = step[s]
    BY <1>1 DEF LoopTyped
  <1> DEFINE ms == state[s].toolStart[c].ms
             line == ToolEndLine(s, c, ok)
             x == Len(log[s]) + 1
  <1>4. /\ c \in running[s] /\ phase[s] = "stream" /\ InTurn(s) /\ Open(s)
        /\ state[s] \in HookState /\ Kept(s, c)
    BY <1>1, StateTyped DEF ToolEnds, Attuned, InTurn, Accounted
  <1>5. /\ now \in Nat /\ now \in 0..MaxTime /\ MaxTime \in Nat /\ ms \in Nat /\ ms <= now
        /\ state[s].toolStart[c].step = k /\ state[s].toolWall[k] \in Nat
    <2>1. now \in Nat /\ now \in 0..MaxTime /\ MaxTime \in Nat
      BY <1>1, Numbers, Marks DEF LoopTyped, Duration
    <2>2. ms \in 0..now
      BY <1>4 DEF Kept
    <2>3. QED
      BY <1>1, <1>2, <1>4, <2>1, <2>2 DEF Kept, Attuned
  <1>6. /\ line \in Line /\ line.ev = "tool.end" /\ line.step = k /\ line.ts = now
        /\ line.duration = now - ms /\ line.call = c
    <2>1. line \in Line
      <3>1. state[s].toolStart[c].ms \in 0..now
        BY <1>5
      <3>2. QED
        BY <1>1, <1>4, <1>5, <3>1, ToolEndTyped
    <2>2. QED
      BY <1>5, <2>1 DEF ToolEndLine
  <1>7. log' = [log EXCEPT ![s] = Append(@, line)] /\ state'[s] = ToolEnd(s, c)
    BY <1>1 DEF ToolEnds, Hook, LoopTyped
  <1>8. /\ phase'[s] = "stream" /\ step'[s] = k /\ now' = now /\ spent' = spent
        /\ running'[s] = running[s] \ {c}
    BY <1>1, <1>2, <1>4 DEF ToolEnds, LoopTyped, ghostVars
  <1>9. Alone(s)
    BY <1>1 DEF ToolEnds, Alone, Hook, LoopTyped, DataTyped, ghostVars
  <1>10. /\ state'[s].turnStart = state[s].turnStart /\ state'[s].llmEnd = state[s].llmEnd
         /\ state'[s].toolWall[k] = state[s].toolWall[k] + (now - ms)
         /\ \A d \in Call \ {c} : state'[s].toolStart[d] = state[s].toolStart[d]
    <2>1. /\ ToolEnd(s, c).toolWall = [state[s].toolWall EXCEPT ![k] = @ + (now - ms)]
          /\ ToolEnd(s, c).turnStart = state[s].turnStart
          /\ \A d \in Call \ {c} : ToolEnd(s, c).toolStart[d] = state[s].toolStart[d]
      <3>1. state[s].toolStart[c].ms \in 0..now
        BY <1>5
      <3>2. QED
        BY <1>1, <1>4, <1>5, <3>1, ToolEndTyped
    <2>2. DOMAIN state[s].toolWall = Steps
      BY <1>4 DEF HookState
    <2>3. state'[s].llmEnd = state[s].llmEnd
      BY <1>1, <1>2, <1>4, <1>7, LlmEndField
    <2>4. QED
      BY <1>7, <2>1, <2>2, <2>3
  <1> HIDE DEF line, x, ms
  <1>11. /\ Grows(s) /\ log'[s][x] = line /\ x \notin DOMAIN log[s]
         /\ \A e \in Measured, l \in Steps :
              /\ e # "tool.end" \/ l # k => Events(s, e, l)' = Events(s, e, l)
              /\ \A i \in Events(s, e, l) : log'[s][i] = log[s][i] /\ i # x
         /\ Events(s, "tool.end", k)' = Events(s, "tool.end", k) \cup {x}
         /\ \A l \in Steps \ {k} :
              spent'[s][l].model = spent[s][l].model /\ Over(s, l) => Over(s, l)'
    <2>1. "tool.end" \in Measured
      BY DEF Measured
    <2>2. \A e \in Measured, l \in Steps :
            e # "tool.end" \/ l # k => Events(s, e, l)' = Events(s, e, l)
      <3>1. line \in Line /\ line.ev = "tool.end" /\ line.step = k
        BY <1>6
      <3>2. QED
        BY <1>7, <3>1, Elsewhere
    <2>3. Events(s, "tool.end", k)' = Events(s, "tool.end", k) \cup {x}
      <3>1. line \in Line /\ line.ev = "tool.end" /\ line.step = k
        BY <1>6
      <3>2. QED
        BY <1>7, <2>1, <3>1, Here DEF x
    <2>4. /\ Grows(s) /\ log'[s][x] = line /\ x \notin DOMAIN log[s]
          /\ \A e \in Measured, l \in Steps : \A i \in Events(s, e, l) :
               log'[s][i] = log[s][i] /\ i # x
          /\ \A l \in Steps \ {k} :
               spent'[s][l].model = spent[s][l].model /\ Over(s, l) => Over(s, l)'
      BY <1>6, <1>7, <2>1, MeasuredLine DEF x
    <2>5. QED
      BY <2>2, <2>3, <2>4
  <1>12. Lines(s, "tool.end")' = Lines(s, "tool.end") \cup {x}
    <2>1. \A ev : Lines(s, ev)' =
            Lines(s, ev) \cup (IF line.ev = ev THEN {Len(log[s]) + 1} ELSE {})
      BY <1>6, <1>7, Extended
    <2>2. QED
      BY <1>6, <2>1, Zenon DEF x
  <1>13. CallLines(s)'
    <2>1. CallLines(s)
      BY <1>1 DEF Turned
    <2>2. \A i \in Lines(s, "tool.end") :
            log'[s][i] = log[s][i] /\ i # x /\ log[s][i].call # c
      BY <1>4, <1>11, <2>1 DEF Lines, Grows, CallLines
    <2>3. \A i \in DOMAIN parts[s] : i \in DOMAIN parts'[s] /\ parts'[s][i].call = parts[s][i].call
      <3>1. parts[s] \in Seq(Part)
        BY <1>1 DEF DataTyped
      <3>2. parts'[s] = [i \in 1..Len(parts[s]) |->
               IF parts[s][i].call # c THEN parts[s][i]
               ELSE [parts[s][i] EXCEPT !.status = IF ok THEN "completed" ELSE "error",
                                        !.end = now]]
        BY <1>1 DEF ToolEnds, DataTyped
      <3>3. \A p \in Part :
              [p EXCEPT !.status = IF ok THEN "completed" ELSE "error", !.end = now].call = p.call
        BY DEF Part
      <3>4. DOMAIN parts[s] = 1..Len(parts[s]) /\ \A i \in DOMAIN parts[s] : parts[s][i] \in Part
        BY <3>1
      <3>5. QED
        BY <3>2, <3>3, <3>4
    <2>4. \E j \in DOMAIN parts[s] : parts[s][j].call = c
      BY <1>4 DEF Kept
    <2>5. line.ts - line.duration >= 0
      BY <1>5, <1>6
    <2>6. \A i, j \in Lines(s, "tool.end")' : log'[s][i].call = log'[s][j].call => i = j
      BY <1>6, <1>11, <1>12, <2>1, <2>2 DEF CallLines
    <2>7. ASSUME NEW i \in Lines(s, "tool.end")'
          PROVE  /\ log'[s][i].call \notin running'[s]
                 /\ \E j \in DOMAIN parts'[s] : parts'[s][j].call = log'[s][i].call
                 /\ log'[s][i].ts - log'[s][i].duration >= 0
      <3>1. CASE i = x
        BY <1>6, <1>8, <1>11, <2>3, <2>4, <2>5, <3>1
      <3>2. CASE i \in Lines(s, "tool.end")
        BY <1>8, <2>1, <2>2, <2>3, <3>2 DEF CallLines
      <3>3. QED
        BY <1>12, <2>7, <3>1, <3>2
    <2>8. QED
      BY <2>6, <2>7 DEF CallLines
  <1>14. \A m \in Moment : During(line, m) <=> m \in ms..(now - 1)
    BY <1>5, <1>6 DEF During, Moment
  <1>15. ms..(now - 1) \subseteq Moment
    BY <1>5 DEF Moment
  <1>16. /\ Events(s, "tool.end", k)' = Events(s, "tool.end", k) \cup {x}
         /\ x \notin Events(s, "tool.end", k)
         /\ \A i \in Events(s, "tool.end", k) : log'[s][i] = log[s][i]
    BY <1>11 DEF Measured
  <1>17. Cardinality(Pairs(s, k)') = Cardinality(Pairs(s, k)) + (now - ms)
    <2> DEFINE new == {x} \X (ms..(now - 1))
    <2>1. Pairs(s, k)' =
            {r \in (Events(s, "tool.end", k) \cup {x}) \X Moment : During(log'[s][r[1]], r[2])}
      BY <1>16 DEF Pairs, During, Moment
    <2>2. Pairs(s, k)' = Pairs(s, k) \cup new
      <3>1. ASSUME NEW i \in Events(s, "tool.end", k) \cup {x}, NEW m \in Moment
            PROVE  During(log'[s][i], m) <=> <<i, m>> \in Pairs(s, k) \cup new
        <4>1. CASE i = x
          BY <1>11, <1>14, <1>16, <4>1 DEF Pairs
        <4>2. CASE i # x
          BY <1>16, <3>1, <4>2 DEF Pairs
        <4>3. QED
          BY <4>1, <4>2
      <3>2. Pairs(s, k) \cup new \subseteq (Events(s, "tool.end", k) \cup {x}) \X Moment
        BY <1>15 DEF Pairs
      <3>3. QED
        BY <2>1, <3>1, <3>2
    <2>3. IsFiniteSet(new) /\ Cardinality(new) = now - ms
      BY <1>5, CallTicks
    <2>4. Pairs(s, k) \cap new = {}
      BY <1>16 DEF Pairs
    <2> HIDE DEF new
    <2>5. IsFiniteSet(Pairs(s, k)) /\ Cardinality(Pairs(s, k)) \in Nat
      BY FiniteEvents
    <2>6. Cardinality(Pairs(s, k) \cup new) =
            Cardinality(Pairs(s, k)) + Cardinality(new) - Cardinality({})
      BY <2>3, <2>4, <2>5, FS_Union
    <2>7. Cardinality({}) = 0
      BY FS_EmptySet
    <2>8. QED
      BY <1>5, <2>2, <2>3, <2>5, <2>6, <2>7
  <1>18. BusyNow(s, k)' = BusyNow(s, k)
    <2>1. Busy(s, k)' =
            {m \in Moment : \E i \in Events(s, "tool.end", k) \cup {x} : During(log'[s][i], m)}
      BY <1>16 DEF Busy, During, Moment
    <2>2. Busy(s, k)' = Busy(s, k) \cup (ms..(now - 1))
      <3>1. ASSUME NEW m \in Moment
            PROVE  (\E i \in Events(s, "tool.end", k) \cup {x} : During(log'[s][i], m))
                   <=> m \in Busy(s, k) \/ m \in ms..(now - 1)
        BY <1>11, <1>14, <1>16 DEF Busy
      <3>2. Busy(s, k) \subseteq Moment
        BY DEF Busy
      <3>3. QED
        BY <1>15, <2>1, <3>1, <3>2
    <2>3. BusyCalls(s)' =
            {m \in Moment : m < now /\ \E d \in running[s] \ {c} : state'[s].toolStart[d].ms <= m}
      BY <1>8 DEF BusyCalls, Moment
    <2>4. BusyCalls(s) = BusyCalls(s)' \cup (ms..(now - 1))
      <3>1. running[s] \subseteq Call
        BY <1>1 DEF LoopTyped
      <3>2. \A d \in running[s] \ {c} : state'[s].toolStart[d] = state[s].toolStart[d]
        BY <1>10, <3>1
      <3>3. \A m \in Moment : (m < now /\ ms <= m) <=> m \in ms..(now - 1)
        BY <1>5 DEF Moment
      <3>4. QED
        BY <1>4, <1>15, <2>3, <3>2, <3>3 DEF BusyCalls, ms
    <2>5. QED
      BY <2>2, <2>4 DEF BusyNow
  <1>19. ASSUME Clean(s)'
         PROVE  Anchored(s)'
    <2>1. Anchored(s)
      <3>1. \A i \in DOMAIN log[s] : i \in DOMAIN log'[s] /\ log'[s][i] = log[s][i]
        BY <1>11 DEF Grows
      <3>2. Clean(s)
        BY <1>19, <3>1, CleanBefore
      <3>3. QED
        BY <1>1, <3>2 DEF Turned
    <2>2. Begun(s, k) /\ Streaming(s, k)
      BY <1>2, <1>4, <2>1 DEF Anchored
    <2>3. /\ Events(s, "turn.start", k)' = Events(s, "turn.start", k)
          /\ Events(s, "turn.end", k)' = {} /\ Events(s, "llm.end", k)' = {}
          /\ \A i \in Events(s, "turn.start", k) : log'[s][i] = log[s][i]
      BY <1>11, <2>2 DEF Begun, Streaming, Measured
    <2>4. Begun(s, k)'
      <3>1. state'[s].toolWall[k] = Cardinality(Pairs(s, k)')
        BY <1>10, <1>17, <2>2 DEF Begun
      <3>2. QED
        BY <1>10, <2>2, <2>3, <3>1 DEF Begun
    <2>5. Streaming(s, k)'
      BY <1>8, <1>10, <1>18, <2>2, <2>3 DEF Streaming
    <2>6. Ahead(s)'
      <3>1. ASSUME NEW l \in Steps, l > k
            PROVE  /\ \A ev \in Measured : Events(s, ev, l)' = {}
                   /\ state'[s].llmEnd[l] = None
        <4>1. l > step[s] /\ l # k
          BY <1>2, <3>1, Numbers
        <4>2. QED
          BY <1>4, <1>10, <1>11, <2>1, <4>1 DEF Anchored, Ahead
      <3>2. QED
        BY <1>8, <3>1 DEF Ahead
    <2>7. ASSUME NEW l \in Steps
          PROVE  Over(s, l)'
      <3>1. CASE l = k
        BY <2>3, <3>1 DEF Over
      <3>2. CASE l # k
        <4>1. Over(s, l) /\ spent'[s][l].model = spent[s][l].model /\ l \in Steps \ {k}
          BY <1>8, <2>1, <3>2 DEF Anchored
        <4>2. QED
          BY <1>11, <4>1
      <3>3. QED
        BY <3>1, <3>2
    <2>8. QED
      BY <1>8, <2>4, <2>5, <2>6, <2>7 DEF Anchored
  <1>20. QED
    BY <1>9, <1>13, <1>19, OneTurns DEF Turned

\* What a tick adds to the turn of the step that a session is in.
LEMMA TickSpends ==
  ASSUME LoopInv, Tick, NEW s \in Session
  PROVE  /\ \A l \in Steps : ~InTurn(s) \/ l # step[s] => spent'[s][l].model = spent[s][l].model
         /\ InTurn(s) => spent'[s][step[s]].model =
              spent[s][step[s]].model + One(phase[s] # "settle" /\ running[s] = {})
  <1>1. spent[s] \in [Steps -> Tally] /\ step[s] \in Steps
    BY DEF LoopInv, LoopTyped, DataTyped
  <1>2. CASE ~InTurn(s)
    BY <1>2 DEF Tick
  <1>3. CASE InTurn(s)
    <2> DEFINE tally == [model |-> spent[s][step[s]].model
                                     + One(phase[s] # "settle" /\ running[s] = {}),
                         tools |-> spent[s][step[s]].tools + One(running[s] \ Tasked # {}),
                         task |-> spent[s][step[s]].task + One(running[s] \cap Tasked # {})]
    <2>1. spent'[s] = [spent[s] EXCEPT ![step[s]] = tally]
      BY <1>3 DEF Tick
    <2>2. tally.model =
            spent[s][step[s]].model + One(phase[s] # "settle" /\ running[s] = {})
      OBVIOUS
    <2> HIDE DEF tally
    <2>3. QED
      BY <1>1, <1>3, <2>1, <2>2
  <1>4. QED
    BY <1>2, <1>3

\* A tick is busy exactly if a call is under way, and no tick was counted before it.
LEMMA TickBusy ==
  ASSUME LoopInv, SequencedInv, Tick, NEW s \in Session, NEW k \in Steps
  PROVE  Cardinality(BusyNow(s, k)') =
           Cardinality(BusyNow(s, k)) + (IF running[s] = {} THEN 0 ELSE 1)
  <1>1. /\ now \in Nat /\ MaxTime \in Nat /\ now < MaxTime /\ now' = now + 1
        /\ log' = log /\ state' = state /\ running' = running
    BY Numbers, Marks DEF Tick, LoopInv, LoopTyped, loopVars
  <1>2. Busy(s, k)' = Busy(s, k)
    BY <1>1 DEF Busy, Events, Lines, During, Moment
  <1>3. IsFiniteSet(BusyNow(s, k)) /\ Cardinality(BusyNow(s, k)) \in Nat
    BY FiniteEvents
  <1>4. BusyCalls(s)' =
          {m \in Moment : m < now + 1 /\ \E c \in running[s] : state[s].toolStart[c].ms <= m}
    BY <1>1 DEF BusyCalls, Moment
  <1>5. CASE running[s] = {}
    <2>1. BusyNow(s, k)' = BusyNow(s, k)
      BY <1>2, <1>4, <1>5 DEF BusyNow, BusyCalls
    <2>2. QED
      BY <1>3, <1>5, <2>1
  <1>6. CASE running[s] # {}
    <2>1. PICK c \in running[s] : TRUE
      BY <1>6
    <2>2. state[s].toolStart[c].ms <= now
      BY <1>1, <2>1 DEF LoopInv, Accounted, Kept
    <2>3. now \in Moment
      BY <1>1 DEF Moment
    <2>4. BusyCalls(s)' = BusyCalls(s) \cup {now}
      <3>1. \A m \in Moment : m < now + 1 <=> m < now \/ m = now
        BY <1>1 DEF Moment
      <3>2. QED
        BY <1>4, <2>1, <2>2, <2>3, <3>1 DEF BusyCalls
    <2>5. now \notin Busy(s, k)
      <3>1. ASSUME NEW i \in Events(s, "tool.end", k)
            PROVE  ~(now < log[s][i].ts)
        <4>1. i \in DOMAIN log[s] /\ log[s][i].ts \in Nat
          BY EventsIn, MeasuredLines, Marks DEF Events
        <4>2. log[s][i].ts <= now
          BY <4>1 DEF SequencedInv, Sequenced
        <4>3. QED
          BY <1>1, <4>1, <4>2
      <3>2. QED
        BY <3>1 DEF Busy, During
    <2>6. now \notin BusyNow(s, k)
      BY <1>1, <2>5 DEF BusyNow, BusyCalls
    <2>7. BusyNow(s, k)' = BusyNow(s, k) \cup {now}
      BY <1>2, <2>4 DEF BusyNow
    <2>8. Cardinality(BusyNow(s, k) \cup {now}) = Cardinality(BusyNow(s, k)) + 1
      BY <1>3, <2>6, FS_AddElement
    <2>9. QED
      BY <1>6, <2>7, <2>8
  <1>7. QED
    BY <1>5, <1>6

LEMMA TickTurns ==
  ASSUME LoopInv, SequencedInv, TurnedInv, Tick
  PROVE  TurnedInv'
  <1>1. SUFFICES ASSUME NEW s \in Session
                 PROVE  Turned(s)'
    BY DEF TurnedInv
  <1>2. LoopTyped /\ DataTyped /\ Attuned(s) /\ Turned(s)
    BY DEF LoopInv, TurnedInv
  <1>3. /\ log' = log /\ state' = state /\ phase' = phase /\ step' = step
        /\ running' = running /\ parts' = parts /\ now' = now + 1 /\ now \in Nat
    BY <1>2, Marks DEF Tick, loopVars, LoopTyped
  <1>4. \A ev : Lines(s, ev)' = Lines(s, ev)
    BY <1>3 DEF Lines
  <1>5. \A ev, k : Events(s, ev, k)' = Events(s, ev, k)
    BY <1>3, <1>4 DEF Events
  <1>6. CallLines(s)'
    BY <1>2, <1>3, <1>4 DEF Turned, CallLines
  <1>7. ASSUME Clean(s)'
        PROVE  Anchored(s)'
    <2>1. Anchored(s)
      BY <1>2, <1>3, <1>7, CleanBefore DEF Turned
    <2>2. PICK k \in Steps : k = step[s]
      BY <1>2 DEF LoopTyped
    <2>3. /\ spent[s][k].model \in Nat /\ \A l \in Steps : ~InTurn(s) \/ l # k =>
                                            spent'[s][l].model = spent[s][l].model
          /\ InTurn(s) => spent'[s][k].model =
               spent[s][k].model + One(phase[s] # "settle" /\ running[s] = {})
      BY <1>2, <2>2, TickSpends DEF DataTyped, Tally
    <2>4. \A l \in Steps : /\ Pairs(s, l)' = Pairs(s, l) /\ Busy(s, l)' = Busy(s, l)
                           /\ spent'[s][l].model = spent[s][l].model /\ Over(s, l) => Over(s, l)'
      BY <1>3, <1>5, StepKept
    <2>5. InTurn(s) => Begun(s, k)'
      BY <1>3, <1>5, <2>1, <2>2, <2>4 DEF Anchored, Begun
    <2>6. ASSUME phase[s] \in {"turn", "stream"}
          PROVE  Streaming(s, k)'
      <3>1. Streaming(s, k) /\ InTurn(s) /\ phase[s] # "settle"
        BY <2>1, <2>2, <2>6 DEF Anchored, InTurn
      <3>2. state[s].turnStart[k] \in Nat
        <4>1. state[s].turnStart[k] \in 0..now
          BY <1>2, <2>2, <3>1 DEF Attuned
        <4>2. QED
          BY <4>1
      <3>3. /\ Cardinality(BusyNow(s, k)') =
                 Cardinality(BusyNow(s, k)) + (IF running[s] = {} THEN 0 ELSE 1)
            /\ Cardinality(BusyNow(s, k)) \in Nat
        BY TickBusy, FiniteEvents
      <3>4. spent'[s][k].model = spent[s][k].model + (IF running[s] = {} THEN 1 ELSE 0)
        BY <2>3, <3>1 DEF One
      <3>5. (now + 1) - state[s].turnStart[k] =
              spent'[s][k].model + Cardinality(BusyNow(s, k)')
        <4> DEFINE start == state[s].turnStart[k]
                   busy == Cardinality(BusyNow(s, k))
                   model == spent[s][k].model
        <4>1. start \in Nat /\ busy \in Nat /\ model \in Nat /\ now \in Nat
          BY <1>3, <2>3, <3>2, <3>3
        <4>2. now - start = model + busy
          BY <3>1 DEF Streaming
        <4> HIDE DEF start, busy, model
        <4>3. (now + 1) - start = model + busy + 1
          BY <4>1, <4>2
        <4>4. spent'[s][k].model = model + (IF running[s] = {} THEN 1 ELSE 0)
          BY <3>4 DEF model
        <4>5. Cardinality(BusyNow(s, k)') = busy + (IF running[s] = {} THEN 0 ELSE 1)
          BY <3>3 DEF busy
        <4>6. (now + 1) - start = spent'[s][k].model + Cardinality(BusyNow(s, k)')
          BY <4>1, <4>3, <4>4, <4>5
        <4>7. QED
          BY <4>6 DEF start
      <3>6. Events(s, "llm.end", k)' = {} /\ state'[s].llmEnd[k] = None
        BY <1>3, <1>5, <3>1 DEF Streaming
      <3>7. now' - state'[s].turnStart[k] = spent'[s][k].model + Cardinality(BusyNow(s, k)')
        <4>1. now' = now + 1 /\ state'[s].turnStart[k] = state[s].turnStart[k]
          BY <1>3
        <4>2. QED
          BY <3>5, <4>1, Zenon
      <3>8. QED
        BY <3>6, <3>7 DEF Streaming
    <2>7. ASSUME phase[s] = "settle"
          PROVE  Settling(s, k)'
      <3>1. Settling(s, k) /\ InTurn(s)
        BY <2>1, <2>2, <2>7 DEF Anchored, InTurn
      <3>2. spent'[s][k].model = spent[s][k].model
        BY <2>3, <2>7, <3>1 DEF One
      <3>3. QED
        BY <1>3, <1>5, <2>4, <3>1, <3>2 DEF Settling
    <2>8. ASSUME NEW l \in Steps
          PROVE  Over(s, l)'
      <3>1. CASE InTurn(s) /\ l = k
        <4>1. Events(s, "turn.end", k) = {}
          BY <2>1, <2>2, <3>1 DEF Anchored, Begun
        <4>2. Events(s, "turn.end", l)' = {}
          BY <1>5, <3>1, <4>1
        <4>3. QED
          BY <4>2 DEF Over
      <3>2. CASE ~InTurn(s) \/ l # k
        <4>1. Over(s, l)
          BY <2>1 DEF Anchored
        <4>2. spent'[s][l].model = spent[s][l].model
          BY <2>3, <3>2
        <4>3. QED
          BY <2>4, <4>1, <4>2
      <3>3. QED
        BY <3>1, <3>2
    <2>9. Ahead(s)'
      BY <1>3, <1>5, <2>1 DEF Anchored, Ahead
    <2>10. QED
      BY <1>3, <1>5, <2>1, <2>2, <2>5, <2>6, <2>7, <2>8, <2>9 DEF Anchored, InTurn
  <1>8. QED
    BY <1>6, <1>7 DEF Turned

LEMMA TurnedNext ==
  ASSUME LoopInv, SequencedInv, TurnedInv, [Next]_vars
  PROVE  TurnedInv'
  <1>1. CASE UNCHANGED vars
    BY <1>1, TimeoutTurns
  <1>2. CASE Next
    BY <1>2, QueryTurns, TurnTurns, MarksTurn, StepEndTurns, TurnEndTurns, UpsetsTurn,
       CompactionTurns, ToolStartTurns, ToolEndTurns, TimeoutTurns, TickTurns DEF Next
  <1>3. QED
    BY <1>1, <1>2

LEMMA TurnedInvariant == Spec => []TurnedInv
  <1>1. Init => TurnedInv
    <2>1. SUFFICES ASSUME Init, NEW s \in Session PROVE Turned(s)
      BY DEF TurnedInv
    <2>2. DOMAIN log[s] = {} /\ phase[s] = "idle"
      BY <2>1 DEF Init
    <2>3. \A ev, k : Lines(s, ev) = {} /\ Events(s, ev, k) = {}
      BY <2>2 DEF Lines, Events
    <2>4. QED
      BY <2>2, <2>3 DEF Turned, CallLines, Anchored, InTurn, Ahead, Over, Measured
  <1>2. LoopInv /\ SequencedInv /\ TurnedInv /\ [Next]_vars => TurnedInv'
    BY TurnedNext
  <1>3. QED
    BY <1>1, <1>2, LoopInvariant, SequencedInvariant, PTL DEF Spec

\* The model's share of a turn as the profiler writes it down (llmTrue, from the end of the
\* stream, the start of the turn and the time under tools) and as analyze_profiles.py
\* computes it again from the lines is the time the turn spent before finish-step without a
\* tool under way, for any number of sessions, tools and upsets; parallel tools, which the
\* hooks count once each, can only make it less.
THEOREM AnchoredTrue == Spec => []AnchoredIsTrue
  <1>1. LoopInv /\ TurnedInv => AnchoredIsTrue
    BY AnchoredTurns
  <1>2. QED
    BY <1>1, LoopInvariant, TurnedInvariant, PTL
===============================================================================
