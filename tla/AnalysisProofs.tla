---------------------------- MODULE AnalysisProofs ----------------------------
(***************************************************************************)
(* That what the analysis scripts add up from the profiler's logs is what  *)
(* happened, for any sessions, calls, steps, ticks and upsets.             *)
(*                                                                         *)
(* First, what each hook adds to a log and to the record.  Then one        *)
(* invariant for each of the four properties, beside those of              *)
(* ProfileProofs: the messages retell every call that ended (MessagesInv); *)
(* a turn's parts fit into what it took so far, in every phase (TimedInv,  *)
(* WrittenInv); a turn was blocked at the moments that its calls cover     *)
(* (WaitedInv), which is what the sweep over the sorted intervals counts   *)
(* (Stretches, UnionIsCover); turns and gaps make up the query up to now   *)
(* (CreditedInv); and a child writes only while a call that runs it does   *)
(* (CalledInv, HousedInv).                                                 *)
(***************************************************************************)
EXTENDS ProfileProofs

-------------------------------------------------------------------------------
(* A step, and what it does to a session *)

\* What the hooks of s write, and where in its log the line is.
Logs(s, line) == line \in Line /\ log' = [log EXCEPT ![s] = Append(@, line)]
Added(s, line, x) ==
  /\ x \in Nat /\ x \notin DOMAIN log[s] /\ DOMAIN log'[s] = DOMAIN log[s] \cup {x}
  /\ line \in Line /\ log'[s][x] = line
  /\ \A i \in DOMAIN log[s] : i < x /\ log'[s][i] = log[s][i]

LEMMA Logged ==
  ASSUME LoopInv, NEW s \in Session, NEW line, Logs(s, line)
  PROVE  \E x : Added(s, line, x)
  <1> DEFINE n == Len(log[s])
  <1>1. line \in Line
    BY DEF Logs
  <1>2. /\ n \in Nat /\ DOMAIN log[s] = 1..n /\ DOMAIN log'[s] = 1..(n + 1)
        /\ \A i \in 1..n : log[s][i] \in Line /\ log'[s][i] = log[s][i]
        /\ log'[s][n + 1] = line
    BY Appended DEF Logs
  <1> HIDE DEF n
  <1>3. n + 1 \in Nat /\ n + 1 \notin 1..n /\ 1..(n + 1) = 1..n \cup {n + 1}
        /\ \A i \in 1..n : i < n + 1
    BY <1>2
  <1>4. Added(s, line, n + 1)
    BY <1>1, <1>2, <1>3 DEF Added
  <1>5. QED
    BY <1>4

\* The lines of its kind and step are one more, the others are the same.
LEMMA AddedLines ==
  ASSUME NEW s \in Session, NEW line, NEW x, Added(s, line, x)
  PROVE  /\ Grows(s)
         /\ \A ev : ev = line.ev => Lines(s, ev)' = Lines(s, ev) \cup {x}
         /\ \A ev : ev # line.ev => Lines(s, ev)' = Lines(s, ev)
         /\ \A ev, k : ev = line.ev /\ k = line.step => Events(s, ev, k)' = Events(s, ev, k) \cup {x}
         /\ \A ev, k : ev # line.ev \/ k # line.step => Events(s, ev, k)' = Events(s, ev, k)
         /\ \A ev : x \notin Lines(s, ev)
         /\ \A ev, k : x \notin Events(s, ev, k)
  <1>1. /\ x \notin DOMAIN log[s] /\ DOMAIN log'[s] = DOMAIN log[s] \cup {x}
        /\ log'[s][x] = line /\ \A i \in DOMAIN log[s] : log'[s][i] = log[s][i]
    BY DEF Added
  <1>2. Grows(s)
    BY <1>1 DEF Grows
  <1>3. \A ev : ev = line.ev => Lines(s, ev)' = Lines(s, ev) \cup {x}
    BY <1>1 DEF Lines
  <1>4. \A ev : ev # line.ev => Lines(s, ev)' = Lines(s, ev)
    BY <1>1 DEF Lines
  <1>5. \A ev, k : ev = line.ev /\ k = line.step => Events(s, ev, k)' = Events(s, ev, k) \cup {x}
    BY <1>1 DEF Events, Lines
  <1>6. \A ev, k : ev # line.ev \/ k # line.step => Events(s, ev, k)' = Events(s, ev, k)
    BY <1>1 DEF Events, Lines
  <1>7. \A ev : x \notin Lines(s, ev)
    BY <1>1 DEF Lines
  <1>8. \A ev, k : x \notin Events(s, ev, k)
    BY <1>7 DEF Events
  <1>9. QED
    BY <1>2, <1>3, <1>4, <1>5, <1>6, <1>7, <1>8

\* Nothing of s changes.
Resting(s) ==
  /\ now' = now /\ log'[s] = log[s] /\ state'[s] = state[s] /\ phase'[s] = phase[s]
  /\ step'[s] = step[s] /\ running'[s] = running[s] /\ parts'[s] = parts[s]
  /\ spent'[s] = spent[s] /\ idle'[s] = idle[s]

\* What the steps of s leave of the others.
OthersRest(s) == now' = now /\ \A t \in Session \ {s} : Resting(t)

\* g is f with v at k.
Put(g, f, k, v) == g[k] = v /\ \A l \in Steps \ {k} : g[l] = f[l]

LEMMA PutThere ==
  ASSUME NEW f, DOMAIN f = Steps, NEW k \in Steps, NEW v, NEW g, g = [f EXCEPT ![k] = v]
  PROVE  Put(g, f, k, v)
  BY DEF Put

\* The fields of the hooks' state that are kept by step.
LEMMA ByStep ==
  ASSUME NEW h \in HookState
  PROVE  /\ DOMAIN h.llmStart = Steps /\ DOMAIN h.llmDuration = Steps
         /\ DOMAIN h.firstTool = Steps /\ DOMAIN h.lastText = Steps
         /\ DOMAIN h.streamFinish = Steps /\ DOMAIN h.turnStart = Steps
  BY DEF HookState

LEMMA RestingLines ==
  ASSUME NEW s \in Session, log'[s] = log[s]
  PROVE  /\ \A ev : Lines(s, ev)' = Lines(s, ev)
         /\ \A ev, k : Events(s, ev, k)' = Events(s, ev, k)
         /\ Grows(s)
  <1>1. \A ev : Lines(s, ev)' = Lines(s, ev)
    BY DEF Lines
  <1>2. \A ev, k : Events(s, ev, k)' = Events(s, ev, k)
    BY <1>1 DEF Events
  <1>3. QED
    BY <1>1, <1>2 DEF Grows

LEMMA QueryBegun ==
  ASSUME LoopInv, NEW s \in Session, QueryBegins(s)
  PROVE  /\ OthersRest(s) /\ Logs(s, QueryStartLine(s)) /\ QueryStartLine(s).ev = "query.start"
         /\ QueryStartLine(s).ts = now
         /\ state'[s] = QueryStart(s) /\ QueryStart(s) \in HookState
         /\ QueryStart(s).start = now
         /\ ~Open(s) => /\ QueryStart(s).llmDuration = Blank /\ QueryStart(s).firstTool = Blank
                        /\ QueryStart(s).lastText = Blank /\ QueryStart(s).streamFinish = Blank
         /\ phase[s] = "idle" /\ phase'[s] = "loop" /\ step'[s] = 0 /\ idle'[s] = 0
         /\ running[s] = {} /\ running'[s] = {} /\ parts'[s] = parts[s] /\ spent'[s] = spent[s]
  <1>1. LoopTyped /\ DataTyped /\ Attuned(s)
    BY DEF LoopInv
  <1>2. Logs(s, QueryStartLine(s)) /\ state'[s] = QueryStart(s)
    BY <1>1, QueryStartTyped DEF QueryBegins, Hook, Logs, LoopTyped
  <1>3. OthersRest(s)
    BY <1>1 DEF QueryBegins, OthersRest, Resting, Hook, Go, LoopTyped, DataTyped
  <1>4. QueryStart(s) \in HookState /\ QueryStart(s).start = now
    BY <1>1, QueryStartTyped
  <1>5. ~Open(s) => /\ QueryStart(s).llmDuration = Blank /\ QueryStart(s).firstTool = Blank
                    /\ QueryStart(s).lastText = Blank /\ QueryStart(s).streamFinish = Blank
    BY DEF QueryStart, State, Fresh
  <1>6. /\ phase[s] = "idle" /\ phase'[s] = "loop" /\ step'[s] = 0 /\ idle'[s] = 0
        /\ running'[s] = running[s] /\ parts'[s] = parts[s] /\ spent'[s] = spent[s]
    BY <1>1 DEF QueryBegins, Go, LoopTyped, DataTyped
  <1>7. running[s] = {}
    BY <1>1, <1>6 DEF Attuned
  <1>8. QueryStartLine(s).ev = "query.start" /\ QueryStartLine(s).ts = now
    BY DEF QueryStartLine
  <1>9. QED
    BY <1>2, <1>3, <1>4, <1>5, <1>6, <1>7, <1>8

LEMMA TurnBegun ==
  ASSUME LoopInv, NEW s \in Session, TurnBegins(s), NEW k, k = step[s] + 1
  PROVE  /\ OthersRest(s) /\ Logs(s, TurnStartLine(s, k)) /\ TurnStartLine(s, k).ts = now
         /\ TurnStartLine(s, k).ev = "turn.start" /\ TurnStartLine(s, k).step = k
         /\ k \in Steps /\ state[s] \in HookState /\ state'[s] \in HookState
         /\ Put(state'[s].turnStart, state[s].turnStart, k, now)
         /\ state'[s].start = state[s].start /\ state'[s].llmStart = state[s].llmStart
         /\ state'[s].llmDuration = state[s].llmDuration
         /\ state'[s].firstTool = state[s].firstTool
         /\ state'[s].lastText = state[s].lastText
         /\ state'[s].streamFinish = state[s].streamFinish
         /\ state'[s].toolStart = state[s].toolStart
         /\ phase[s] = "loop" /\ phase'[s] = "turn" /\ step'[s] = k /\ idle'[s] = idle[s]
         /\ running[s] = {} /\ running'[s] = {} /\ parts'[s] = parts[s]
         /\ Put(spent'[s], spent[s], k, Nothing)
  <1>1. LoopTyped /\ DataTyped /\ Attuned(s)
    BY DEF LoopInv
  <1>2. phase[s] = "loop" /\ Open(s) /\ k \in Steps
    BY <1>1, Numbers DEF TurnBegins, Attuned, LoopTyped, Steps
  <1>3. Logs(s, TurnStartLine(s, k)) /\ state'[s] = TurnStart(s, k)
    BY <1>1, <1>2, TurnStartTyped DEF TurnBegins, Hook, Logs, LoopTyped
  <1>4. OthersRest(s)
    BY <1>1 DEF TurnBegins, OthersRest, Resting, Hook, Go, LoopTyped, DataTyped
  <1>5. TurnStart(s, k) \in HookState /\ state[s] \in HookState /\ State(s) = state[s]
    BY <1>1, <1>2, TurnStartTyped, StateTyped
  <1>10. /\ Put(TurnStart(s, k).turnStart, state[s].turnStart, k, now)
         /\ TurnStart(s, k).start = state[s].start
         /\ TurnStart(s, k).llmStart = state[s].llmStart
         /\ TurnStart(s, k).llmDuration = state[s].llmDuration
         /\ TurnStart(s, k).firstTool = state[s].firstTool
         /\ TurnStart(s, k).lastText = state[s].lastText
         /\ TurnStart(s, k).streamFinish = state[s].streamFinish
         /\ TurnStart(s, k).toolStart = state[s].toolStart
    <2>1. TurnStart(s, k).turnStart = [state[s].turnStart EXCEPT ![k] = now]
      BY <1>5 DEF TurnStart, HookState
    <2>2. Put(TurnStart(s, k).turnStart, state[s].turnStart, k, now)
      BY <1>2, <1>5, <2>1, PutThere, ByStep
    <2>3. QED
      BY <1>5, <2>2 DEF TurnStart, HookState
  <1>6. /\ phase'[s] = "turn" /\ step'[s] = k /\ idle'[s] = idle[s]
        /\ running'[s] = running[s] /\ parts'[s] = parts[s]
        /\ Put(spent'[s], spent[s], k, Nothing)
    BY <1>1, <1>2 DEF TurnBegins, Go, LoopTyped, DataTyped, Put
  <1>7. running[s] = {}
    BY <1>1, <1>2 DEF Attuned
  <1>8. /\ TurnStartLine(s, k).ev = "turn.start" /\ TurnStartLine(s, k).step = k
        /\ TurnStartLine(s, k).ts = now
    BY DEF TurnStartLine
  <1>9. QED
    BY <1>2, <1>3, <1>4, <1>5, <1>6, <1>7, <1>8, <1>10

\* Where the steps of a turn, and compaction, are: its step is the hooks'.
LEMMA OpenTurn ==
  ASSUME LoopInv, NEW s \in Session, phase[s] # "idle", step[s] > 0
  PROVE  /\ Open(s) /\ state[s] \in HookState /\ step[s] \in Steps /\ state[s].step = step[s]
         /\ phase[s] # "stream" => running[s] = {}
  <1>1. LoopTyped /\ Attuned(s)
    BY DEF LoopInv
  <1>2. QED
    BY <1>1, StateTyped DEF Attuned, LoopTyped

LEMMA StepBegun ==
  ASSUME LoopInv, NEW s \in Session, StepBegins(s) \/ CompactionBegins(s)
  PROVE  LET line == [ev |-> "llm.start", ts |-> now, step |-> step[s]] IN
         /\ OthersRest(s) /\ Logs(s, line)
         /\ state[s] \in HookState /\ state'[s] \in HookState /\ step[s] \in Steps
         /\ Put(state'[s].llmStart, state[s].llmStart, step[s], now)
         /\ state'[s].start = state[s].start
         /\ state'[s].llmDuration = state[s].llmDuration
         /\ state'[s].firstTool = state[s].firstTool
         /\ state'[s].lastText = state[s].lastText
         /\ state'[s].streamFinish = state[s].streamFinish
         /\ state'[s].turnStart = state[s].turnStart
         /\ state'[s].toolStart = state[s].toolStart
         /\ \/ phase[s] = "turn" /\ phase'[s] = "stream"
            \/ phase[s] = "loop" /\ phase'[s] = "compact" /\ step[s] > 0
         /\ step'[s] = step[s] /\ idle'[s] = idle[s] /\ spent'[s] = spent[s]
         /\ running[s] = {} /\ running'[s] = {} /\ parts'[s] = parts[s]
  <1> DEFINE line == [ev |-> "llm.start", ts |-> now, step |-> step[s]]
  <1>1. LoopTyped /\ DataTyped /\ Attuned(s)
    BY DEF LoopInv
  <1>2. phase[s] \in {"turn", "loop"} /\ step[s] > 0
    BY <1>1 DEF StepBegins, CompactionBegins, Attuned
  <1>3. /\ Open(s) /\ state[s] \in HookState /\ step[s] \in Steps /\ state[s].step = step[s]
        /\ running[s] = {}
    BY <1>2, OpenTurn
  <1>4. line \in Line
    BY <1>1, <1>3, MarkLineTyped
  <1>5. Hook(s, LlmStart(s), line)
    BY <1>3 DEF StepBegins, CompactionBegins
  <1>6. state'[s] = LlmStart(s) /\ log' = [log EXCEPT ![s] = Append(@, line)]
    BY <1>1, <1>5 DEF Hook, LoopTyped
  <1>7. LlmStart(s) \in HookState
    BY <1>1, <1>3, LlmStartTyped
  <1>12. /\ Put(LlmStart(s).llmStart, state[s].llmStart, step[s], now)
         /\ LlmStart(s).start = state[s].start
         /\ LlmStart(s).llmDuration = state[s].llmDuration
         /\ LlmStart(s).firstTool = state[s].firstTool
         /\ LlmStart(s).lastText = state[s].lastText
         /\ LlmStart(s).streamFinish = state[s].streamFinish
         /\ LlmStart(s).turnStart = state[s].turnStart
         /\ LlmStart(s).toolStart = state[s].toolStart
    BY <1>3 DEF LlmStart, HookState, Put
  <1>8. OthersRest(s)
    BY <1>1 DEF StepBegins, CompactionBegins, OthersRest, Resting, Hook, Go, LoopTyped,
       DataTyped, ghostVars
  <1>9. /\ \/ phase[s] = "turn" /\ phase'[s] = "stream"
           \/ phase[s] = "loop" /\ phase'[s] = "compact" /\ step[s] > 0
        /\ step'[s] = step[s] /\ idle'[s] = idle[s] /\ spent'[s] = spent[s]
        /\ running'[s] = running[s] /\ parts'[s] = parts[s]
    BY <1>1 DEF StepBegins, CompactionBegins, Go, LoopTyped, ghostVars
  <1>10. Logs(s, line)
    BY <1>4, <1>6 DEF Logs
  <1>11. QED
    BY <1>3, <1>6, <1>7, <1>8, <1>9, <1>10, <1>12

LEMMA TextEnded ==
  ASSUME LoopInv, NEW s \in Session, TextEnds(s)
  PROVE  /\ OthersRest(s) /\ log' = log
         /\ state[s] \in HookState /\ state'[s] \in HookState /\ step[s] \in Steps
         /\ Put(state'[s].lastText, state[s].lastText, step[s], now)
         /\ state'[s].start = state[s].start /\ state'[s].llmStart = state[s].llmStart
         /\ state'[s].llmDuration = state[s].llmDuration
         /\ state'[s].firstTool = state[s].firstTool
         /\ state'[s].streamFinish = state[s].streamFinish
         /\ state'[s].turnStart = state[s].turnStart
         /\ state'[s].toolStart = state[s].toolStart
         /\ phase[s] = "stream" /\ phase'[s] = "stream"
         /\ step'[s] = step[s] /\ idle'[s] = idle[s] /\ spent'[s] = spent[s]
         /\ running'[s] = running[s] /\ parts'[s] = parts[s]
  <1>1. LoopTyped /\ DataTyped /\ Attuned(s)
    BY DEF LoopInv
  <1>2. phase[s] = "stream" /\ step[s] > 0
    BY <1>1 DEF TextEnds, Attuned
  <1>3. Open(s) /\ state[s] \in HookState /\ step[s] \in Steps /\ state[s].step = step[s]
    BY <1>2, OpenTurn
  <1>4. state'[s] = StreamingEnd(s)
    BY <1>1 DEF TextEnds, LoopTyped
  <1>5. StreamingEnd(s) \in HookState
    BY <1>1, <1>3, LlmStartTyped
  <1>9. /\ Put(StreamingEnd(s).lastText, state[s].lastText, step[s], now)
        /\ StreamingEnd(s).start = state[s].start
        /\ StreamingEnd(s).llmStart = state[s].llmStart
        /\ StreamingEnd(s).llmDuration = state[s].llmDuration
        /\ StreamingEnd(s).firstTool = state[s].firstTool
        /\ StreamingEnd(s).streamFinish = state[s].streamFinish
        /\ StreamingEnd(s).turnStart = state[s].turnStart
        /\ StreamingEnd(s).toolStart = state[s].toolStart
    BY <1>3 DEF StreamingEnd, HookState, Put
  <1>6. OthersRest(s)
    BY <1>1 DEF TextEnds, OthersRest, Resting, LoopTyped, DataTyped, ghostVars, loopVars
  <1>7. /\ log' = log /\ phase'[s] = phase[s]
        /\ step'[s] = step[s] /\ idle'[s] = idle[s] /\ spent'[s] = spent[s]
        /\ running'[s] = running[s] /\ parts'[s] = parts[s]
    BY DEF TextEnds, ghostVars, loopVars
  <1>8. QED
    BY <1>2, <1>3, <1>4, <1>5, <1>6, <1>7, <1>9

LEMMA StepEnded ==
  ASSUME LoopInv, NEW s \in Session, StepEnds(s) \/ CompactionEnds(s)
  PROVE  /\ OthersRest(s) /\ Logs(s, LlmEndLine(s))
         /\ LlmEndLine(s).ev = "llm.end" /\ LlmEndLine(s).step = step[s]
         /\ LlmEndLine(s).ts = now /\ LlmEndLine(s).duration = LlmDuration(s)
         /\ state[s] \in HookState /\ state'[s] \in HookState /\ step[s] \in Steps
         /\ state[s].step = step[s]
         /\ Put(state'[s].llmDuration, state[s].llmDuration, step[s], LlmDuration(s))
         /\ Put(state'[s].llmStart, state[s].llmStart, step[s], None)
         /\ Put(state'[s].firstTool, state[s].firstTool, step[s], None)
         /\ Put(state'[s].lastText, state[s].lastText, step[s], None)
         /\ Put(state'[s].streamFinish, state[s].streamFinish, step[s], None)
         /\ state'[s].start = state[s].start /\ state'[s].turnStart = state[s].turnStart
         /\ state'[s].toolStart = state[s].toolStart
         /\ \/ phase[s] = "stream" /\ phase'[s] = "settle"
            \/ phase[s] = "compact" /\ phase'[s] = "loop" /\ step[s] > 0
         /\ step'[s] = step[s] /\ idle'[s] = idle[s] /\ spent'[s] = spent[s]
         /\ running[s] = {} /\ running'[s] = {} /\ parts'[s] = parts[s]
  <1>1. LoopTyped /\ DataTyped /\ Attuned(s)
    BY DEF LoopInv
  <1>2. phase[s] \in {"stream", "compact"} /\ step[s] > 0
    BY <1>1 DEF StepEnds, CompactionEnds, Attuned
  <1>3. Open(s) /\ state[s] \in HookState /\ step[s] \in Steps /\ state[s].step = step[s]
    BY <1>2, OpenTurn
  <1>4. LlmEndLine(s) \in Line /\ LlmEnd(s) \in HookState
    BY <1>1, <1>3, LlmEndTyped
  <1>5. Hook(s, LlmEnd(s), LlmEndLine(s))
    BY DEF StepEnds, CompactionEnds
  <1>6. state'[s] = LlmEnd(s) /\ Logs(s, LlmEndLine(s))
    BY <1>1, <1>4, <1>5 DEF Hook, LoopTyped, Logs
  <1>13. LlmEnd(s).llmDuration = [state[s].llmDuration EXCEPT ![step[s]] = LlmDuration(s)]
    BY <1>3 DEF LlmEnd, HookState
  <1>14. /\ LlmEnd(s).llmStart = [state[s].llmStart EXCEPT ![step[s]] = None]
         /\ LlmEnd(s).firstTool = [state[s].firstTool EXCEPT ![step[s]] = None]
         /\ LlmEnd(s).lastText = [state[s].lastText EXCEPT ![step[s]] = None]
         /\ LlmEnd(s).streamFinish = [state[s].streamFinish EXCEPT ![step[s]] = None]
    BY <1>3 DEF LlmEnd, HookState
  <1>15. /\ LlmEnd(s).start = state[s].start /\ LlmEnd(s).turnStart = state[s].turnStart
         /\ LlmEnd(s).toolStart = state[s].toolStart
    BY <1>3 DEF LlmEnd, HookState
  <1>7. /\ Put(LlmEnd(s).llmDuration, state[s].llmDuration, step[s], LlmDuration(s))
        /\ Put(LlmEnd(s).llmStart, state[s].llmStart, step[s], None)
        /\ Put(LlmEnd(s).firstTool, state[s].firstTool, step[s], None)
        /\ Put(LlmEnd(s).lastText, state[s].lastText, step[s], None)
        /\ Put(LlmEnd(s).streamFinish, state[s].streamFinish, step[s], None)
    BY <1>3, <1>13, <1>14, PutThere, ByStep
  <1>8. OthersRest(s)
    BY <1>1 DEF StepEnds, CompactionEnds, OthersRest, Resting, Hook, Go, LoopTyped,
       DataTyped, ghostVars
  <1>9. /\ \/ phase[s] = "stream" /\ phase'[s] = "settle"
           \/ phase[s] = "compact" /\ phase'[s] = "loop" /\ step[s] > 0
        /\ step'[s] = step[s] /\ idle'[s] = idle[s] /\ spent'[s] = spent[s]
        /\ running'[s] = running[s] /\ parts'[s] = parts[s]
    BY <1>1, <1>2 DEF StepEnds, CompactionEnds, Go, LoopTyped, ghostVars
  <1>10. running[s] = {}
    BY <1>1, <1>2 DEF StepEnds, CompactionEnds, Attuned
  <1>11. /\ LlmEndLine(s).ev = "llm.end" /\ LlmEndLine(s).step = step[s]
         /\ LlmEndLine(s).ts = now /\ LlmEndLine(s).duration = LlmDuration(s)
    BY <1>3 DEF LlmEndLine
  <1>12. QED
    BY <1>3, <1>4, <1>6, <1>7, <1>8, <1>9, <1>10, <1>11, <1>15

LEMMA StreamFinished ==
  ASSUME LoopInv, NEW s \in Session, StreamFinishes(s)
  PROVE  LET line == [ev |-> "llm.stream-finish", ts |-> now, step |-> step[s]] IN
         /\ OthersRest(s) /\ Logs(s, line)
         /\ state[s] \in HookState /\ state'[s] \in HookState /\ step[s] \in Steps
         /\ Put(state'[s].streamFinish, state[s].streamFinish, step[s], now)
         /\ state'[s].start = state[s].start /\ state'[s].llmStart = state[s].llmStart
         /\ state'[s].llmDuration = state[s].llmDuration
         /\ state'[s].firstTool = state[s].firstTool
         /\ state'[s].lastText = state[s].lastText
         /\ state'[s].turnStart = state[s].turnStart
         /\ state'[s].toolStart = state[s].toolStart
         /\ phase[s] = "settle" /\ phase'[s] = "settle"
         /\ step'[s] = step[s] /\ idle'[s] = idle[s] /\ spent'[s] = spent[s]
         /\ running[s] = {} /\ running'[s] = {} /\ parts'[s] = parts[s]
  <1> DEFINE line == [ev |-> "llm.stream-finish", ts |-> now, step |-> step[s]]
  <1>1. LoopTyped /\ DataTyped /\ Attuned(s)
    BY DEF LoopInv
  <1>2. phase[s] = "settle" /\ step[s] > 0
    BY <1>1 DEF StreamFinishes, Attuned
  <1>3. /\ Open(s) /\ state[s] \in HookState /\ step[s] \in Steps /\ state[s].step = step[s]
        /\ running[s] = {}
    BY <1>2, OpenTurn
  <1>4. line \in Line
    BY <1>1, <1>3, MarkLineTyped
  <1>5. state'[s] = StreamFinish(s) /\ Logs(s, line)
    BY <1>1, <1>4 DEF StreamFinishes, Hook, LoopTyped, Logs
  <1>6. StreamFinish(s) \in HookState
    BY <1>1, <1>3, LlmStartTyped
  <1>10. /\ Put(StreamFinish(s).streamFinish, state[s].streamFinish, step[s], now)
         /\ StreamFinish(s).start = state[s].start
         /\ StreamFinish(s).llmStart = state[s].llmStart
         /\ StreamFinish(s).llmDuration = state[s].llmDuration
         /\ StreamFinish(s).firstTool = state[s].firstTool
         /\ StreamFinish(s).lastText = state[s].lastText
         /\ StreamFinish(s).turnStart = state[s].turnStart
         /\ StreamFinish(s).toolStart = state[s].toolStart
    BY <1>3 DEF StreamFinish, HookState, Put
  <1>7. OthersRest(s)
    BY <1>1 DEF StreamFinishes, OthersRest, Resting, Hook, LoopTyped, DataTyped, ghostVars,
       loopVars
  <1>8. /\ phase'[s] = phase[s]
        /\ step'[s] = step[s] /\ idle'[s] = idle[s] /\ spent'[s] = spent[s]
        /\ running'[s] = running[s] /\ parts'[s] = parts[s]
    BY DEF StreamFinishes, ghostVars, loopVars
  <1>9. QED
    BY <1>2, <1>3, <1>5, <1>6, <1>7, <1>8, <1>10

LEMMA TurnEnded ==
  ASSUME LoopInv, NEW s \in Session, TurnEnds(s), NEW k, k = step[s]
  PROVE  LET line == TurnEndLine(s, k) IN
         /\ OthersRest(s) /\ Logs(s, line)
         /\ line.ev = "turn.end" /\ line.step = k /\ line.ts = now
         /\ line.duration = now - state[s].turnStart[k]
         /\ line.llm = Known(state[s].llmDuration[k], 0) /\ line.tool = state[s].toolWall[k]
         /\ line.post = Post(line.duration, line.llm, line.tool)
         /\ state[s].turnStart[k] \in 0..now /\ state[s].toolWall[k] \in Nat
         /\ k \in Steps /\ k > 0 /\ state[s] \in HookState /\ state'[s] \in HookState
         /\ Put(state'[s].turnStart, state[s].turnStart, k, None)
         /\ state'[s].start = state[s].start /\ state'[s].llmStart = state[s].llmStart
         /\ state'[s].llmDuration = state[s].llmDuration
         /\ state'[s].firstTool = state[s].firstTool
         /\ state'[s].lastText = state[s].lastText
         /\ state'[s].streamFinish = state[s].streamFinish
         /\ state'[s].toolStart = state[s].toolStart
         /\ phase[s] = "settle" /\ phase'[s] = "loop"
         /\ step'[s] = step[s] /\ idle'[s] = idle[s] /\ spent'[s] = spent[s]
         /\ running[s] = {} /\ running'[s] = {} /\ parts'[s] = parts[s]
  <1> DEFINE line == TurnEndLine(s, k)
  <1>1. LoopTyped /\ DataTyped /\ Attuned(s)
    BY DEF LoopInv
  <1>2. phase[s] = "settle" /\ step[s] > 0 /\ InTurn(s)
    BY <1>1 DEF TurnEnds, Attuned, InTurn
  <1>3. /\ Open(s) /\ state[s] \in HookState /\ k \in Steps /\ state[s].step = k
        /\ running[s] = {}
    BY <1>2, OpenTurn
  <1>4. state[s].turnStart[k] \in 0..now /\ state[s].toolWall[k] \in Nat
    BY <1>1, <1>2 DEF Attuned
  <1>5. /\ log' = [log EXCEPT ![s] = Append(@, line)] /\ state'[s] = TurnEnd(s, k)
    BY <1>1 DEF TurnEnds, Hook, LoopTyped
  <1>6. line \in Line
    <2>1. \A t \in Session : log'[t] \in Seq(Line)
      BY TurnEndsKeeps DEF LoopInv, DataTyped
    <2>2. log[s] \in Seq(Line) /\ log'[s] = Append(log[s], line)
      BY <1>1, <1>5 DEF DataTyped
    <2> HIDE DEF line
    <2>3. log'[s][Len(log[s]) + 1] = line /\ Len(log'[s]) = Len(log[s]) + 1
      BY <2>2
    <2>4. QED
      BY <2>1, <2>2, <2>3
  <1>7. /\ line.ev = "turn.end" /\ line.step = k /\ line.ts = now
        /\ line.duration = now - state[s].turnStart[k]
        /\ line.llm = Known(state[s].llmDuration[k], 0) /\ line.tool = state[s].toolWall[k]
        /\ line.post = Post(line.duration, line.llm, line.tool)
    <2>1. Known(state[s].toolWall[k], 0) = state[s].toolWall[k]
      BY <1>4 DEF Known, None
    <2>2. QED
      BY <2>1 DEF TurnEndLine
  <1>8. TurnEnd(s, k) \in HookState
    BY <1>1, <1>3, TurnEndTyped
  <1>13. /\ Put(TurnEnd(s, k).turnStart, state[s].turnStart, k, None)
         /\ TurnEnd(s, k).start = state[s].start
         /\ TurnEnd(s, k).llmStart = state[s].llmStart
         /\ TurnEnd(s, k).llmDuration = state[s].llmDuration
         /\ TurnEnd(s, k).firstTool = state[s].firstTool
         /\ TurnEnd(s, k).lastText = state[s].lastText
         /\ TurnEnd(s, k).streamFinish = state[s].streamFinish
         /\ TurnEnd(s, k).toolStart = state[s].toolStart
    BY <1>3 DEF TurnEnd, HookState, Put
  <1>9. OthersRest(s)
    BY <1>1 DEF TurnEnds, OthersRest, Resting, Hook, Go, LoopTyped, DataTyped, ghostVars
  <1>10. /\ phase'[s] = "loop"
         /\ step'[s] = step[s] /\ idle'[s] = idle[s] /\ spent'[s] = spent[s]
         /\ running'[s] = running[s] /\ parts'[s] = parts[s]
    BY <1>1 DEF TurnEnds, Go, LoopTyped, ghostVars
  <1> HIDE DEF line
  <1>11. Logs(s, line)
    BY <1>5, <1>6 DEF Logs
  <1>12. QED
    BY <1>2, <1>3, <1>4, <1>5, <1>7, <1>8, <1>9, <1>10, <1>11, <1>13 DEF line

LEMMA QueryEnded ==
  ASSUME LoopInv, NEW s \in Session, QueryEnds(s)
  PROVE  /\ OthersRest(s) /\ Logs(s, QueryEndLine(s))
         /\ QueryEndLine(s).ev = "query.end" /\ QueryEndLine(s).ts = now
         /\ QueryEndLine(s).duration = now - state[s].start
         /\ phase[s] = "loop" /\ phase'[s] = "idle" /\ step[s] > 0 /\ ~Open(s)'
         /\ step'[s] = step[s] /\ idle'[s] = idle[s] /\ spent'[s] = spent[s]
         /\ running[s] = {} /\ running'[s] = {} /\ parts'[s] = parts[s]
  <1>1. LoopTyped /\ DataTyped /\ Attuned(s)
    BY DEF LoopInv
  <1>2. phase[s] = "loop" /\ step[s] > 0
    BY DEF QueryEnds
  <1>3. Open(s) /\ running[s] = {} /\ state[s].start \in 0..now
    BY <1>1, <1>2, OpenTurn DEF Attuned
  <1>4. Logs(s, QueryEndLine(s)) /\ ~Open(s)'
    BY <1>1, <1>3, QueryEndTyped DEF QueryEnds, Hook, LoopTyped, Logs, Open
  <1>5. OthersRest(s)
    BY <1>1 DEF QueryEnds, OthersRest, Resting, Hook, Go, LoopTyped, DataTyped, ghostVars
  <1>6. /\ phase'[s] = "idle"
        /\ step'[s] = step[s] /\ idle'[s] = idle[s] /\ spent'[s] = spent[s]
        /\ running'[s] = running[s] /\ parts'[s] = parts[s]
    BY <1>1 DEF QueryEnds, Go, LoopTyped, ghostVars
  <1>7. /\ QueryEndLine(s).ev = "query.end" /\ QueryEndLine(s).ts = now
        /\ QueryEndLine(s).duration = now - state[s].start
    BY DEF QueryEndLine
  <1>8. QED
    BY <1>2, <1>3, <1>4, <1>5, <1>6, <1>7

LEMMA Upset ==
  ASSUME LoopInv, NEW s \in Session, StreamBreaks(s) \/ LoopFails(s)
  PROVE  /\ OthersRest(s) /\ log' = log /\ state' = state
         /\ phase[s] # "idle"
         /\ \/ phase'[s] = "idle"
            \/ phase[s] \in {"turn", "stream"} /\ phase'[s] = "settle"
         /\ step'[s] = step[s] /\ idle'[s] = idle[s] /\ spent'[s] = spent[s]
         /\ running[s] = {} /\ running'[s] = {} /\ parts'[s] = parts[s]
  <1>1. LoopTyped /\ DataTyped
    BY DEF LoopInv
  <1>2. OthersRest(s)
    BY <1>1 DEF StreamBreaks, LoopFails, OthersRest, Resting, Go, LoopTyped, ghostVars
  <1>3. CASE StreamBreaks(s)
    BY <1>1, <1>2, <1>3 DEF StreamBreaks, Go, LoopTyped, ghostVars
  <1>4. CASE LoopFails(s)
    BY <1>1, <1>2, <1>4 DEF LoopFails, Go, LoopTyped, ghostVars
  <1>5. QED
    BY <1>3, <1>4

LEMMA PartAdded ==
  ASSUME LoopInv, NEW s \in Session, NEW c \in Call, ToolBegins(s, c)
  PROVE  \A i \in DOMAIN parts[s] :
           parts[s][i].call # c /\ i \in DOMAIN parts'[s] /\ parts'[s][i] = parts[s][i]
  <1>1. parts[s] \in Seq(Part) /\ parts \in [Session -> Seq(Part)]
    BY DEF LoopInv, DataTyped
  <1>2. parts'[s] =
          Append(parts[s], [call |-> c, status |-> "running", start |-> now, end |-> None])
    BY <1>1 DEF ToolBegins
  <1>3. QED
    BY <1>1, <1>2 DEF ToolBegins

LEMMA ToolBegun ==
  ASSUME LoopInv, NEW s \in Session, NEW c \in Call, ToolBegins(s, c)
  PROVE  /\ OthersRest(s) /\ Logs(s, ToolStartLine(s, c))
         /\ ToolStartLine(s, c).ev = "tool.start" /\ ToolStartLine(s, c).ts = now
         /\ state[s] \in HookState /\ state'[s] \in HookState /\ step[s] \in Steps
         /\ state'[s].toolStart[c].ms = now
         /\ \A d \in Call \ {c} : state'[s].toolStart[d] = state[s].toolStart[d]
         /\ Put(state'[s].firstTool, state[s].firstTool, step[s], Known(state[s].firstTool[step[s]], now))
         /\ state'[s].start = state[s].start /\ state'[s].llmStart = state[s].llmStart
         /\ state'[s].llmDuration = state[s].llmDuration
         /\ state'[s].lastText = state[s].lastText
         /\ state'[s].streamFinish = state[s].streamFinish
         /\ state'[s].turnStart = state[s].turnStart
         /\ phase[s] = "stream" /\ phase'[s] = "stream" /\ Of[c] = s
         /\ step'[s] = step[s] /\ idle'[s] = idle[s] /\ spent'[s] = spent[s]
         /\ c \notin running[s] /\ running'[s] = running[s] \cup {c}
         /\ \A i \in DOMAIN parts[s] :
              parts[s][i].call # c /\ i \in DOMAIN parts'[s] /\ parts'[s][i] = parts[s][i]
  <1>1. LoopTyped /\ DataTyped /\ Attuned(s) /\ Accounted(s)
    BY DEF LoopInv
  <1>2. phase[s] = "stream" /\ step[s] > 0
    BY <1>1 DEF ToolBegins, Attuned
  <1>3. Open(s) /\ state[s] \in HookState /\ step[s] \in Steps /\ state[s].step = step[s]
    BY <1>2, OpenTurn
  <1>4. Logs(s, ToolStartLine(s, c)) /\ state'[s] = ToolStart(s, c)
    BY <1>1, <1>3, ToolStartTyped DEF ToolBegins, Hook, LoopTyped, Logs
  <1>5. ToolStart(s, c) \in HookState
    BY <1>1, <1>3, ToolStartTyped
  <1>12. /\ ToolStart(s, c).toolStart =
              [state[s].toolStart EXCEPT ![c] = [ms |-> now, step |-> step[s]]]
         /\ ToolStart(s, c).firstTool =
              [state[s].firstTool EXCEPT ![step[s]] = Known(state[s].firstTool[step[s]], now)]
    BY <1>3 DEF ToolStart, HookState
  <1>13. /\ ToolStart(s, c).start = state[s].start
         /\ ToolStart(s, c).llmStart = state[s].llmStart
         /\ ToolStart(s, c).llmDuration = state[s].llmDuration
         /\ ToolStart(s, c).lastText = state[s].lastText
         /\ ToolStart(s, c).streamFinish = state[s].streamFinish
         /\ ToolStart(s, c).turnStart = state[s].turnStart
    BY <1>3 DEF ToolStart, HookState
  <1>14. /\ ToolStart(s, c).toolStart[c].ms = now
         /\ \A d \in Call \ {c} : ToolStart(s, c).toolStart[d] = state[s].toolStart[d]
         /\ Put(ToolStart(s, c).firstTool, state[s].firstTool, step[s],
                Known(state[s].firstTool[step[s]], now))
    <2>1. DOMAIN state[s].toolStart = Call
      BY <1>3 DEF HookState
    <2>2. QED
      BY <1>3, <1>12, <2>1, PutThere, ByStep
  <1>6. OthersRest(s)
    BY <1>1 DEF ToolBegins, OthersRest, Resting, Hook, LoopTyped, DataTyped, ghostVars
  <1>7. /\ phase'[s] = phase[s] /\ Of[c] = s
        /\ step'[s] = step[s] /\ idle'[s] = idle[s] /\ spent'[s] = spent[s]
        /\ running'[s] = running[s] \cup {c}
    BY <1>1 DEF ToolBegins, LoopTyped, ghostVars
  <1>8. \A i \in DOMAIN parts[s] :
          parts[s][i].call # c /\ i \in DOMAIN parts'[s] /\ parts'[s][i] = parts[s][i]
    BY PartAdded
  <1>9. c \notin running[s]
    BY <1>1, <1>8 DEF Accounted, Kept
  <1>10. ToolStartLine(s, c).ev = "tool.start" /\ ToolStartLine(s, c).ts = now
    BY DEF ToolStartLine
  <1>11. QED
    BY <1>2, <1>3, <1>4, <1>5, <1>6, <1>7, <1>8, <1>9, <1>10, <1>13, <1>14

LEMMA ToolEnded ==
  ASSUME LoopInv, NEW s \in Session, NEW c \in Call, NEW ok \in BOOLEAN, ToolEnds(s, c, ok)
  PROVE  LET line == ToolEndLine(s, c, ok)
             ms == state[s].toolStart[c].ms
         IN
         /\ OthersRest(s) /\ Logs(s, line)
         /\ line.ev = "tool.end" /\ line.step = step[s] /\ line.ts = now
         /\ line.duration = now - ms /\ line.call = c /\ line.name = Tool[c] /\ line.ok = ok
         /\ now \in Nat /\ ms \in 0..now /\ c \in running[s]
         /\ state[s] \in HookState /\ state'[s] \in HookState /\ step[s] \in Steps
         /\ \A d \in Call \ {c} : state'[s].toolStart[d] = state[s].toolStart[d]
         /\ state'[s].turnStart = state[s].turnStart /\ state'[s].start = state[s].start
         /\ state'[s].llmStart = state[s].llmStart /\ state'[s].firstTool = state[s].firstTool
         /\ state'[s].lastText = state[s].lastText
         /\ state'[s].streamFinish = state[s].streamFinish
         /\ state'[s].llmDuration = state[s].llmDuration
         /\ phase[s] = "stream" /\ phase'[s] = "stream"
         /\ step'[s] = step[s] /\ idle'[s] = idle[s] /\ spent'[s] = spent[s]
         /\ running'[s] = running[s] \ {c}
         /\ \A i \in DOMAIN parts[s] :
              /\ i \in DOMAIN parts'[s] /\ parts'[s][i].call = parts[s][i].call
              /\ parts'[s][i].start = parts[s][i].start
              /\ parts[s][i].call # c => parts'[s][i] = parts[s][i]
              /\ parts[s][i].call = c =>
                   parts'[s][i].end = now /\ parts'[s][i].status = IF ok THEN "completed" ELSE "error"
  <1> DEFINE line == ToolEndLine(s, c, ok)
             ms == state[s].toolStart[c].ms
  <1>1. LoopTyped /\ DataTyped /\ Attuned(s) /\ Accounted(s)
    BY DEF LoopInv
  <1>2. c \in running[s] /\ phase[s] = "stream" /\ step[s] > 0 /\ InTurn(s) /\ Kept(s, c)
    BY <1>1 DEF ToolEnds, Attuned, Accounted, InTurn
  <1>3. Open(s) /\ state[s] \in HookState /\ step[s] \in Steps /\ state[s].step = step[s]
    BY <1>2, OpenTurn
  <1>4. /\ now \in Nat /\ ms \in 0..now /\ state[s].toolStart[c].step = step[s]
        /\ state[s].toolWall[step[s]] \in Nat
    BY <1>1, <1>2, Marks DEF LoopTyped, Kept, Attuned
  <1>5. /\ ToolEnd(s, c) \in HookState /\ line \in Line
        /\ \A d \in Call \ {c} : ToolEnd(s, c).toolStart[d] = state[s].toolStart[d]
        /\ ToolEnd(s, c).turnStart = state[s].turnStart
        /\ ToolEnd(s, c).start = state[s].start
    <2>1. PICK k \in Steps : k = step[s]
      BY <1>3
    <2>2. state[s].toolStart[c].ms \in 0..now
      BY <1>4
    <2>3. state[s].toolStart[c].step = k /\ state[s].toolWall[k] \in Nat
      BY <1>4, <2>1
    <2> HIDE DEF ms
    <2>4. QED
      BY <1>1, <1>3, <2>2, <2>3, ToolEndTyped
  <1>6. /\ ToolEnd(s, c).llmStart = state[s].llmStart
        /\ ToolEnd(s, c).firstTool = state[s].firstTool
        /\ ToolEnd(s, c).lastText = state[s].lastText
        /\ ToolEnd(s, c).streamFinish = state[s].streamFinish
        /\ ToolEnd(s, c).llmDuration = state[s].llmDuration
    BY <1>3 DEF ToolEnd, HookState
  <1>7. state'[s] = ToolEnd(s, c) /\ Logs(s, line)
    BY <1>1, <1>5 DEF ToolEnds, Hook, LoopTyped, Logs
  <1>8. OthersRest(s)
    BY <1>1 DEF ToolEnds, OthersRest, Resting, Hook, LoopTyped, DataTyped, ghostVars
  <1>9. /\ phase'[s] = phase[s]
        /\ step'[s] = step[s] /\ idle'[s] = idle[s] /\ spent'[s] = spent[s]
        /\ running'[s] = running[s] \ {c}
    BY <1>1 DEF ToolEnds, LoopTyped, ghostVars
  <1> DEFINE ended(p) ==
               [p EXCEPT !.status = IF ok THEN "completed" ELSE "error", !.end = now]
  <1>12. \A i \in DOMAIN parts[s] :
           /\ i \in DOMAIN parts'[s] /\ parts'[s][i].call = parts[s][i].call
           /\ parts'[s][i].start = parts[s][i].start
           /\ parts[s][i].call # c => parts'[s][i] = parts[s][i]
           /\ parts[s][i].call = c =>
                parts'[s][i].end = now /\ parts'[s][i].status = IF ok THEN "completed" ELSE "error"
    <2>1. parts[s] \in Seq(Part) /\ DOMAIN parts[s] = 1..Len(parts[s])
      BY <1>1 DEF DataTyped
    <2>2. parts'[s] = [i \in 1..Len(parts[s]) |->
                        IF parts[s][i].call # c THEN parts[s][i] ELSE ended(parts[s][i])]
      BY <1>1 DEF ToolEnds, DataTyped
    <2>3. \A p \in Part : /\ ended(p).call = p.call /\ ended(p).start = p.start
                          /\ ended(p).end = now
                          /\ ended(p).status = IF ok THEN "completed" ELSE "error"
      BY DEF Part
    <2>4. \A i \in DOMAIN parts[s] : parts[s][i] \in Part
      BY <2>1
    <2> HIDE DEF ended
    <2>5. QED
      BY <2>1, <2>2, <2>3, <2>4
  <1>10. /\ line.ev = "tool.end" /\ line.step = step[s] /\ line.ts = now
         /\ line.duration = now - ms /\ line.call = c /\ line.name = Tool[c] /\ line.ok = ok
    BY <1>4 DEF ToolEndLine
  <1> HIDE DEF line, ms
  <1>11. QED
    BY <1>2, <1>3, <1>4, <1>5, <1>6, <1>7, <1>8, <1>9, <1>10, <1>12 DEF line, ms

LEMMA Ticked ==
  ASSUME LoopInv, NEW s \in Session, Tick
  PROVE  /\ now \in Nat /\ now' = now + 1 /\ log' = log /\ state' = state /\ phase' = phase
         /\ step' = step /\ running' = running /\ parts' = parts /\ trace' = trace
         /\ InTurn(s) =>
              /\ spent'[s][step[s]].tools =
                   spent[s][step[s]].tools + One(running[s] \ Tasked # {})
              /\ spent'[s][step[s]].task =
                   spent[s][step[s]].task + One(running[s] \cap Tasked # {})
              /\ \A k \in Steps \ {step[s]} : spent'[s][k] = spent[s][k]
         /\ ~InTurn(s) => spent'[s] = spent[s]
         /\ idle'[s] = idle[s] + One(phase[s] \in {"loop", "compact"})
  <1>1. now \in Nat
    BY Marks DEF LoopInv, LoopTyped
  <1>2. spent[s] \in [Steps -> Tally] /\ step[s] \in Steps
    BY DEF LoopInv, LoopTyped, DataTyped
  <1>3. InTurn(s) =>
          /\ spent'[s][step[s]].tools = spent[s][step[s]].tools + One(running[s] \ Tasked # {})
          /\ spent'[s][step[s]].task = spent[s][step[s]].task + One(running[s] \cap Tasked # {})
          /\ \A k \in Steps \ {step[s]} : spent'[s][k] = spent[s][k]
    BY <1>2 DEF Tick
  <1>4. /\ now' = now + 1 /\ log' = log /\ state' = state /\ phase' = phase
        /\ step' = step /\ running' = running /\ parts' = parts /\ trace' = trace
        /\ ~InTurn(s) => spent'[s] = spent[s]
        /\ idle'[s] = idle[s] + One(phase[s] \in {"loop", "compact"})
    BY DEF Tick, loopVars
  <1>5. QED
    BY <1>1, <1>3, <1>4

\* What a step does to session t.
Moved(t) ==
  \/ Tick
  \/ Resting(t)
  \/ QueryBegins(t)
  \/ TurnBegins(t)
  \/ StepBegins(t) \/ CompactionBegins(t)
  \/ TextEnds(t)
  \/ StepEnds(t) \/ CompactionEnds(t)
  \/ StreamFinishes(t)
  \/ TurnEnds(t)
  \/ QueryEnds(t)
  \/ StreamBreaks(t) \/ LoopFails(t)
  \/ \E c \in Call : ToolBegins(t, c)
  \/ \E c \in Call, ok \in BOOLEAN : ToolEnds(t, c, ok)

LEMMA Moves ==
  ASSUME LoopInv, [Next]_vars, NEW t \in Session
  PROVE  Moved(t)
  <1>1. CASE UNCHANGED vars \/ Timeout
    BY <1>1 DEF vars, loopVars, ghostVars, Timeout, Resting, Moved
  <1>2. CASE Tick
    BY <1>2 DEF Moved
  <1>3. ASSUME NEW s \in Session, QueryBegins(s)
        PROVE  Moved(t)
    BY <1>3, QueryBegun DEF OthersRest, Moved
  <1>4. ASSUME NEW s \in Session, TurnBegins(s)
        PROVE  Moved(t)
    BY <1>4, TurnBegun DEF OthersRest, Moved
  <1>5. ASSUME NEW s \in Session, StepBegins(s) \/ CompactionBegins(s)
        PROVE  Moved(t)
    BY <1>5, StepBegun DEF OthersRest, Moved
  <1>6. ASSUME NEW s \in Session, TextEnds(s)
        PROVE  Moved(t)
    BY <1>6, TextEnded DEF OthersRest, Moved
  <1>7. ASSUME NEW s \in Session, StepEnds(s) \/ CompactionEnds(s)
        PROVE  Moved(t)
    BY <1>7, StepEnded DEF OthersRest, Moved
  <1>8. ASSUME NEW s \in Session, StreamFinishes(s)
        PROVE  Moved(t)
    BY <1>8, StreamFinished DEF OthersRest, Moved
  <1>9. ASSUME NEW s \in Session, TurnEnds(s)
        PROVE  Moved(t)
    BY <1>9, TurnEnded DEF OthersRest, Moved
  <1>10. ASSUME NEW s \in Session, QueryEnds(s)
         PROVE  Moved(t)
    BY <1>10, QueryEnded DEF OthersRest, Moved
  <1>11. ASSUME NEW s \in Session, StreamBreaks(s) \/ LoopFails(s)
         PROVE  Moved(t)
    BY <1>11, Upset DEF OthersRest, Moved
  <1>12. ASSUME NEW s \in Session, NEW c \in Call, ToolBegins(s, c)
         PROVE  Moved(t)
    <2>1. OthersRest(s)
      BY <1>12, ToolBegun
    <2>2. QED
      BY <1>12, <2>1 DEF OthersRest, Moved
  <1>13. ASSUME NEW s \in Session, NEW c \in Call, NEW ok \in BOOLEAN, ToolEnds(s, c, ok)
         PROVE  Moved(t)
    <2>1. OthersRest(s)
      BY <1>13, ToolEnded
    <2>2. QED
      BY <1>13, <2>1 DEF OthersRest, Moved
  <1>14. QED
    BY <1>1, <1>2, <1>3, <1>4, <1>5, <1>6, <1>7, <1>8, <1>9, <1>10, <1>11, <1>12, <1>13
       DEF Next

-------------------------------------------------------------------------------
(* The lines of the calls that ended, and the messages *)

\* A call that ended is a part of the messages that says the same.
Told(part, line) ==
  /\ part.call = line.call /\ line.name = Tool[line.call]
  /\ part.start = line.ts - line.duration /\ part.end = line.ts
  /\ part.status = IF line.ok THEN "completed" ELSE "error"
Retold(s) ==
  \A i \in Lines(s, "tool.end") : \E j \in DOMAIN parts[s] : Told(parts[s][j], log[s][i])

\* A session that answered has the messages that were recorded.
Answered ==
  trace.status = "success" =>
    /\ trace.parts = parts[Main] /\ phase[Main] = "idle" /\ Lines(Main, "query.start") # {}

MessagesInv == Answered /\ \A s \in Session : Retold(s)

\* Lines of calls stay as they are.
LEMMA RetoldStays ==
  ASSUME NEW s \in Session, Retold(s), Grows(s), Lines(s, "tool.end")' = Lines(s, "tool.end"),
         \A j \in DOMAIN parts[s] : j \in DOMAIN parts'[s] /\ parts'[s][j] = parts[s][j]
  PROVE  Retold(s)'
  <1>1. \A i \in Lines(s, "tool.end") : log'[s][i] = log[s][i]
    BY DEF Grows, Lines
  <1>2. SUFFICES ASSUME NEW i \in Lines(s, "tool.end")
                 PROVE  \E j \in DOMAIN parts'[s] : Told(parts'[s][j], log'[s][i])
    BY DEF Retold, Told
  <1>3. PICK j \in DOMAIN parts[s] : Told(parts[s][j], log[s][i])
    BY DEF Retold
  <1>4. QED
    BY <1>1, <1>3

\* A line of another kind, or none.
LEMMA NoCallEnds ==
  ASSUME LoopInv, NEW s \in Session, Moved(s),
         \A c \in Call, ok \in BOOLEAN : ~ToolEnds(s, c, ok)
  PROVE  /\ Grows(s) /\ Lines(s, "tool.end")' = Lines(s, "tool.end")
         /\ \A k : Events(s, "tool.end", k)' = Events(s, "tool.end", k)
  <1>1. ASSUME NEW line, Logs(s, line), line.ev # "tool.end"
        PROVE  /\ Grows(s) /\ Lines(s, "tool.end")' = Lines(s, "tool.end")
               /\ \A k : Events(s, "tool.end", k)' = Events(s, "tool.end", k)
    <2>1. PICK x : Added(s, line, x)
      BY <1>1, Logged
    <2>2. QED
      BY <1>1, <2>1, AddedLines
  <1>2. CASE Tick \/ Resting(s)
    <2>1. log'[s] = log[s]
      BY <1>2, Ticked DEF Resting
    <2>2. QED
      BY <2>1, RestingLines
  <1>3. CASE QueryBegins(s)
    BY <1>1, <1>3, QueryBegun
  <1>4. CASE TurnBegins(s)
    BY <1>1, <1>4, TurnBegun
  <1>5. CASE StepBegins(s) \/ CompactionBegins(s)
    BY <1>1, <1>5, StepBegun
  <1>6. CASE TextEnds(s)
    BY <1>6, TextEnded, RestingLines
  <1>7. CASE StepEnds(s) \/ CompactionEnds(s)
    BY <1>1, <1>7, StepEnded
  <1>8. CASE StreamFinishes(s)
    BY <1>1, <1>8, StreamFinished
  <1>9. CASE TurnEnds(s)
    BY <1>1, <1>9, TurnEnded
  <1>10. CASE QueryEnds(s)
    BY <1>1, <1>10, QueryEnded
  <1>11. CASE StreamBreaks(s) \/ LoopFails(s)
    BY <1>11, Upset, RestingLines
  <1>12. ASSUME NEW c \in Call, ToolBegins(s, c)
         PROVE  /\ Grows(s) /\ Lines(s, "tool.end")' = Lines(s, "tool.end")
                /\ \A k : Events(s, "tool.end", k)' = Events(s, "tool.end", k)
    <2>1. Logs(s, ToolStartLine(s, c))
      BY <1>12, ToolBegun
    <2>3. ToolStartLine(s, c).ev = "tool.start"
      BY DEF ToolStartLine
    <2>2. QED
      BY <1>1, <2>1, <2>3
  <1>13. QED
    BY <1>2, <1>3, <1>4, <1>5, <1>6, <1>7, <1>8, <1>9, <1>10, <1>11, <1>12 DEF Moved

LEMMA RetoldKeeps ==
  ASSUME LoopInv, TurnedInv, [Next]_vars, NEW s \in Session, Retold(s)
  PROVE  Retold(s)'
  <1>1. Moved(s)
    BY Moves
  <1>2. ASSUME NEW c \in Call, NEW ok \in BOOLEAN, ToolEnds(s, c, ok)
        PROVE  Retold(s)'
    <2> DEFINE line == ToolEndLine(s, c, ok)
               ms == state[s].toolStart[c].ms
    <2>1. /\ Logs(s, line) /\ line.ev = "tool.end" /\ line.ts = now
          /\ line.duration = now - ms /\ line.call = c /\ line.name = Tool[c] /\ line.ok = ok
          /\ now \in Nat /\ ms \in 0..now /\ c \in running[s]
      BY <1>2, ToolEnded
    <2>2. \A i \in DOMAIN parts[s] :
              /\ i \in DOMAIN parts'[s] /\ parts'[s][i].call = parts[s][i].call
              /\ parts'[s][i].start = parts[s][i].start
              /\ parts[s][i].call # c => parts'[s][i] = parts[s][i]
              /\ parts[s][i].call = c =>
                   parts'[s][i].end = now /\ parts'[s][i].status = IF ok THEN "completed" ELSE "error"
      BY <1>2, ToolEnded
    <2>3. PICK j \in DOMAIN parts[s] : parts[s][j].call = c /\ parts[s][j].start = ms
      BY <2>1 DEF LoopInv, Accounted, Kept
    <2>4. CallLines(s)
      BY DEF TurnedInv, Turned
    <2> HIDE DEF line, ms
    <2>5. PICK x : Added(s, line, x)
      BY <2>1, Logged
    <2>6. /\ log'[s][x] = line /\ \A i \in DOMAIN log[s] : log'[s][i] = log[s][i]
      BY <2>5 DEF Added
    <2>7. Lines(s, "tool.end")' = Lines(s, "tool.end") \cup {x}
      BY <2>1, <2>5, AddedLines
    <2>8. Told(parts'[s][j], log'[s][x])
      <3>1. now - (now - ms) = ms
        BY <2>1
      <3>2. QED
        BY <2>1, <2>2, <2>3, <2>6, <3>1 DEF Told
    <2>9. ASSUME NEW i \in Lines(s, "tool.end")
          PROVE  \E l \in DOMAIN parts'[s] : Told(parts'[s][l], log'[s][i])
      <3>1. PICK l \in DOMAIN parts[s] : Told(parts[s][l], log[s][i])
        BY DEF Retold
      <3>2. parts[s][l].call # c
        BY <2>1, <2>4, <3>1 DEF Told, CallLines
      <3>3. log'[s][i] = log[s][i]
        BY <2>6 DEF Lines
      <3>4. l \in DOMAIN parts'[s] /\ parts'[s][l] = parts[s][l]
        BY <2>2, <3>2
      <3>5. QED
        BY <3>1, <3>3, <3>4
    <2>10. \A i \in Lines(s, "tool.end")' : \E l \in DOMAIN parts'[s] : Told(parts'[s][l], log'[s][i])
      BY <2>2, <2>3, <2>7, <2>8, <2>9
    <2>11. QED
      BY <2>10 DEF Retold, Told
  <1>3. ASSUME \A c \in Call, ok \in BOOLEAN : ~ToolEnds(s, c, ok)
        PROVE  Retold(s)'
    <2>1. Grows(s) /\ Lines(s, "tool.end")' = Lines(s, "tool.end")
      BY <1>1, <1>3, NoCallEnds
    <2>2. \A j \in DOMAIN parts[s] : j \in DOMAIN parts'[s] /\ parts'[s][j] = parts[s][j]
      <3> DEFINE kept == \A j \in DOMAIN parts[s] : j \in DOMAIN parts'[s] /\ parts'[s][j] = parts[s][j]
      <3>1. ASSUME NEW c \in Call, ToolBegins(s, c)
            PROVE  kept
        <4>1. \A i \in DOMAIN parts[s] :
                parts[s][i].call # c /\ i \in DOMAIN parts'[s] /\ parts'[s][i] = parts[s][i]
          BY <3>1, PartAdded
        <4>2. QED
          BY <4>1
      <3>2. ASSUME \A c \in Call : ~ToolBegins(s, c)
            PROVE  kept
        <4>1. parts'[s] = parts[s]
          <5>1. CASE Tick \/ Resting(s) \/ QueryBegins(s) \/ TextEnds(s) \/ QueryEnds(s)
            BY <5>1, Ticked, QueryBegun, TextEnded, QueryEnded DEF Resting
          <5>2. CASE TurnBegins(s) \/ TurnEnds(s) \/ StreamBreaks(s) \/ LoopFails(s)
            BY <5>2, TurnBegun, TurnEnded, Upset
          <5>3. CASE StepBegins(s) \/ CompactionBegins(s)
            BY <5>3, StepBegun
          <5>4. CASE StepEnds(s) \/ CompactionEnds(s)
            BY <5>4, StepEnded
          <5>5. CASE StreamFinishes(s)
            BY <5>5, StreamFinished
          <5>6. QED
            BY <1>1, <1>3, <3>2, <5>1, <5>2, <5>3, <5>4, <5>5 DEF Moved
        <4>2. QED
          BY <4>1
      <3>3. QED
        BY <3>1, <3>2
    <2>3. QED
      BY <2>1, <2>2, RetoldStays
  <1>4. QED
    BY <1>2, <1>3

\* Only an answer of Main is recorded as a success.
LEMMA Recorded ==
  ASSUME LoopInv, [Next]_vars
  PROVE  \/ trace' = trace
         \/ trace'.status # "success"
         \/ QueryEnds(Main) /\ trace'.parts = parts[Main]
  <1>1. CASE UNCHANGED vars \/ Tick
    BY <1>1 DEF vars, Tick
  <1>2. CASE Timeout
    BY <1>2 DEF Timeout
  <1>3. ASSUME NEW s \in Session, NEW c \in Call, NEW ok \in BOOLEAN,
               \/ QueryBegins(s) \/ TurnBegins(s) \/ StepBegins(s) \/ TextEnds(s) \/ StepEnds(s)
               \/ StreamFinishes(s) \/ TurnEnds(s) \/ StreamBreaks(s) \/ CompactionBegins(s)
               \/ CompactionEnds(s) \/ ToolBegins(s, c) \/ ToolEnds(s, c, ok)
        PROVE  trace' = trace
    BY <1>3 DEF QueryBegins, TurnBegins, StepBegins, TextEnds, StepEnds, StreamFinishes,
       TurnEnds, StreamBreaks, CompactionBegins, CompactionEnds, ToolBegins, ToolEnds
  <1>4. ASSUME NEW s \in Session, LoopFails(s)
        PROVE  trace' = trace \/ trace'.status # "success"
    BY <1>4 DEF LoopFails
  <1>5. ASSUME NEW s \in Session, QueryEnds(s)
        PROVE  trace' = trace \/ (QueryEnds(Main) /\ trace'.parts = parts[Main])
    BY <1>5 DEF QueryEnds
  <1>6. ASSUME NEW s \in Session, \/ QueryBegins(s) \/ TurnBegins(s) \/ StepBegins(s)
               \/ TextEnds(s) \/ StepEnds(s) \/ StreamFinishes(s) \/ TurnEnds(s)
               \/ StreamBreaks(s) \/ CompactionBegins(s) \/ CompactionEnds(s)
        PROVE  trace' = trace
    BY <1>6 DEF QueryBegins, TurnBegins, StepBegins, TextEnds, StepEnds, StreamFinishes,
       TurnEnds, StreamBreaks, CompactionBegins, CompactionEnds
  <1>7. QED
    BY <1>1, <1>2, <1>3, <1>4, <1>5, <1>6 DEF Next

LEMMA AskedOnce ==
  ASSUME LoopInv, Lines(Main, "query.start") # {}
  PROVE  ~QueryBegins(Main)
  <1> DEFINE asked == {i \in DOMAIN log[Main] : log[Main][i].ev = "query.start"}
  <1>1. Main \in Session /\ log[Main] \in Seq(Line)
    BY ProfileAssumption DEF LoopInv, DataTyped
  <1>2. IsFiniteSet(DOMAIN log[Main])
    <2>1. DOMAIN log[Main] = 1..Len(log[Main]) /\ Len(log[Main]) \in Int /\ 1 \in Int
      BY <1>1
    <2>2. QED
      BY <2>1, FS_Interval
  <1>3. IsFiniteSet(asked) /\ Cardinality(asked) \in Nat
    BY <1>2, FS_Subset, FS_CardinalityType
  <1>4. asked # {}
    BY DEF Lines
  <1>5. Cardinality(asked) # 0
    BY <1>3, <1>4, FS_EmptySet
  <1>6. QED
    BY <1>3, <1>5 DEF QueryBegins, Queries

LEMMA AnsweredKeeps ==
  ASSUME LoopInv, SequencedInv, Answered, [Next]_vars
  PROVE  Answered'
  <1>1. Main \in Session
    BY ProfileAssumption
  <1>2. Moved(Main)
    BY <1>1, Moves
  <1>3. CASE trace' = trace /\ trace.status = "success"
    <2>1. /\ trace.parts = parts[Main] /\ phase[Main] = "idle" /\ ~QueryBegins(Main)
          /\ Lines(Main, "query.start") # {} /\ running[Main] = {}
      BY <1>1, <1>3, AskedOnce DEF Answered, LoopInv, Attuned
    <2>2. Tick \/ Resting(Main)
      BY <1>2, <2>1 DEF Moved, TurnBegins, StepBegins, CompactionBegins, TextEnds, StepEnds,
         CompactionEnds, StreamFinishes, TurnEnds, QueryEnds, StreamBreaks, LoopFails,
         ToolBegins, ToolEnds
    <2>3. /\ log'[Main] = log[Main] /\ parts'[Main] = parts[Main] /\ phase'[Main] = phase[Main]
      BY <1>1, <2>2, Ticked DEF Resting
    <2>4. Lines(Main, "query.start")' = Lines(Main, "query.start")
      BY <1>1, <2>3, RestingLines
    <2>5. QED
      BY <1>3, <2>1, <2>3, <2>4 DEF Answered
  <1>4. CASE QueryEnds(Main) /\ trace'.parts = parts[Main]
    <2>1. /\ Logs(Main, QueryEndLine(Main)) /\ phase[Main] # "idle" /\ phase'[Main] = "idle"
          /\ parts'[Main] = parts[Main]
      BY <1>1, <1>4, QueryEnded
    <2>2. PICK x : Added(Main, QueryEndLine(Main), x)
      BY <1>1, <2>1, Logged
    <2>3. log[Main] # <<>> /\ log[Main][1].ev = "query.start" /\ log[Main] \in Seq(Line)
      BY <1>1, <2>1 DEF SequencedInv, Sequenced, LoopInv, DataTyped
    <2>4. 1 \in DOMAIN log[Main]
      BY <2>3
    <2>5. 1 \in Lines(Main, "query.start")'
      BY <2>2, <2>3, <2>4 DEF Added, Lines
    <2>6. QED
      BY <1>4, <2>1, <2>5 DEF Answered
  <1>5. CASE trace'.status # "success"
    BY <1>5 DEF Answered
  <1>6. QED
    BY <1>3, <1>4, <1>5, Recorded

LEMMA MessagesInvariant == Spec => []MessagesInv
  <1>1. Init => MessagesInv
    BY DEF Init, MessagesInv, Answered, Retold, Lines, NoTrace
  <1>2. LoopInv /\ SequencedInv /\ TurnedInv /\ MessagesInv /\ [Next]_vars => MessagesInv'
    BY RetoldKeeps, AnsweredKeeps DEF MessagesInv
  <1>3. QED
    BY <1>1, <1>2, LoopInvariant, SequencedInvariant, TurnedInvariant, PTL DEF Spec

\* A call of bash that is not excluded was short, and not suspicious if it failed.
LEMMA Unexcluded ==
  ASSUME LoopInv, MessagesInv, trace.status = "success", NEW i \in Lines(Main, "tool.end"),
         log[Main][i].name = "bash", log[Main][i].call \notin ExcludedCalls
  PROVE  /\ log[Main][i].duration \in Nat /\ log[Main][i].duration < MinDuration
         /\ log[Main][i].ok \/ Shapes[log[Main][i].call] = {}
  <1> DEFINE e == log[Main][i]
  <1>1. Main \in Session
    BY ProfileAssumption
  <1>2. e \in ToolEndLines
    BY <1>1, MeasuredLines
  <1>3. e.ts \in Nat /\ e.duration \in Nat /\ e.ts # None /\ e.duration # None
    BY <1>2, Numbers DEF ToolEndLines
  <1>4. PICK j \in DOMAIN parts[Main] : Told(parts[Main][j], e)
    BY <1>1 DEF MessagesInv, Retold
  <1> DEFINE p == parts[Main][j]
  <1>5. TraceParts = parts[Main]
    BY DEF TraceParts, MessagesInv, Answered
  <1>6. p \in ToSet(TraceParts)
    BY <1>5 DEF ToSet
  <1>7. /\ p.call = e.call /\ Tool[p.call] = "bash" /\ p.start = e.ts - e.duration
        /\ p.end = e.ts /\ p.status = IF e.ok THEN "completed" ELSE "error"
    BY <1>4 DEF Told
  <1> HIDE DEF e, p
  <1>8. p.end - p.start = e.duration
    BY <1>3, <1>7
  <1>9. PartDuration(p) = e.duration
    BY <1>3, <1>7, <1>8 DEF PartDuration
  <1>10. ~(p \in Flagged /\ Hangs(p))
    BY <1>7 DEF ExcludedCalls, e
  <1>11. ~LongByTime(p)
    BY <1>6, <1>7, <1>10 DEF Flagged, Hangs, Bash
  <1>12. e.duration < MinDuration
    BY <1>3, <1>9, <1>11, DurationAssumption DEF LongByTime
  <1>13. e.ok \/ Shapes[e.call] = {}
    BY <1>6, <1>7, <1>10 DEF Flagged, Hangs, Bash
  <1>14. QED
    BY <1>3, <1>12, <1>13 DEF e

\* HangsExcluded: with the calls that filter_hanging_tools.py flags excluded, no call of
\* bash of MinDuration is left in the decomposition of the recorded session, none of a
\* suspicious command that failed, and the mean over its calls is below MinDuration.  It
\* follows from every line of a call being told again by the messages the script reads.
THEOREM HangingCallsAreExcluded == Spec => []HangsExcluded
  <1>1. LoopInv /\ MessagesInv => HangsExcluded
    <2>1. SUFFICES ASSUME LoopInv, MessagesInv, trace.status = "success"
                   PROVE  HangsExcluded
      BY DEF HangsExcluded
    <2> DEFINE excluded == ExcludedCalls
               calls == OkCalls("bash", excluded)
               f == [r \in calls |-> log[r[1]][r[2]].duration]
    <2>2. Main \in Session /\ log[Main] \in Seq(Line) /\ Len(log[Main]) \in Nat
      BY <2>1, ProfileAssumption DEF LoopInv, DataTyped
    <2>3. ASSUME Cardinality(calls) > 0, \A r \in calls : r[1] = Main
          PROVE  SumOver(calls, f) < MinDuration * Cardinality(calls)
      <3>1. calls \subseteq {Main} \X (1..MaxEvents)
        BY <2>3 DEF OkCalls
      <3>2. IsFiniteSet({Main} \X (1..MaxEvents))
        <4>1. MaxEvents \in Int /\ 1 \in Int
          BY ProfileAssumption
        <4>2. IsFiniteSet(1..MaxEvents) /\ IsFiniteSet({Main})
          BY <4>1, FS_Interval, FS_Singleton
        <4>3. QED
          BY <4>2, FS_Product
      <3>3. IsFiniteSet(calls) /\ calls # {}
        BY <2>3, <3>1, <3>2, FS_Subset, FS_EmptySet
      <3>4. ASSUME NEW r \in calls
            PROVE  f[r] \in Int /\ f[r] < MinDuration
        <4>1. /\ r[1] = Main /\ r[2] \in 1..MaxEvents /\ r[2] <= Len(log[Main])
              /\ log[Main][r[2]].ev = "tool.end" /\ log[Main][r[2]].name = "bash"
              /\ log[Main][r[2]].call \notin excluded
          BY <2>3 DEF OkCalls
        <4>2. r[2] \in DOMAIN log[Main]
          BY <2>2, <4>1
        <4>3. r[2] \in Lines(Main, "tool.end")
          BY <4>1, <4>2 DEF Lines
        <4>4. log[Main][r[2]].duration \in Nat /\ log[Main][r[2]].duration < MinDuration
          BY <2>1, <4>1, <4>3, Unexcluded
        <4>5. f[r] = log[Main][r[2]].duration
          BY <4>1
        <4>6. QED
          BY <4>4, <4>5
      <3> HIDE DEF calls, f
      <3>5. QED
        BY <3>3, <3>4, DurationAssumption, SumBelow
    <2>4. ASSUME NEW r \in Decomposed(excluded), r[1] = Main, NEW e \in Turn(r[1], r[2]).tools,
                 e.name = "bash"
          PROVE  e.duration < MinDuration /\ (e.ok \/ Shapes[e.call] = {})
      <3>1. e \in ToolLines(Main, r[2])
        BY <2>4 DEF Turn
      <3>2. PICK i \in Events(Main, "tool.end", r[2]) : e = log[Main][i]
        BY <3>1 DEF ToolLines
      <3>3. e.call \notin excluded
        BY <2>4 DEF Decomposed, HasExcluded
      <3>4. i \in Lines(Main, "tool.end")
        BY <3>2 DEF Events
      <3>5. QED
        BY <2>1, <2>4, <3>2, <3>3, <3>4, Unexcluded
    <2>5. DurationStats("bash", excluded).n = Cardinality(calls)
      BY DEF DurationStats
    <2>6. DurationStats("bash", excluded).sum = SumOver(calls, f)
      BY DEF DurationStats
    <2> HIDE DEF excluded, f
    <2>7. QED
      BY <2>3, <2>4, <2>5, <2>6 DEF HangsExcluded, excluded
  <1>2. QED
    BY <1>1, LoopInvariant, MessagesInvariant, PTL

-------------------------------------------------------------------------------
(* The split of a turn *)

\* Nothing of a step was measured yet;
Unmarked(s, k) ==
  /\ state[s].llmDuration[k] = None /\ state[s].firstTool[k] = None
  /\ state[s].lastText[k] = None /\ state[s].streamFinish[k] = None

\* its response is under way, and its first tool began before the others did;
Streamed(s, k) ==
  LET st == state[s]
      first == st.firstTool[k]
  IN
  /\ st.llmDuration[k] = None /\ st.streamFinish[k] = None
  /\ st.llmStart[k] \in st.turnStart[k] .. now
  /\ st.lastText[k] # None => st.lastText[k] <= now
  /\ first = None => Events(s, "tool.end", k) = {} /\ running[s] = {}
  /\ first # None =>
       /\ first \in st.turnStart[k] .. now
       /\ \A i \in Events(s, "tool.end", k) : first <= log[s][i].ts - log[s][i].duration
       /\ \A c \in running[s] : first <= st.toolStart[c].ms

\* the model's time and that of the tools fit into what the turn took so far;
Settled(s, k) ==
  /\ Known(state[s].llmDuration[k], 0) + Cardinality(Busy(s, k)) <= now - state[s].turnStart[k]
  /\ \A i \in Events(s, "llm.end", k) : log[s][i].duration = state[s].llmDuration[k]

\* and into what it took.
Split(s, k) ==
  \A e \in Events(s, "turn.end", k) :
    /\ \A b \in Events(s, "turn.start", k) : log[s][e].duration = log[s][e].ts - log[s][b].ts
    /\ log[s][e].llm + Cardinality(Busy(s, k)) <= log[s][e].duration
    /\ \A l \in Events(s, "llm.end", k) :
         log[s][l].ts <= log[s][e].ts /\ log[s][e].llm = Known(log[s][l].duration, 0)

Timed(s) ==
  /\ phase[s] # "idle" => \A k \in Steps : k > step[s] => Unmarked(s, k)
  /\ phase[s] = "turn" => Unmarked(s, step[s]) /\ Events(s, "tool.end", step[s]) = {}
  /\ phase[s] = "stream" => Streamed(s, step[s])
  /\ phase[s] = "settle" => Settled(s, step[s])
  /\ \A k \in Steps : Split(s, k)
TimedInv == \A s \in Session : Clean(s) => Timed(s)

LEMMA LogGrows ==
  ASSUME LoopInv, [Next]_vars, NEW s \in Session
  PROVE  Grows(s)
  <1>1. CASE log'[s] = log[s]
    BY <1>1, RestingLines
  <1>2. ASSUME NEW line, Logs(s, line)
        PROVE  Grows(s)
    BY <1>2, Logged, AddedLines
  <1>3. Quiet \/ \E t \in Session : \E line \in Line : Writes(t, line)
    BY LogSteps
  <1>4. ASSUME NEW t \in Session, NEW line \in Line, Writes(t, line)
        PROVE  Grows(s)
    <2>1. CASE t = s
      BY <1>2, <1>4, <2>1 DEF Writes, Logs
    <2>2. CASE t # s
      <3>1. log'[s] = log[s]
        BY <1>4, <2>2 DEF Writes, LoopInv, DataTyped
      <3>2. QED
        BY <1>1, <3>1
    <2>3. QED
      BY <2>1, <2>2
  <1>5. QED
    BY <1>1, <1>3, <1>4 DEF Quiet

LEMMA SplitKept ==
  ASSUME NEW s \in Session, NEW k \in Steps, Split(s, k), Grows(s),
         \/ Events(s, "turn.end", k)' = {}
         \/ \A ev \in Measured : Events(s, ev, k)' = Events(s, ev, k)
  PROVE  Split(s, k)'
  <1>1. CASE Events(s, "turn.end", k)' = {}
    BY <1>1 DEF Split
  <1>2. CASE \A ev \in Measured : Events(s, ev, k)' = Events(s, ev, k)
    <2>1. \A i \in DOMAIN log[s] : log'[s][i] = log[s][i]
      BY DEF Grows
    <2>2. Busy(s, k)' = Busy(s, k)
      BY <1>2, <2>1, StepKept
    <2>3. /\ Events(s, "turn.end", k)' = Events(s, "turn.end", k)
          /\ Events(s, "turn.start", k)' = Events(s, "turn.start", k)
          /\ Events(s, "llm.end", k)' = Events(s, "llm.end", k)
      BY <1>2 DEF Measured
    <2>4. \A ev : \A i \in Events(s, ev, k) : log'[s][i] = log[s][i]
      BY <2>1, EventsIn
    <2> DEFINE B == Cardinality(Busy(s, k))
    <2>5. B' = B
      BY <2>2
    <2> HIDE DEF B
    <2>6. ASSUME NEW e \in Events(s, "turn.end", k)'
          PROVE  /\ \A b \in Events(s, "turn.start", k)' :
                      log'[s][e].duration = log'[s][e].ts - log'[s][b].ts
                 /\ log'[s][e].llm + B' <= log'[s][e].duration
                 /\ \A l \in Events(s, "llm.end", k)' :
                      log'[s][l].ts <= log'[s][e].ts
                        /\ log'[s][e].llm = Known(log'[s][l].duration, 0)
      BY <2>3, <2>4, <2>5, <2>6 DEF Split, B
    <2>7. QED
      BY <2>6 DEF Split, B
  <1>3. QED
    BY <1>1, <1>2

\* A line that does not end a turn leaves those that ended.
LEMMA SplitsKept ==
  ASSUME NEW s \in Session, \A k \in Steps : Split(s, k), NEW line, NEW x, Added(s, line, x),
         line.ev \notin Measured \/ Events(s, "turn.end", line.step)' = {}
  PROVE  \A k \in Steps : Split(s, k)'
  <1>1. Grows(s)
    BY AddedLines
  <1>2. ASSUME NEW k \in Steps, line.ev \notin Measured \/ k # line.step
        PROVE  \A ev \in Measured : Events(s, ev, k)' = Events(s, ev, k)
    BY <1>2, AddedLines
  <1>3. QED
    BY <1>1, <1>2, SplitKept

\* What is the same while the log is.
LEMMA QuietLog ==
  ASSUME NEW s \in Session, log'[s] = log[s]
  PROVE  /\ \A k \in Steps : Split(s, k) => Split(s, k)'
         /\ \A k \in Steps : Busy(s, k)' = Busy(s, k)
         /\ \A ev, k : Events(s, ev, k)' = Events(s, ev, k)
  <1>1. Grows(s) /\ \A ev, k : Events(s, ev, k)' = Events(s, ev, k)
    BY RestingLines
  <1>2. \A k \in Steps : Split(s, k) => Split(s, k)'
    BY <1>1, SplitKept
  <1>3. \A k \in Steps : Busy(s, k)' = Busy(s, k)
    BY <1>1 DEF Busy
  <1>4. QED
    BY <1>1, <1>2, <1>3

LEMMA TimedRests ==
  ASSUME LoopInv, NEW s \in Session, Timed(s), Resting(s)
  PROVE  Timed(s)'
  <1>1. /\ log'[s] = log[s] /\ now' = now /\ state'[s] = state[s] /\ phase'[s] = phase[s]
        /\ step'[s] = step[s] /\ running'[s] = running[s]
    BY DEF Resting
  <1>2. \A k \in Steps : Split(s, k)'
    BY <1>1, QuietLog DEF Timed
  <1>3. PICK k \in Steps : k = step[s]
    BY DEF LoopInv, LoopTyped
  <1>4. Busy(s, k)' = Busy(s, k) /\ \A ev : Events(s, ev, k)' = Events(s, ev, k)
    BY <1>1, QuietLog
  <1>5. phase[s] = "stream" => Streamed(s, k)'
    BY <1>1, <1>3, <1>4 DEF Timed, Streamed
  <1>6. phase[s] = "settle" => Settled(s, k)'
    BY <1>1, <1>3, <1>4 DEF Timed, Settled
  <1>7. \A l \in Steps : Unmarked(s, l) => Unmarked(s, l)'
    BY <1>1 DEF Unmarked
  <1>8. phase[s] # "idle" => \A l \in Steps : l > k => Unmarked(s, l)'
    BY <1>3, <1>7 DEF Timed
  <1>9. phase[s] = "turn" => Unmarked(s, k)' /\ Events(s, "tool.end", k)' = {}
    BY <1>3, <1>4, <1>7 DEF Timed
  <1>10. QED
    BY <1>1, <1>2, <1>3, <1>5, <1>6, <1>8, <1>9 DEF Timed

LEMMA TimedTicks ==
  ASSUME LoopInv, NEW s \in Session, Timed(s), Tick
  PROVE  Timed(s)'
  <1>1. /\ log' = log /\ now \in Nat /\ now' = now + 1 /\ state' = state /\ phase' = phase
        /\ step' = step /\ running' = running
    BY Ticked
  <1>2. \A k \in Steps : Split(s, k)'
    BY <1>1, QuietLog DEF Timed
  <1>3. PICK k \in Steps : k = step[s]
    BY DEF LoopInv, LoopTyped
  <1>4. Busy(s, k)' = Busy(s, k) /\ \A ev : Events(s, ev, k)' = Events(s, ev, k)
    BY <1>1, QuietLog
  <1>5. InTurn(s) =>
          /\ state[s].turnStart[k] \in 0..now /\ state[s] \in HookState
          /\ Known(state[s].llmDuration[k], 0) \in Int
    <2>1. SUFFICES ASSUME InTurn(s)
                   PROVE  /\ state[s].turnStart[k] \in 0..now /\ state[s] \in HookState
                          /\ Known(state[s].llmDuration[k], 0) \in Int
      OBVIOUS
    <2>2. state[s].turnStart[k] \in 0..now /\ state[s] \in HookState
      BY <1>3, <2>1, StateTyped DEF LoopInv, Attuned, InTurn
    <2>3. state[s].llmDuration[k] \in Span
      BY <2>2, Fields
    <2>4. QED
      BY <2>2, <2>3, Numbers DEF Span, Known
  <1>6. Cardinality(Busy(s, k)) \in Nat
    BY FiniteEvents
  <1>7. phase[s] = "stream" => Streamed(s, k)'
    <2>1. SUFFICES ASSUME phase[s] = "stream" PROVE Streamed(s, k)'
      OBVIOUS
    <2>2. Streamed(s, k) /\ state[s].turnStart[k] \in 0..now /\ state[s] \in HookState
      BY <1>3, <1>5, <2>1 DEF Timed, InTurn
    <2>3. \A m : m \in state[s].turnStart[k] .. now => m \in state[s].turnStart[k] .. now'
      BY <1>1, <2>2
    <2>4. state[s].lastText[k] # None => state[s].lastText[k] <= now'
      BY <1>1, <2>2, Fields, Marks DEF Streamed
    <2>5. QED
      BY <1>1, <1>4, <2>2, <2>3, <2>4 DEF Streamed
  <1>8. phase[s] = "settle" => Settled(s, k)'
    <2>1. SUFFICES ASSUME phase[s] = "settle" PROVE Settled(s, k)'
      OBVIOUS
    <2>2. Settled(s, k) /\ state[s].turnStart[k] \in 0..now
          /\ Known(state[s].llmDuration[k], 0) \in Int
      BY <1>3, <1>5, <2>1 DEF Timed, InTurn
    <2>3. Known(state[s].llmDuration[k], 0) + Cardinality(Busy(s, k))
            <= now' - state[s].turnStart[k]
      BY <1>1, <1>6, <2>2 DEF Settled
    <2>4. QED
      BY <1>1, <1>4, <2>2, <2>3 DEF Settled
  <1>9. \A l \in Steps : Unmarked(s, l) => Unmarked(s, l)'
    BY <1>1 DEF Unmarked
  <1>10. phase[s] # "idle" => \A l \in Steps : l > k => Unmarked(s, l)'
    BY <1>3, <1>9 DEF Timed
  <1>11. phase[s] = "turn" => Unmarked(s, k)' /\ Events(s, "tool.end", k)' = {}
    BY <1>3, <1>4, <1>9 DEF Timed
  <1>12. QED
    BY <1>1, <1>2, <1>3, <1>7, <1>8, <1>10, <1>11 DEF Timed

\* A response that breaks off counts for nothing.
LEMMA TimedUpset ==
  ASSUME LoopInv, NEW s \in Session, Timed(s), Anchored(s), StreamBreaks(s) \/ LoopFails(s)
  PROVE  Timed(s)'
  <1>1. /\ log' = log /\ now' = now /\ state' = state /\ step'[s] = step[s]
        /\ running[s] = {} /\ running'[s] = {} /\ phase[s] # "idle"
        /\ \/ phase'[s] = "idle"
           \/ phase[s] \in {"turn", "stream"} /\ phase'[s] = "settle"
    BY Upset DEF OthersRest
  <1>2. \A k \in Steps : Split(s, k)'
    BY <1>1, QuietLog DEF Timed
  <1>3. PICK k \in Steps : k = step[s]
    BY DEF LoopInv, LoopTyped
  <1>4. Busy(s, k)' = Busy(s, k) /\ \A ev : Events(s, ev, k)' = Events(s, ev, k)
    BY <1>1, QuietLog
  <1>5. phase'[s] = "settle" => Settled(s, k)'
    <2>1. SUFFICES ASSUME phase'[s] = "settle" PROVE Settled(s, k)'
      OBVIOUS
    <2>2. Streaming(s, k) /\ state[s].llmDuration[k] = None /\ state[s].turnStart[k] \in 0..now
      BY <1>1, <1>3, <2>1 DEF Anchored, Timed, Unmarked, Streamed, LoopInv, Attuned, InTurn
    <2>3. Cardinality(Busy(s, k)) <= Cardinality(BusyNow(s, k))
      BY FiniteEvents, FS_Subset DEF BusyNow
    <2>4. spent[s][k].model \in Nat
      BY DEF LoopInv, DataTyped, Tally
    <2>5. /\ Cardinality(Busy(s, k)) \in Nat /\ Cardinality(BusyNow(s, k)) \in Nat /\ now \in Nat
      BY FiniteEvents, Marks DEF LoopInv, LoopTyped
    <2>6. 0 + Cardinality(Busy(s, k)) <= now - state[s].turnStart[k]
      BY <2>2, <2>3, <2>4, <2>5 DEF Streaming
    <2>7. Known(state[s].llmDuration[k], 0) = 0
      BY <2>2 DEF Known
    <2>8. QED
      BY <1>1, <1>4, <2>2, <2>6, <2>7 DEF Settled, Streaming
  <1>6. \A l \in Steps : Unmarked(s, l) => Unmarked(s, l)'
    BY <1>1 DEF Unmarked
  <1>7. \A l \in Steps : l > k => Unmarked(s, l)'
    BY <1>1, <1>3, <1>6 DEF Timed
  <1>8. QED
    BY <1>1, <1>2, <1>3, <1>5, <1>7 DEF Timed

\* Asked for the first time, a session has nothing measured.
LEMMA TimedAsked ==
  ASSUME LoopInv, SequencedInv, NEW s \in Session, Timed(s), QueryBegins(s), Clean(s)'
  PROVE  Timed(s)'
  <1> DEFINE line == QueryStartLine(s)
  <1>1. /\ Logs(s, line) /\ line.ev = "query.start" /\ state'[s] = QueryStart(s)
        /\ phase'[s] = "loop" /\ step'[s] = 0
        /\ ~Open(s) => /\ QueryStart(s).llmDuration = Blank /\ QueryStart(s).firstTool = Blank
                       /\ QueryStart(s).lastText = Blank /\ QueryStart(s).streamFinish = Blank
    BY QueryBegun
  <1> HIDE DEF line
  <1>2. PICK x : Added(s, line, x)
    BY <1>1, Logged
  <1>3. Lines(s, "query.start")' = Lines(s, "query.start") \cup {x} /\ x \notin Lines(s, "query.start")
    BY <1>1, <1>2, AddedLines
  <1>4. Lines(s, "query.start") = {}
    BY <1>3 DEF Clean, OneQuery
  <1>5. ~Open(s)
    <2>1. SUFFICES ASSUME log[s] # <<>> PROVE FALSE
      BY DEF SequencedInv, Sequenced
    <2>2. log[s] \in Seq(Line) /\ log[s][1].ev = "query.start"
      BY <2>1 DEF LoopInv, DataTyped, SequencedInv, Sequenced
    <2>3. 1 \in DOMAIN log[s]
      BY <2>1, <2>2
    <2>4. QED
      BY <1>4, <2>2, <2>3 DEF Lines
  <1>6. \A k \in Steps : Unmarked(s, k)'
    BY <1>1, <1>5 DEF Unmarked, Blank
  <1>7. \A k \in Steps : Split(s, k)'
    <2>1. line.ev \notin Measured
      BY <1>1 DEF Measured
    <2>2. QED
      BY <1>2, <2>1, SplitsKept DEF Timed
  <1>8. QED
    BY <1>1, <1>6, <1>7 DEF Timed

LEMMA TimedTurns ==
  ASSUME LoopInv, NEW s \in Session, Timed(s), Anchored(s), TurnBegins(s)
  PROVE  Timed(s)'
  <1>1. PICK k : k = step[s] + 1
    OBVIOUS
  <1> DEFINE line == TurnStartLine(s, k)
  <1>2. /\ Logs(s, line) /\ line.ev = "turn.start" /\ line.step = k
        /\ k \in Steps /\ state[s] \in HookState
        /\ phase[s] = "loop" /\ phase'[s] = "turn" /\ step'[s] = k
        /\ state'[s].llmDuration = state[s].llmDuration
        /\ state'[s].firstTool = state[s].firstTool /\ state'[s].lastText = state[s].lastText
        /\ state'[s].streamFinish = state[s].streamFinish
    BY <1>1, TurnBegun
  <1> HIDE DEF line
  <1>3. PICK x : Added(s, line, x)
    BY <1>2, Logged
  <1>4. step[s] \in Nat /\ k > step[s] /\ \A l \in Steps : l > k => l > step[s]
    <2>1. step[s] \in Steps
      BY DEF LoopInv, LoopTyped
    <2>2. step[s] \in Nat /\ \A l \in Steps : l \in Nat
      BY <2>1, Numbers
    <2>3. QED
      BY <1>1, <2>2
  <1>6. \A l \in Steps : l > step[s] => Unmarked(s, l)'
    BY <1>2 DEF Timed, Unmarked
  <1>7. Events(s, "tool.end", k) = {} /\ Events(s, "turn.end", k) = {}
    BY <1>2, <1>4 DEF Anchored, Ahead, Measured
  <1>8. Events(s, "tool.end", k)' = {} /\ Events(s, "turn.end", k)' = {}
    BY <1>2, <1>3, <1>7, AddedLines
  <1>9. \A l \in Steps : Split(s, l)'
    BY <1>2, <1>3, <1>8, SplitsKept DEF Timed
  <1>10. QED
    BY <1>2, <1>4, <1>6, <1>8, <1>9 DEF Timed

LEMMA TimedStreams ==
  ASSUME LoopInv, NEW s \in Session, Timed(s), StepBegins(s)
  PROVE  Timed(s)'
  <1>1. PICK k \in Steps : k = step[s]
    BY DEF LoopInv, LoopTyped
  <1> DEFINE line == [ev |-> "llm.start", ts |-> now, step |-> step[s]]
  <1>2. phase[s] = "turn"
    BY DEF StepBegins
  <1>3. /\ Logs(s, line) /\ line.ev = "llm.start" /\ state[s] \in HookState
        /\ Put(state'[s].llmStart, state[s].llmStart, k, now)
        /\ phase'[s] = "stream" /\ step'[s] = k /\ running'[s] = {}
    BY <1>1, <1>2, StepBegun
  <1>4. now' = now /\ now \in Nat /\ state[s].turnStart[k] \in 0..now
    BY <1>1, <1>2, Marks DEF StepBegins, LoopInv, LoopTyped, Attuned, InTurn
  <1> HIDE DEF line
  <1>5. PICK x : Added(s, line, x)
    BY <1>3, Logged
  <1>6. /\ state'[s].llmDuration = state[s].llmDuration
        /\ state'[s].firstTool = state[s].firstTool /\ state'[s].lastText = state[s].lastText
        /\ state'[s].streamFinish = state[s].streamFinish
        /\ state'[s].turnStart = state[s].turnStart /\ state'[s].llmStart[k] = now
    BY <1>1, StepBegun DEF Put
  <1>7. Unmarked(s, k) /\ Events(s, "tool.end", k) = {}
    BY <1>1, <1>2 DEF Timed
  <1>8. Events(s, "tool.end", k)' = {}
    BY <1>3, <1>5, <1>7, AddedLines
  <1>9. Streamed(s, k)'
    BY <1>3, <1>4, <1>6, <1>7, <1>8 DEF Streamed, Unmarked
  <1>10. \A l \in Steps : l > k => Unmarked(s, l)'
    BY <1>1, <1>2, <1>6 DEF Timed, Unmarked
  <1>11. \A l \in Steps : Split(s, l)'
    <2>1. line.ev \notin Measured
      BY <1>3 DEF Measured
    <2>2. QED
      BY <1>5, <2>1, SplitsKept DEF Timed
  <1>12. QED
    BY <1>3, <1>9, <1>10, <1>11 DEF Timed

LEMMA TimedTexts ==
  ASSUME LoopInv, NEW s \in Session, Timed(s), TextEnds(s)
  PROVE  Timed(s)'
  <1>1. PICK k \in Steps : k = step[s]
    BY DEF LoopInv, LoopTyped
  <1>2. /\ OthersRest(s) /\ log' = log /\ state[s] \in HookState
        /\ phase[s] = "stream" /\ phase'[s] = "stream" /\ step'[s] = k
        /\ running'[s] = running[s]
    BY <1>1, TextEnded
  <1>3. now' = now /\ now \in Nat
    BY <1>2, Marks DEF OthersRest, LoopInv, LoopTyped
  <1>4. /\ state'[s].llmDuration = state[s].llmDuration
        /\ state'[s].firstTool = state[s].firstTool
        /\ state'[s].lastText[k] = now
        /\ \A l \in Steps \ {k} : state'[s].lastText[l] = state[s].lastText[l]
        /\ state'[s].streamFinish = state[s].streamFinish
        /\ state'[s].turnStart = state[s].turnStart /\ state'[s].llmStart = state[s].llmStart
        /\ state'[s].toolStart = state[s].toolStart
    BY <1>1, TextEnded DEF Put
  <1>5. \A l \in Steps : Split(s, l)'
    BY <1>2, QuietLog DEF Timed
  <1>6. \A ev : Events(s, ev, k)' = Events(s, ev, k)
    BY <1>2, QuietLog
  <1>7. Streamed(s, k)'
    BY <1>1, <1>2, <1>3, <1>4, <1>6 DEF Timed, Streamed
  <1>8. \A l \in Steps : l > k => l \in Steps \ {k}
    BY Numbers
  <1>9. \A l \in Steps : l > k => Unmarked(s, l)'
    BY <1>1, <1>2, <1>4, <1>8 DEF Timed, Unmarked
  <1>10. QED
    BY <1>2, <1>5, <1>7, <1>9 DEF Timed

LEMMA TimedToolBegins ==
  ASSUME LoopInv, NEW s \in Session, Timed(s), NEW c \in Call, ToolBegins(s, c)
  PROVE  Timed(s)'
  <1>1. PICK k \in Steps : k = step[s]
    BY DEF LoopInv, LoopTyped
  <1> DEFINE line == ToolStartLine(s, c)
             st == state[s]
             st1 == state'[s]
  <1>2. /\ OthersRest(s) /\ Logs(s, line) /\ line.ev = "tool.start"
        /\ phase[s] = "stream" /\ phase'[s] = "stream" /\ step'[s] = k
        /\ c \notin running[s] /\ running'[s] = running[s] \cup {c}
    BY <1>1, ToolBegun
  <1>3. /\ st1.toolStart[c].ms = now
        /\ \A d \in Call \ {c} : st1.toolStart[d] = st.toolStart[d]
        /\ Put(st1.firstTool, st.firstTool, k, Known(st.firstTool[k], now))
    BY <1>1, ToolBegun
  <1>4. /\ st1.llmStart = st.llmStart /\ st1.llmDuration = st.llmDuration
        /\ st1.lastText = st.lastText /\ st1.streamFinish = st.streamFinish
        /\ st1.turnStart = st.turnStart /\ st \in HookState
    BY <1>1, ToolBegun
  <1> HIDE DEF line
  <1>5. PICK x : Added(s, line, x)
    BY <1>2, Logged
  <1>6. now' = now /\ now \in Nat /\ now # None /\ st.turnStart[k] \in 0..now
    BY <1>1, <1>2, Marks, Numbers DEF OthersRest, LoopInv, LoopTyped, Attuned, InTurn
  <1>7. \A l \in Steps : l > k => Unmarked(s, l)'
    <2>1. \A l \in Steps : l > k => l \in Steps \ {k}
      BY Numbers
    <2>2. QED
      BY <1>1, <1>2, <1>3, <1>4, <2>1 DEF Timed, Unmarked, Put
  <1>8. \A l \in Steps : Split(s, l)'
    <2>1. line.ev \notin Measured
      BY <1>2 DEF Measured
    <2>2. QED
      BY <1>5, <2>1, SplitsKept DEF Timed
  <1>9. Streamed(s, k)
    BY <1>1, <1>2 DEF Timed
  <1>10. /\ Events(s, "tool.end", k)' = Events(s, "tool.end", k)
         /\ \A i \in Events(s, "tool.end", k) : log'[s][i] = log[s][i]
    BY <1>2, <1>5, AddedLines, EventsIn DEF Added
  <1>11. \A d \in running[s] : st1.toolStart[d] = st.toolStart[d]
    BY <1>2, <1>3 DEF LoopInv, LoopTyped
  <1> HIDE DEF st, st1
  <1>12. Streamed(s, k)'
    <2>1. CASE st.firstTool[k] = None
      <3>1. st1.firstTool[k] = now /\ running'[s] = {c} /\ Events(s, "tool.end", k)' = {}
        BY <1>2, <1>3, <1>9, <1>10, <2>1 DEF Put, Known, Streamed, st
      <3>2. now \in st.turnStart[k] .. now
        BY <1>6
      <3>3. QED
        BY <1>3, <1>4, <1>6, <1>9, <3>1, <3>2 DEF Streamed, st, st1
    <2>2. CASE st.firstTool[k] # None
      <3> DEFINE first == st.firstTool[k]
      <3>1. st1.firstTool[k] = first
        BY <1>3, <2>2 DEF Put, Known
      <3>2. /\ first \in st.turnStart[k] .. now
            /\ \A j \in Events(s, "tool.end", k) : first <= log[s][j].ts - log[s][j].duration
            /\ \A d \in running[s] : first <= st.toolStart[d].ms
        BY <1>9, <2>2 DEF Streamed, st
      <3>3. \A d \in running'[s] : first <= st1.toolStart[d].ms
        BY <1>2, <1>3, <1>6, <1>11, <3>2
      <3> HIDE DEF first
      <3>4. QED
        BY <1>4, <1>6, <1>9, <1>10, <2>2, <3>1, <3>2, <3>3 DEF Streamed, st, st1, first
    <2>3. QED
      BY <2>1, <2>2
  <1>13. QED
    BY <1>2, <1>7, <1>8, <1>12 DEF Timed

LEMMA TimedToolEnds ==
  ASSUME LoopInv, NEW s \in Session, Timed(s), Anchored(s),
         NEW c \in Call, NEW ok \in BOOLEAN, ToolEnds(s, c, ok)
  PROVE  Timed(s)'
  <1>1. PICK k \in Steps : k = step[s]
    BY DEF LoopInv, LoopTyped
  <1> DEFINE line == ToolEndLine(s, c, ok)
             st == state[s]
             st1 == state'[s]
             ms == st.toolStart[c].ms
  <1>2. /\ OthersRest(s) /\ Logs(s, line) /\ line.ev = "tool.end" /\ line.step = k
        /\ line.ts = now /\ line.duration = now - ms /\ now \in Nat /\ ms \in 0..now
        /\ phase[s] = "stream" /\ phase'[s] = "stream" /\ step'[s] = k
        /\ c \in running[s] /\ running'[s] = running[s] \ {c}
    BY <1>1, ToolEnded
  <1>3. /\ \A d \in Call \ {c} : st1.toolStart[d] = st.toolStart[d]
        /\ st1.llmStart = st.llmStart /\ st1.llmDuration = st.llmDuration
        /\ st1.firstTool = st.firstTool
        /\ st1.lastText = st.lastText /\ st1.streamFinish = st.streamFinish
        /\ st1.turnStart = st.turnStart
    BY <1>1, ToolEnded
  <1> HIDE DEF line, ms
  <1>4. PICK x : Added(s, line, x)
    BY <1>2, Logged
  <1>5. now' = now
    BY <1>2 DEF OthersRest
  <1>6. \A l \in Steps : l > k => Unmarked(s, l)'
    BY <1>1, <1>2, <1>3 DEF Timed, Unmarked
  <1>7. \A l \in Steps : Split(s, l)'
    <2>1. Events(s, "turn.end", k) = {}
      BY <1>1, <1>2 DEF Anchored, Begun, InTurn
    <2>2. Events(s, "turn.end", k)' = {}
      BY <1>2, <1>4, <2>1, AddedLines
    <2>3. QED
      BY <1>2, <1>4, <2>2, SplitsKept DEF Timed
  <1>8. Streamed(s, k)
    BY <1>1, <1>2 DEF Timed
  <1>9. /\ Events(s, "tool.end", k)' = Events(s, "tool.end", k) \cup {x}
        /\ \A i \in Events(s, "tool.end", k) : log'[s][i] = log[s][i]
        /\ log'[s][x] = line
    BY <1>2, <1>4, AddedLines, EventsIn DEF Added
  <1>10. \A d \in running'[s] : d \in running[s] /\ st1.toolStart[d] = st.toolStart[d]
    BY <1>2, <1>3 DEF LoopInv, LoopTyped
  <1> DEFINE first == st.firstTool[k]
  <1>11. /\ first # None /\ first \in st.turnStart[k] .. now
         /\ \A j \in Events(s, "tool.end", k) : first <= log[s][j].ts - log[s][j].duration
         /\ \A d \in running[s] : first <= st.toolStart[d].ms
    BY <1>2, <1>8 DEF Streamed
  <1>12. \A j \in Events(s, "tool.end", k)' : first <= log'[s][j].ts - log'[s][j].duration
    <2>1. line.ts - line.duration = ms /\ first <= ms
      BY <1>2, <1>11 DEF ms
    <2>2. QED
      BY <1>9, <1>11, <2>1
  <1>13. \A d \in running'[s] : first <= st1.toolStart[d].ms
    BY <1>10, <1>11
  <1> HIDE DEF first
  <1>14. Streamed(s, k)'
    BY <1>3, <1>5, <1>8, <1>11, <1>12, <1>13 DEF Streamed, first
  <1>15. QED
    BY <1>2, <1>6, <1>7, <1>14 DEF Timed

LEMMA TimedFinishes ==
  ASSUME LoopInv, NEW s \in Session, Timed(s), StreamFinishes(s)
  PROVE  Timed(s)'
  <1>1. PICK k \in Steps : k = step[s]
    BY DEF LoopInv, LoopTyped
  <1> DEFINE line == [ev |-> "llm.stream-finish", ts |-> now, step |-> step[s]]
  <1>2. /\ OthersRest(s) /\ Logs(s, line) /\ line.ev = "llm.stream-finish"
        /\ phase[s] = "settle" /\ phase'[s] = "settle" /\ step'[s] = k
        /\ Put(state'[s].streamFinish, state[s].streamFinish, k, now)
    BY <1>1, StreamFinished
  <1>3. /\ state'[s].llmDuration = state[s].llmDuration
        /\ state'[s].firstTool = state[s].firstTool /\ state'[s].lastText = state[s].lastText
        /\ state'[s].turnStart = state[s].turnStart
    BY <1>1, StreamFinished
  <1> HIDE DEF line
  <1>4. PICK x : Added(s, line, x)
    BY <1>2, Logged
  <1>5. now' = now /\ line.ev \notin Measured
    BY <1>2 DEF OthersRest, Measured
  <1>6. \A l \in Steps : l > k => Unmarked(s, l)'
    <2>1. \A l \in Steps : l > k => l \in Steps \ {k}
      BY Numbers
    <2>2. QED
      BY <1>1, <1>2, <1>3, <2>1 DEF Timed, Unmarked, Put
  <1>7. \A l \in Steps : Split(s, l)'
    BY <1>4, <1>5, SplitsKept DEF Timed
  <1>8. Grows(s) /\ \A ev \in Measured : Events(s, ev, k)' = Events(s, ev, k)
    BY <1>4, <1>5, AddedLines
  <1>9. Busy(s, k)' = Busy(s, k)
    BY <1>8, StepKept DEF Grows
  <1>10. /\ Events(s, "llm.end", k)' = Events(s, "llm.end", k)
         /\ \A i \in Events(s, "llm.end", k) : log'[s][i] = log[s][i]
    BY <1>8, EventsIn DEF Measured, Grows
  <1>11. Settled(s, k)'
    BY <1>1, <1>2, <1>3, <1>5, <1>9, <1>10 DEF Timed, Settled
  <1>12. QED
    BY <1>2, <1>6, <1>7, <1>11 DEF Timed

LEMMA TimedQueryEnds ==
  ASSUME LoopInv, NEW s \in Session, Timed(s), QueryEnds(s)
  PROVE  Timed(s)'
  <1> DEFINE line == QueryEndLine(s)
  <1>1. Logs(s, line) /\ line.ev = "query.end" /\ phase'[s] = "idle"
    BY QueryEnded
  <1> HIDE DEF line
  <1>2. PICK x : Added(s, line, x)
    BY <1>1, Logged
  <1>3. line.ev \notin Measured
    BY <1>1 DEF Measured
  <1>4. \A l \in Steps : Split(s, l)'
    BY <1>2, <1>3, SplitsKept DEF Timed
  <1>5. QED
    BY <1>1, <1>4 DEF Timed

\* The model's time ends where the first tool begins, and all of them are over.
LEMMA TimedStepEnds ==
  ASSUME LoopInv, SequencedInv, NEW s \in Session, Timed(s), Anchored(s), StepEnds(s)
  PROVE  Timed(s)'
  <1>1. PICK k \in Steps : k = step[s]
    BY DEF LoopInv, LoopTyped
  <1> DEFINE line == LlmEndLine(s)
             st == state[s]
             d == LlmDuration(s)
  <1>2. phase[s] = "stream"
    BY DEF StepEnds
  <1>3. /\ OthersRest(s) /\ Logs(s, line) /\ line.ev = "llm.end" /\ line.step = k
        /\ line.duration = d /\ st.step = k /\ st \in HookState
        /\ phase'[s] = "settle" /\ step'[s] = k /\ running[s] = {}
        /\ Put(state'[s].llmDuration, st.llmDuration, k, d)
    BY <1>1, <1>2, StepEnded
  <1>4. /\ Put(state'[s].firstTool, st.firstTool, k, None)
        /\ Put(state'[s].lastText, st.lastText, k, None)
        /\ Put(state'[s].streamFinish, st.streamFinish, k, None)
        /\ state'[s].turnStart = st.turnStart
    BY <1>1, <1>2, StepEnded
  <1> HIDE DEF line
  <1>5. PICK x : Added(s, line, x)
    BY <1>3, Logged
  <1>6. now' = now /\ now \in Nat /\ st.turnStart[k] \in 0..now
    BY <1>1, <1>2, <1>3, Marks DEF OthersRest, LoopInv, LoopTyped, Attuned, InTurn
  <1>7. Streamed(s, k) /\ Streaming(s, k) /\ Begun(s, k)
    BY <1>1, <1>2 DEF Timed, Anchored, InTurn
  <1>8. \A l \in Steps : l > k => Unmarked(s, l)'
    <2>1. \A l \in Steps : l > k => l \in Steps \ {k}
      BY Numbers
    <2>2. QED
      BY <1>1, <1>2, <1>3, <1>4, <2>1 DEF Timed, Unmarked, Put
  <1>9. /\ Grows(s) /\ Events(s, "turn.end", k)' = {} /\ Events(s, "llm.end", k)' = {x}
        /\ Events(s, "tool.end", k)' = Events(s, "tool.end", k) /\ log'[s][x] = line
    BY <1>3, <1>5, <1>7, AddedLines DEF Begun, Streaming, Added
  <1>10. \A l \in Steps : Split(s, l)'
    BY <1>3, <1>5, <1>9, SplitsKept DEF Timed
  <1>11. Busy(s, k)' = Busy(s, k)
    BY <1>9, EventsIn DEF Busy, Grows
  <1> DEFINE B == Cardinality(Busy(s, k))
  <1>12. B \in Nat
    BY FiniteEvents
  <1>13. d = Known(st.firstTool[k], Known(st.lastText[k], now)) - st.llmStart[k]
    <2>1. st.llmStart[k] # None /\ st.streamFinish[k] = None
      BY <1>6, <1>7 DEF Streamed, None
    <2>2. QED
      BY <1>3, <2>1 DEF LlmDuration, Known
  <1>14. st.llmStart[k] \in Int /\ st.llmStart[k] >= st.turnStart[k]
    BY <1>6, <1>7 DEF Streamed
  <1>15. Known(d, 0) + B <= now - st.turnStart[k]
    <2>1. CASE st.firstTool[k] = None
      <3>1. Busy(s, k) = {}
        BY <1>7, <2>1 DEF Streamed, Busy
      <3>2. B = 0
        BY <3>1, FS_EmptySet
      <3>3. Known(st.lastText[k], now) \in Int /\ Known(st.lastText[k], now) <= now
        <4>1. st.lastText[k] \in Int
          BY <1>3, Fields, Marks
        <4>2. QED
          BY <1>6, <1>7, <4>1 DEF Streamed, Known
      <3>4. d = Known(st.lastText[k], now) - st.llmStart[k]
        BY <1>13, <2>1 DEF Known
      <3> HIDE DEF d, B
      <3>5. QED
        BY <1>6, <1>14, <3>2, <3>3, <3>4 DEF Known, None
    <2>2. CASE st.firstTool[k] # None
      <3> DEFINE first == st.firstTool[k]
      <3>1. /\ first \in st.turnStart[k] .. now
            /\ \A i \in Events(s, "tool.end", k) : first <= log[s][i].ts - log[s][i].duration
        BY <1>7, <2>2 DEF Streamed
      <3>2. d = first - st.llmStart[k]
        BY <1>13, <2>2 DEF Known
      <3>3. first \in Int /\ first <= now
        BY <1>6, <3>1
      <3>4. Busy(s, k) \subseteq first .. (now - 1)
        <4>1. SUFFICES ASSUME NEW m \in Moment, NEW i \in Events(s, "tool.end", k),
                              During(log[s][i], m)
                       PROVE  m \in first .. (now - 1)
          BY DEF Busy
        <4>2. i \in DOMAIN log[s] /\ i \in Lines(s, "tool.end")
          BY EventsIn
        <4>3. log[s][i] \in ToolEndLines
          BY <4>2, MeasuredLines
        <4>4. log[s][i].ts \in Nat /\ log[s][i].duration \in Nat
          BY <4>3, Numbers DEF ToolEndLines
        <4>5. log[s][i].ts <= now
          BY <4>2 DEF SequencedInv, Sequenced
        <4>6. m \in Int
          BY Numbers DEF Moment
        <4> HIDE DEF first
        <4>7. QED
          BY <1>6, <3>1, <3>3, <4>1, <4>4, <4>5, <4>6 DEF During
      <3> HIDE DEF first
      <3>5. /\ now - 1 \in Int /\ IsFiniteSet(first .. (now - 1))
            /\ Cardinality(first .. (now - 1)) = now - first
        <4>1. now - 1 \in Int
          BY <1>6
        <4>2. /\ IsFiniteSet(first .. (now - 1))
              /\ Cardinality(first .. (now - 1)) =
                   IF first > now - 1 THEN 0 ELSE (now - 1) - first + 1
          BY <3>3, <4>1, FS_Interval
        <4>3. (IF first > now - 1 THEN 0 ELSE (now - 1) - first + 1) = now - first
          BY <1>6, <3>3
        <4>4. QED
          BY <4>1, <4>2, <4>3
      <3>6. B <= now - first
        BY <3>4, <3>5, FS_Subset
      <3> HIDE DEF d, B
      <3>7. QED
        BY <1>6, <1>12, <1>14, <3>1, <3>2, <3>3, <3>6 DEF Known, None
    <2>3. QED
      BY <2>1, <2>2
  <1>16. Settled(s, k)'
    <2>1. state'[s].llmDuration[k] = d
      BY <1>3 DEF Put
    <2> HIDE DEF d, B
    <2>2. Known(state'[s].llmDuration[k], 0) + B' <= now' - state'[s].turnStart[k]
      BY <1>4, <1>6, <1>11, <1>15, <2>1 DEF B
    <2>3. \A i \in Events(s, "llm.end", k)' : log'[s][i].duration = state'[s].llmDuration[k]
      BY <1>3, <1>9, <2>1
    <2>4. QED
      BY <2>2, <2>3 DEF Settled, B
  <1>17. QED
    BY <1>3, <1>8, <1>10, <1>16 DEF Timed

LEMMA TimedTurnEnds ==
  ASSUME LoopInv, SequencedInv, NEW s \in Session, Timed(s), Anchored(s), TurnEnds(s)
  PROVE  Timed(s)'
  <1>1. PICK k \in Steps : k = step[s]
    BY DEF LoopInv, LoopTyped
  <1> DEFINE line == TurnEndLine(s, k)
             st == state[s]
  <1>2. /\ OthersRest(s) /\ Logs(s, line) /\ line.ev = "turn.end" /\ line.step = k
        /\ line.ts = now /\ line.duration = now - st.turnStart[k]
        /\ line.llm = Known(st.llmDuration[k], 0) /\ st.turnStart[k] \in 0..now
    BY <1>1, TurnEnded
  <1>3. /\ phase[s] = "settle" /\ phase'[s] = "loop" /\ step'[s] = k
        /\ state'[s].llmDuration = st.llmDuration /\ state'[s].firstTool = st.firstTool
        /\ state'[s].lastText = st.lastText /\ state'[s].streamFinish = st.streamFinish
    BY <1>1, TurnEnded
  <1> HIDE DEF line
  <1>4. PICK x : Added(s, line, x)
    BY <1>2, Logged
  <1>5. \A l \in Steps : l > k => Unmarked(s, l)'
    BY <1>1, <1>3 DEF Timed, Unmarked
  <1>6. Settled(s, k) /\ Begun(s, k)
    BY <1>1, <1>3 DEF Timed, Anchored, InTurn
  <1>7. /\ Grows(s) /\ Events(s, "turn.end", k)' = {x} /\ log'[s][x] = line
        /\ Events(s, "tool.end", k)' = Events(s, "tool.end", k)
        /\ Events(s, "turn.start", k)' = Events(s, "turn.start", k)
        /\ Events(s, "llm.end", k)' = Events(s, "llm.end", k)
    BY <1>2, <1>4, <1>6, AddedLines DEF Begun, Added
  <1>8. Busy(s, k)' = Busy(s, k)
    BY <1>7, EventsIn DEF Busy, Grows
  <1>9. \A ev : \A i \in Events(s, ev, k) : i \in DOMAIN log[s] /\ log'[s][i] = log[s][i]
    BY <1>7, EventsIn DEF Grows
  <1>10. ASSUME NEW b \in Events(s, "turn.start", k)
         PROVE  line.duration = line.ts - log'[s][b].ts
    BY <1>2, <1>6, <1>9 DEF Begun
  <1>11. ASSUME NEW l \in Events(s, "llm.end", k)
         PROVE  log'[s][l].ts <= line.ts /\ line.llm = Known(log'[s][l].duration, 0)
    BY <1>2, <1>6, <1>9 DEF Settled, SequencedInv, Sequenced
  <1> DEFINE B == Cardinality(Busy(s, k))
  <1>12. line.llm + B' <= line.duration
    <2>1. B' = B
      BY <1>8
    <2>2. QED
      BY <1>2, <1>6, <2>1 DEF Settled
  <1> HIDE DEF B
  <1>13. Split(s, k)'
    <2>1. ASSUME NEW e \in Events(s, "turn.end", k)'
          PROVE  log'[s][e] = line
      BY <1>7
    <2>2. QED
      BY <1>7, <1>10, <1>11, <1>12, <2>1 DEF Split, B
  <1>14. ASSUME NEW l \in Steps, l # k
         PROVE  Split(s, l)'
    <2>1. \A ev \in Measured : Events(s, ev, l)' = Events(s, ev, l)
      BY <1>2, <1>4, <1>14, AddedLines
    <2>2. QED
      BY <1>7, <2>1, SplitKept DEF Timed
  <1>15. QED
    BY <1>3, <1>5, <1>13, <1>14 DEF Timed

LEMMA TimedKeeps ==
  ASSUME LoopInv, SequencedInv, TurnedInv, TimedInv, [Next]_vars, NEW s \in Session, Clean(s)'
  PROVE  Timed(s)'
  <1>1. Moved(s)
    BY Moves
  <1>2. Clean(s)
    BY LogGrows, CleanBefore DEF Grows
  <1>3. Timed(s) /\ Anchored(s)
    BY <1>2 DEF TimedInv, TurnedInv, Turned
  <1>4. Anchored(s)'
    BY TurnedNext DEF TurnedInv, Turned
  <1>5. CASE Tick \/ Resting(s) \/ StreamBreaks(s) \/ LoopFails(s) \/ QueryBegins(s)
    BY <1>3, <1>5, TimedTicks, TimedRests, TimedUpset, TimedAsked
  <1>6. CASE TurnBegins(s) \/ StepBegins(s) \/ TextEnds(s) \/ StreamFinishes(s)
    BY <1>3, <1>6, TimedTurns, TimedStreams, TimedTexts, TimedFinishes
  <1>7. CASE StepEnds(s) \/ TurnEnds(s) \/ QueryEnds(s)
    BY <1>3, <1>7, TimedStepEnds, TimedTurnEnds, TimedQueryEnds
  <1>8. CASE CompactionBegins(s) \/ CompactionEnds(s)
    BY <1>3, <1>4, <1>8 DEF Anchored, CompactionBegins, CompactionEnds, Go, LoopInv, LoopTyped
  <1>9. CASE \E c \in Call : ToolBegins(s, c)
    BY <1>3, <1>9, TimedToolBegins
  <1>10. CASE \E c \in Call, ok \in BOOLEAN : ToolEnds(s, c, ok)
    BY <1>3, <1>10, TimedToolEnds
  <1>11. QED
    BY <1>1, <1>5, <1>6, <1>7, <1>8, <1>9, <1>10 DEF Moved

LEMMA TimedInvariant == Spec => []TimedInv
  <1>1. Init => TimedInv
    BY DEF Init, TimedInv, Timed, Split, Events, Lines
  <1>2. LoopInv /\ SequencedInv /\ TurnedInv /\ TimedInv /\ [Next]_vars => TimedInv'
    BY TimedKeeps DEF TimedInv
  <1>3. QED
    BY <1>1, <1>2, LoopInvariant, SequencedInvariant, TurnedInvariant, PTL DEF Spec

\* What the hooks write is split by Post, and what came after the stream is not negative.
Written(e) ==
  /\ e.ev = "turn.end" => e.post = Post(e.duration, e.llm, e.tool)
  /\ e.ev = "llm.end" => e.postStream \in Nat \cup {None}
WrittenInv == \A s \in Session : \A i \in DOMAIN log[s] : Written(log[s][i])

LEMMA WrittenKeeps ==
  ASSUME LoopInv, WrittenInv, [Next]_vars, NEW s \in Session, NEW i \in DOMAIN log'[s]
  PROVE  Written(log'[s][i])
  <1>1. Moved(s)
    BY Moves
  <1>2. CASE log'[s] = log[s]
    BY <1>2 DEF WrittenInv
  <1>3. ASSUME NEW line, Logs(s, line), Written(line)
        PROVE  Written(log'[s][i])
    <2>1. PICK x : Added(s, line, x)
      BY <1>3, Logged
    <2>2. QED
      BY <1>3, <2>1 DEF Added, WrittenInv
  <1>4. \A line : line.ev \notin {"turn.end", "llm.end"} => Written(line)
    BY DEF Written
  <1>5. CASE Tick \/ Resting(s) \/ TextEnds(s) \/ StreamBreaks(s) \/ LoopFails(s)
    BY <1>2, <1>5, Ticked, TextEnded, Upset DEF Resting
  <1>6. CASE QueryBegins(s) \/ QueryEnds(s)
    <2>1. CASE QueryBegins(s)
      <3>1. Logs(s, QueryStartLine(s)) /\ QueryStartLine(s).ev = "query.start"
        BY <2>1, QueryBegun
      <3>2. QED
        BY <1>3, <1>4, <3>1
    <2>2. CASE QueryEnds(s)
      <3>1. Logs(s, QueryEndLine(s)) /\ QueryEndLine(s).ev = "query.end"
        BY <2>2, QueryEnded
      <3>2. QED
        BY <1>3, <1>4, <3>1
    <2>3. QED
      BY <1>6, <2>1, <2>2
  <1>7. CASE TurnBegins(s)
    <2>1. \E k : Logs(s, TurnStartLine(s, k)) /\ TurnStartLine(s, k).ev = "turn.start"
      BY <1>7, TurnBegun
    <2>2. QED
      BY <1>3, <1>4, <2>1
  <1>8. CASE StepBegins(s) \/ CompactionBegins(s) \/ StreamFinishes(s)
    <2>1. \E line : Logs(s, line) /\ line.ev \notin {"turn.end", "llm.end"}
      <3>1. CASE StepBegins(s) \/ CompactionBegins(s)
        <4> DEFINE line == [ev |-> "llm.start", ts |-> now, step |-> step[s]]
        <4>1. Logs(s, line) /\ line.ev = "llm.start"
          BY <3>1, StepBegun
        <4>2. QED
          BY <4>1
      <3>2. CASE StreamFinishes(s)
        <4> DEFINE line == [ev |-> "llm.stream-finish", ts |-> now, step |-> step[s]]
        <4>1. Logs(s, line) /\ line.ev = "llm.stream-finish"
          BY <3>2, StreamFinished
        <4>2. QED
          BY <4>1
      <3>3. QED
        BY <1>8, <3>1, <3>2
    <2>2. QED
      BY <1>3, <1>4, <2>1
  <1>9. CASE StepEnds(s) \/ CompactionEnds(s)
    <2>1. Logs(s, LlmEndLine(s)) /\ LlmEndLine(s).ev = "llm.end" /\ state[s].step \in Steps
          /\ state[s] \in HookState
      BY <1>9, StepEnded
    <2>2. LlmEndLine(s).postStream \in Nat \cup {None}
      <3> DEFINE m == state[s].streamFinish[state[s].step]
      <3>1. now \in Int /\ m \in Int
        BY <2>1, Fields, Marks DEF LoopInv, LoopTyped
      <3>2. Larger(0, now - m) \in Nat
        BY <3>1 DEF Larger
      <3>3. QED
        BY <3>2 DEF LlmEndLine
    <2>3. QED
      BY <1>3, <2>1, <2>2 DEF Written
  <1>10. CASE TurnEnds(s)
    <2>1. PICK k : k = step[s]
      OBVIOUS
    <2> DEFINE line == TurnEndLine(s, k)
    <2>2. /\ Logs(s, line) /\ line.ev = "turn.end"
          /\ line.post = Post(line.duration, line.llm, line.tool)
      BY <1>10, <2>1, TurnEnded
    <2> HIDE DEF line
    <2>3. QED
      BY <1>3, <2>2 DEF Written
  <1>11. CASE \E c \in Call : ToolBegins(s, c)
    <2>1. \E c \in Call : Logs(s, ToolStartLine(s, c))
      BY <1>11, ToolBegun
    <2>2. \A c \in Call : ToolStartLine(s, c).ev = "tool.start"
      BY DEF ToolStartLine
    <2>3. QED
      BY <1>3, <1>4, <2>1, <2>2
  <1>12. CASE \E c \in Call, ok \in BOOLEAN : ToolEnds(s, c, ok)
    <2>1. \E c \in Call, ok \in BOOLEAN :
            Logs(s, ToolEndLine(s, c, ok)) /\ ToolEndLine(s, c, ok).ev = "tool.end"
      BY <1>12, ToolEnded
    <2>2. QED
      BY <1>3, <1>4, <2>1
  <1>13. QED
    BY <1>1, <1>5, <1>6, <1>7, <1>8, <1>9, <1>10, <1>11, <1>12 DEF Moved

LEMMA WrittenInvariant == Spec => []WrittenInv
  <1>1. Init => WrittenInv
    BY DEF Init, WrittenInv
  <1>2. LoopInv /\ WrittenInv /\ [Next]_vars => WrittenInv'
    <2>1. SUFFICES ASSUME LoopInv, WrittenInv, [Next]_vars, NEW s \in Session,
                          NEW i \in DOMAIN log'[s]
                   PROVE  Written(log'[s][i])
      BY DEF WrittenInv, Written
    <2>2. QED
      BY <2>1, WrittenKeeps
  <1>3. QED
    BY <1>1, <1>2, LoopInvariant, PTL DEF Spec

LEMMA CardUnion ==
  ASSUME NEW A, IsFiniteSet(A), NEW B, IsFiniteSet(B), A \cap B = {}
  PROVE  /\ Cardinality(A) \in Nat /\ Cardinality(B) \in Nat
         /\ IsFiniteSet(A \cup B) /\ Cardinality(A \cup B) = Cardinality(A) + Cardinality(B)
  <1>1. Cardinality(A) \in Nat /\ Cardinality(B) \in Nat
    BY FS_CardinalityType
  <1>2. /\ IsFiniteSet(A \cup B)
        /\ Cardinality(A \cup B) = Cardinality(A) + Cardinality(B) - Cardinality(A \cap B)
    BY FS_Union
  <1>3. Cardinality(A \cap B) = 0
    BY FS_EmptySet
  <1>4. QED
    BY <1>1, <1>2, <1>3

\* The ticks of calls, call by call; their durations add up to them.
TicksOf(s, E) == {r \in E \X Moment : During(log[s][r[1]], r[2])}

LEMMA CallTicked ==
  ASSUME LoopInv, NEW s \in Session, CallLines(s), NEW i \in Lines(s, "tool.end")
  PROVE  /\ log[s][i].duration \in Nat
         /\ IsFiniteSet(TicksOf(s, {i})) /\ Cardinality(TicksOf(s, {i})) = log[s][i].duration
  <1> DEFINE from == log[s][i].ts - log[s][i].duration
             to == log[s][i].ts
             f == [r \in TicksOf(s, {i}) |-> r[2]]
  <1>1. log[s][i] \in ToolEndLines
    BY MeasuredLines
  <1>2. /\ log[s][i].ts \in Nat /\ log[s][i].ts <= MaxTime /\ log[s][i].duration \in Nat
        /\ from \in Nat /\ from <= to
    <2>1. log[s][i].ts \in Duration /\ log[s][i].duration \in Duration
      BY <1>1 DEF ToolEndLines
    <2>2. from >= 0
      BY DEF CallLines
    <2>3. QED
      BY <2>1, <2>2, Numbers DEF Duration
  <1>3. \A m : m \in Moment /\ During(log[s][i], m) <=> m \in from .. (to - 1)
    BY <1>2, Numbers DEF During, Moment
  <1> HIDE DEF from, to
  <1>4. /\ IsFiniteSet(from .. (to - 1)) /\ Cardinality(from .. (to - 1)) = log[s][i].duration
    <2>1. from \in Int /\ to - 1 \in Int
      BY <1>2 DEF to
    <2>2. /\ IsFiniteSet(from .. (to - 1))
          /\ Cardinality(from .. (to - 1)) = IF from > to - 1 THEN 0 ELSE (to - 1) - from + 1
      BY <2>1, FS_Interval
    <2>3. (IF from > to - 1 THEN 0 ELSE (to - 1) - from + 1) = log[s][i].duration
      BY <1>2 DEF from, to
    <2>4. QED
      BY <2>2, <2>3
  <1>5. TicksOf(s, {i}) = {i} \X (from .. (to - 1))
    BY <1>3 DEF TicksOf
  <1>6. IsFiniteSet({i}) /\ Cardinality({i}) = 1
    BY FS_Singleton
  <1>7. /\ IsFiniteSet({i} \X (from .. (to - 1)))
        /\ Cardinality({i} \X (from .. (to - 1))) =
             Cardinality({i}) * Cardinality(from .. (to - 1))
    BY <1>4, <1>6, FS_Product
  <1> DEFINE n == Cardinality(from .. (to - 1))
  <1>8. n \in Nat /\ 1 * n = n
    BY <1>2, <1>4
  <1> HIDE DEF n
  <1>9. Cardinality(TicksOf(s, {i})) = n
    BY <1>5, <1>6, <1>7, <1>8 DEF n
  <1>10. QED
    BY <1>2, <1>4, <1>5, <1>7, <1>9 DEF n

LEMMA SummedCalls ==
  ASSUME LoopInv, NEW s \in Session, CallLines(s), NEW E \in SUBSET Lines(s, "tool.end")
  PROVE  LET calls == {log[s][i] : i \in E} IN
         /\ IsFiniteSet(E) /\ IsFiniteSet(calls) /\ IsFiniteSet(TicksOf(s, E))
         /\ \A e \in calls : e.duration \in Nat
         /\ Summed(calls) = Cardinality(TicksOf(s, E))
  <1> DEFINE calls(T) == {log[s][i] : i \in T}
             dur == [e \in calls(E) |-> e.duration]
             F == {T \in SUBSET E :
                     /\ IsFiniteSet(calls(T)) /\ IsFiniteSet(TicksOf(s, T))
                     /\ SumOver(calls(T), dur) = Cardinality(TicksOf(s, T))}
  <1>1. IsFiniteSet(E)
    <2>1. DOMAIN log[s] = 1..Len(log[s]) /\ Len(log[s]) \in Int /\ 1 \in Int
      BY DEF LoopInv, DataTyped
    <2>2. IsFiniteSet(DOMAIN log[s])
      BY <2>1, FS_Interval
    <2>3. E \subseteq DOMAIN log[s]
      BY EventsIn
    <2>4. QED
      BY <2>2, <2>3, FS_Subset
  <1>3. \A e \in calls(E) : e.duration \in Nat
    BY CallTicked
  <1>4. {} \in F
    <2>1. TicksOf(s, {}) = {} /\ calls({}) = {}
      BY DEF TicksOf
    <2>2. SumOver({}, dur) = 0 /\ Cardinality({}) = 0 /\ IsFiniteSet({})
      BY SumEmpty, FS_EmptySet
    <2> HIDE DEF calls, dur
    <2>3. QED
      BY <2>1, <2>2
  <1>5. ASSUME NEW T \in SUBSET E, NEW x \in E, T \in F, x \notin T
        PROVE  T \cup {x} \in F
    <2>1. calls(T \cup {x}) = calls(T) \cup {log[s][x]}
      OBVIOUS
    <2>2. log[s][x] \notin calls(T)
      BY <1>5 DEF CallLines
    <2>3. \A e \in calls(T) \cup {log[s][x]} : dur[e] \in Int
      BY <1>3
    <2>4. /\ IsFiniteSet(calls(T) \cup {log[s][x]})
          /\ SumOver(calls(T) \cup {log[s][x]}, dur) = SumOver(calls(T), dur) + dur[log[s][x]]
      <3>1. IsFiniteSet(calls(T))
        BY <1>5
      <3> DEFINE C == calls(T)
                 y == log[s][x]
      <3> HIDE DEF calls, dur
      <3>2. IsFiniteSet(C) /\ y \notin C /\ \A e \in C \cup {y} : dur[e] \in Int
        BY <2>2, <2>3, <3>1
      <3> HIDE DEF C, y
      <3>3. SumOver(C \cup {y}, dur) = SumOver(C, dur) + dur[y]
        BY <3>2, SumAdd
      <3>4. IsFiniteSet(C \cup {y})
        BY <3>2, FS_AddElement
      <3>5. QED
        BY <3>3, <3>4 DEF C, y
    <2>5. dur[log[s][x]] = log[s][x].duration
      OBVIOUS
    <2>6. /\ log[s][x].duration \in Nat /\ IsFiniteSet(TicksOf(s, {x}))
          /\ Cardinality(TicksOf(s, {x})) = log[s][x].duration
      BY CallTicked
    <2>7. TicksOf(s, T \cup {x}) = TicksOf(s, T) \cup TicksOf(s, {x})
      BY DEF TicksOf
    <2>8. TicksOf(s, T) \cap TicksOf(s, {x}) = {}
      BY <1>5 DEF TicksOf
    <2>9. /\ IsFiniteSet(TicksOf(s, T) \cup TicksOf(s, {x}))
          /\ Cardinality(TicksOf(s, T) \cup TicksOf(s, {x})) =
               Cardinality(TicksOf(s, T)) + Cardinality(TicksOf(s, {x}))
      <3>1. IsFiniteSet(TicksOf(s, T))
        BY <1>5
      <3>2. QED
        BY <2>6, <2>8, <3>1, CardUnion
    <2>10. SumOver(calls(T), dur) = Cardinality(TicksOf(s, T))
      BY <1>5
    <2> HIDE DEF calls, dur
    <2>11. QED
      BY <2>1, <2>4, <2>5, <2>6, <2>7, <2>9, <2>10
  <1>6. E \in F
    <2> HIDE DEF F
    <2>1. QED
      BY <1>1, <1>4, <1>5, SetInduction
  <1>7. Summed(calls(E)) = SumOver(calls(E), dur)
    BY DEF Summed
  <1>8. QED
    BY <1>1, <1>3, <1>6, <1>7

\* A session asked once was asked one query.
LEMMA OneAsked ==
  ASSUME LoopInv, NEW s \in Session, Once(s)
  PROVE  OneQuery(s)
  <1>1. Len(log[s]) \in Int /\ 1 \in Int /\ DOMAIN log[s] = 1..Len(log[s])
    BY DEF LoopInv, DataTyped
  <1>2. IsFiniteSet(1..Len(log[s])) /\ Lines(s, "query.start") \subseteq 1..Len(log[s])
    BY <1>1, FS_Interval DEF Lines
  <1>3. IsFiniteSet(Lines(s, "query.start"))
    BY <1>2, FS_Subset
  <1>4. \E x : Lines(s, "query.start") = {x}
    BY <1>3, FS_Singleton DEF Once
  <1>5. QED
    BY <1>4 DEF OneQuery

\* The last of some lines.
LEMMA LastLine ==
  ASSUME LoopInv, NEW s \in Session, NEW lines, lines \subseteq DOMAIN log[s], lines # {}
  PROVE  Max(lines) \in lines /\ \A i \in lines : i <= Max(lines)
  <1>1. lines \subseteq 0..Len(log[s]) /\ Len(log[s]) \in Nat
    BY DEF LoopInv, DataTyped
  <1>2. QED
    BY <1>1, MaxIsGreatest

\* What a turn says of its end and of its response.
LEMMA TurnEndFields ==
  ASSUME LoopInv, NEW s \in Session, NEW k
  PROVE  LET t == Turn(s, k)
             ends == Events(s, "turn.end", k)
         IN
         /\ ends = {} => t.duration = None
         /\ ends # {} => \E e \in ends :
              /\ log[s][e] \in TurnEndLines /\ t.duration = log[s][e].duration
              /\ t.llm = log[s][e].llm /\ t.tool = log[s][e].tool /\ t.post = log[s][e].post
  <1> DEFINE t == Turn(s, k)
             ends == Events(s, "turn.end", k)
  <1>1. /\ t.duration = LastOf(s, ends, LAMBDA e : e.duration)
        /\ t.llm = LastOf(s, ends, LAMBDA e : e.llm)
        /\ t.tool = LastOf(s, ends, LAMBDA e : e.tool)
        /\ t.post = LastOf(s, ends, LAMBDA e : e.post)
    BY DEF Turn
  <1> HIDE DEF t
  <1>2. ends = {} => t.duration = None
    BY <1>1 DEF LastOf
  <1>3. ASSUME ends # {}
        PROVE  \E e \in ends :
                 /\ log[s][e] \in TurnEndLines /\ t.duration = log[s][e].duration
                 /\ t.llm = log[s][e].llm /\ t.tool = log[s][e].tool /\ t.post = log[s][e].post
    <2>1. Max(ends) \in ends /\ Max(ends) \in Lines(s, "turn.end")
      BY <1>3, LastLine, EventsIn
    <2>2. log[s][Max(ends)] \in TurnEndLines
      BY <2>1, MeasuredLines
    <2>3. QED
      BY <1>1, <1>3, <2>1, <2>2 DEF LastOf
  <1>4. QED
    BY <1>2, <1>3 DEF t

LEMMA LlmEndFields ==
  ASSUME LoopInv, NEW s \in Session, NEW k
  PROVE  LET t == Turn(s, k)
             llms == Events(s, "llm.end", k)
         IN
         /\ llms = {} => t.llmEnd = None /\ t.stream = None /\ t.explained = None
         /\ llms # {} => \E l \in llms :
              /\ t.llmEnd = log[s][l].ts /\ log[s][l].ts \in Nat
              /\ t.stream = log[s][l].duration /\ log[s][l].duration \in Int
              /\ t.explained = log[s][l].postStream /\ l \in DOMAIN log[s]
              /\ log[s][l].ev = "llm.end"
  <1> DEFINE t == Turn(s, k)
             llms == Events(s, "llm.end", k)
  <1>1. /\ t.llmEnd = LastOf(s, llms, Ts)
        /\ t.stream = LastOf(s, llms, LAMBDA e : e.duration)
        /\ t.explained = LastOf(s, llms, LAMBDA e : e.postStream)
    BY DEF Turn
  <1> HIDE DEF t
  <1>2. llms = {} => t.llmEnd = None /\ t.stream = None /\ t.explained = None
    BY <1>1 DEF LastOf
  <1>3. ASSUME llms # {}
        PROVE  \E l \in llms :
                 /\ t.llmEnd = log[s][l].ts /\ log[s][l].ts \in Nat
                 /\ t.stream = log[s][l].duration /\ log[s][l].duration \in Int
                 /\ t.explained = log[s][l].postStream /\ l \in DOMAIN log[s]
                 /\ log[s][l].ev = "llm.end"
    <2> DEFINE l == Max(llms)
    <2>1. l \in llms /\ l \in Lines(s, "llm.end") /\ l \in DOMAIN log[s]
      BY <1>3, LastLine, EventsIn
    <2>2. log[s][l] \in Line /\ log[s][l].ev = "llm.end" /\ log[s][l].ts \in Nat
      BY <2>1, MeasuredLines, Marks
    <2>3. log[s][l].duration \in Int
      BY <2>2 DEF Line, QueryStartLines, QueryEndLines, MarkLines, TurnEndLines, LlmEndLines,
         ToolStartLines, ToolEndLines
    <2>4. /\ t.llmEnd = log[s][l].ts /\ t.stream = log[s][l].duration
          /\ t.explained = log[s][l].postStream
      BY <1>1, <1>3 DEF LastOf, Ts
    <2> HIDE DEF l
    <2>5. QED
      BY <2>1, <2>2, <2>3, <2>4
  <1>4. QED
    BY <1>2, <1>3 DEF t

LEMMA TurnStartField ==
  ASSUME LoopInv, NEW s \in Session, NEW k
  PROVE  LET t == Turn(s, k)
             starts == Events(s, "turn.start", k)
         IN
         /\ starts = {} => t.start = None
         /\ starts # {} => \E b \in starts : t.start = log[s][b].ts /\ log[s][b].ts \in Nat
  <1> DEFINE t == Turn(s, k)
             starts == Events(s, "turn.start", k)
  <1>1. t.start = LastOf(s, starts, Ts)
    BY DEF Turn
  <1> HIDE DEF t
  <1>2. ASSUME starts # {}
        PROVE  \E b \in starts : t.start = log[s][b].ts /\ log[s][b].ts \in Nat
    <2>1. Max(starts) \in starts /\ Max(starts) \in Lines(s, "turn.start")
      BY <1>2, LastLine, EventsIn
    <2>2. log[s][Max(starts)].ts \in Nat
      BY <2>1, MeasuredLines, Marks
    <2>3. QED
      BY <1>1, <1>2, <2>1, <2>2 DEF LastOf, Ts
  <1>3. QED
    BY <1>1, <1>2 DEF LastOf, t

\* The numbers of a turn that ended.
LEMMA TurnNumbers ==
  ASSUME LoopInv, TurnedInv, TimedInv, WrittenInv, NEW s \in Session, NEW k \in Steps,
         Clean(s), Turn(s, k).duration # None
  PROVE  LET t == Turn(s, k)
             anchored == LlmTrue(t)
         IN
         /\ t.duration \in Nat /\ t.llm \in Int /\ t.tool \in Nat
         /\ t.tool = Cardinality(Pairs(s, k))
         /\ t.post = Larger(0, t.duration - t.llm - t.tool)
         /\ anchored \in Nat \cup {None}
         /\ Apart(t) => /\ t.llm + t.tool <= t.duration
                        /\ anchored # None => anchored + t.tool <= t.duration
         /\ t.stream # None => t.llm = t.stream
         /\ t.explained \in Nat \cup {None}
  <1> DEFINE t == Turn(s, k)
             anchored == LlmTrue(t)
             ends == Events(s, "turn.end", k)
             starts == Events(s, "turn.start", k)
             llms == Events(s, "llm.end", k)
             pairs == Cardinality(Pairs(s, k))
             busy == Cardinality(Busy(s, k))
             model == spent[s][k].model
  <1>1. CallLines(s) /\ Over(s, k) /\ Split(s, k)
    BY DEF TurnedInv, Turned, Anchored, TimedInv, Timed
  <1>2. ends # {}
    BY TurnEndFields
  <1>3. PICK e \in ends :
          /\ log[s][e] \in TurnEndLines /\ t.duration = log[s][e].duration
          /\ t.llm = log[s][e].llm /\ t.tool = log[s][e].tool /\ t.post = log[s][e].post
    BY <1>2, TurnEndFields
  <1>4. /\ pairs \in Nat /\ busy \in Nat /\ busy <= pairs /\ model \in Nat
        /\ Apart(t) => busy = pairs
    <2>1. t.tools = ToolLines(s, k)
      BY DEF Turn
    <2>2. Apart(t) => \A a, b \in ToolLines(s, k) :
                        a # b => a.ts <= b.ts - b.duration \/ b.ts <= a.ts - a.duration
      BY <2>1 DEF Apart
    <2>3. model \in Nat
      BY DEF LoopInv, DataTyped, Tally
    <2>4. QED
      BY <1>1, <2>2, <2>3, FiniteEvents, Overlaps
  <1>5. t.duration \in Nat /\ t.llm \in Int /\ t.tool = pairs /\ log[s][e].ts \in Nat
    BY <1>1, <1>3, Numbers, Marks DEF Over, TurnEndLines, Duration
  <1>6. t.post = Larger(0, t.duration - t.llm - t.tool)
    <2>1. e \in DOMAIN log[s] /\ log[s][e].ev = "turn.end"
      BY EventsIn DEF TurnEndLines, Events, Lines
    <2>2. QED
      BY <1>3, <2>1 DEF WrittenInv, Written, Post
  <1>7. t.llm + busy <= t.duration
    BY <1>1, <1>3 DEF Split
  <1>8. /\ starts = {} => t.start = None
        /\ starts # {} => \E b \in starts : t.start = log[s][b].ts /\ log[s][b].ts \in Nat
    BY TurnStartField
  <1>9. /\ llms = {} => t.llmEnd = None /\ t.stream = None /\ t.explained = None
        /\ llms # {} => \E l \in llms :
             /\ t.llmEnd = log[s][l].ts /\ log[s][l].ts \in Nat
             /\ t.stream = log[s][l].duration /\ log[s][l].duration \in Int
             /\ t.explained = log[s][l].postStream /\ l \in DOMAIN log[s]
             /\ log[s][l].ev = "llm.end"
    BY LlmEndFields
  <1>10. /\ anchored \in Nat \cup {None}
         /\ anchored # None /\ busy = pairs => anchored + t.tool <= t.duration
    <2>1. CASE t.start = None \/ t.llmEnd = None
      BY <2>1 DEF LlmTrue
    <2>2. CASE t.start # None /\ t.llmEnd # None
      <3>1. PICK b \in starts : t.start = log[s][b].ts /\ log[s][b].ts \in Nat
        BY <1>8, <2>2
      <3>2. PICK l \in llms : t.llmEnd = log[s][l].ts /\ log[s][l].ts \in Nat
        BY <1>9, <2>2
      <3>3. /\ log[s][l].ts - log[s][b].ts = model + busy
            /\ log[s][e].duration = log[s][e].ts - log[s][b].ts
            /\ log[s][l].ts <= log[s][e].ts
        BY <1>1 DEF Over, Split
      <3>4. anchored = Larger(0, t.llmEnd - t.start - t.tool)
        BY <2>2 DEF LlmTrue
      <3> DEFINE le == log[s][l].ts
                 b0 == log[s][b].ts
                 ee == log[s][e].ts
                 dur == t.duration
      <3>5. /\ anchored = Larger(0, le - b0 - pairs) /\ le - b0 = model + busy
            /\ dur = ee - b0 /\ le <= ee /\ le \in Nat /\ b0 \in Nat /\ ee \in Nat
            /\ t.tool = pairs
        BY <1>3, <1>5, <3>1, <3>2, <3>3, <3>4
      <3> HIDE DEF le, b0, ee, dur, anchored, t, pairs, busy, model
      <3>6. anchored \in Nat /\ (busy = pairs => anchored + t.tool <= dur)
        BY <1>4, <3>5 DEF Larger
      <3>7. QED
        BY <3>6 DEF dur
    <2>3. QED
      BY <2>1, <2>2
  <1>11. t.stream # None => t.llm = t.stream
    <2>1. CASE llms = {}
      BY <1>9, <2>1
    <2>2. CASE llms # {}
      <3>1. PICK l \in llms : t.stream = log[s][l].duration
        BY <1>9, <2>2
      <3>2. log[s][e].llm = Known(log[s][l].duration, 0)
        BY <1>1 DEF Split
      <3>3. QED
        BY <1>3, <3>1, <3>2 DEF Known
    <2>3. QED
      BY <2>1, <2>2
  <1>12. t.explained \in Nat \cup {None}
    BY <1>9 DEF WrittenInv, Written
  <1> HIDE DEF t, anchored, pairs, busy
  <1>13. Apart(t) => t.llm + t.tool <= t.duration
    BY <1>4, <1>5, <1>7
  <1>14. QED
    BY <1>4, <1>5, <1>6, <1>10, <1>11, <1>12, <1>13 DEF t, anchored, pairs

\* What the calls of one name took, of what they all took.
LEMMA PartOfSum ==
  ASSUME NEW calls, IsFiniteSet(calls), \A e \in calls : e.duration \in Nat,
         NEW some \in SUBSET calls
  PROVE  /\ Summed(some) \in Nat /\ Summed(calls) \in Nat
         /\ Summed(some) <= Summed(calls)
  <1> DEFINE f == [e \in calls |-> e.duration]
             g == [e \in some |-> e.duration]
  <1>1. IsFiniteSet(some)
    BY FS_Subset
  <1>2. /\ \A e \in calls : f[e] \in Nat
        /\ \A e \in some : f[e] \in Nat /\ f[e] \in Int /\ g[e] \in Int /\ g[e] = f[e]
    OBVIOUS
  <1>3. Summed(some) = SumOver(some, g) /\ Summed(calls) = SumOver(calls, f)
    BY DEF Summed
  <1> HIDE DEF f, g
  <1>4. SumOver(some, g) = SumOver(some, f)
    BY <1>1, <1>2, SumSame
  <1>5. SumOver(some, f) \in Nat /\ SumOver(calls, f) \in Nat
    BY <1>1, <1>2, SumNat
  <1>6. SumOver(some, f) <= SumOver(calls, f)
    BY <1>2, SumPart
  <1>7. QED
    BY <1>3, <1>4, <1>5, <1>6

LEMMA TurnAddsUp ==
  ASSUME LoopInv, TurnedInv, TimedInv, WrittenInv, NEW s \in Session, NEW k \in Steps,
         Clean(s), Turn(s, k).duration # None
  PROVE  LET t == Turn(s, k) IN
         /\ t.llm + t.tool + t.post >= t.duration
         /\ Llm(t) + t.tool + Others(t) >= t.duration
         /\ Unexplained(t) <= t.post
         /\ Summed(t.tools) = t.tool
         /\ t.tools # {} => TimeOf(t, Dominant(t)) <= t.tool
         /\ Apart(t) => /\ t.llm + t.tool + t.post = t.duration
                        /\ Llm(t) + t.tool + Others(t) = t.duration
  <1> DEFINE t == Turn(s, k)
             anchored == LlmTrue(t)
             E == Events(s, "tool.end", k)
  <1>1. /\ t.duration \in Nat /\ t.llm \in Int /\ t.tool \in Nat
        /\ t.tool = Cardinality(Pairs(s, k))
        /\ t.post = Larger(0, t.duration - t.llm - t.tool)
        /\ anchored \in Nat \cup {None}
        /\ Apart(t) => /\ t.llm + t.tool <= t.duration
                       /\ anchored # None => anchored + t.tool <= t.duration
        /\ t.explained \in Nat \cup {None}
    BY TurnNumbers
  <1>2. /\ t.tools = {log[s][i] : i \in E} /\ E \in SUBSET Lines(s, "tool.end")
    BY EventsIn DEF Turn, ToolLines
  <1>3. CallLines(s)
    BY DEF TurnedInv, Turned
  <1>4. /\ IsFiniteSet(t.tools) /\ \A e \in t.tools : e.duration \in Nat
        /\ Summed(t.tools) = t.tool
    <2>1. TicksOf(s, E) = Pairs(s, k)
      BY DEF TicksOf, Pairs
    <2>2. LET calls == {log[s][i] : i \in E} IN
          /\ IsFiniteSet(calls) /\ \A e \in calls : e.duration \in Nat
          /\ Summed(calls) = Cardinality(TicksOf(s, E))
      BY <1>2, <1>3, SummedCalls
    <2>3. QED
      BY <1>1, <1>2, <2>1, <2>2
  <1>5. TimeOf(t, Dominant(t)) <= t.tool
    <2> DEFINE some == {e \in t.tools : e.name = Dominant(t)}
    <2>1. some \in SUBSET t.tools /\ TimeOf(t, Dominant(t)) = Summed(some)
      BY DEF TimeOf
    <2> HIDE DEF some, t
    <2>2. QED
      BY <1>4, <2>1, PartOfSum
  <1>6. OthersTrue(t) = IF anchored = None THEN None
                        ELSE Larger(0, t.duration - anchored - t.tool)
    BY DEF OthersTrue
  <1>7. Llm(t) = Known(anchored, t.llm) /\ Others(t) = Known(OthersTrue(t), t.post)
    BY DEF Llm, Others
  <1>8. Unexplained(t) = IF t.explained = None THEN t.post
                         ELSE Larger(0, t.post - t.explained)
    BY DEF Unexplained
  <1> HIDE DEF t, anchored
  <1> DEFINE dur == t.duration
             llm == t.llm
             tool == t.tool
             post == t.post
             others == OthersTrue(t)
  <1>9. /\ post \in Nat /\ llm + tool + post >= dur
        /\ Known(anchored, llm) + tool + Known(others, post) >= dur
        /\ llm + tool <= dur => llm + tool + post = dur
        /\ llm + tool <= dur /\ (anchored # None => anchored + tool <= dur) =>
             Known(anchored, llm) + tool + Known(others, post) = dur
    <2>1. /\ dur \in Nat /\ llm \in Int /\ tool \in Nat /\ anchored \in Nat \cup {None}
          /\ post = Larger(0, dur - llm - tool)
          /\ others = IF anchored = None THEN None ELSE Larger(0, dur - anchored - tool)
      BY <1>1, <1>6
    <2> HIDE DEF dur, llm, tool, post, others
    <2>2. /\ post \in Nat /\ llm + tool + post >= dur
          /\ llm + tool <= dur => llm + tool + post = dur
      BY <2>1 DEF Larger
    <2>3. CASE anchored = None
      BY <2>1, <2>2, <2>3 DEF Known
    <2>4. CASE anchored # None
      <3>1. anchored \in Nat /\ Known(anchored, llm) = anchored
        BY <2>1, <2>4 DEF Known
      <3>2. /\ others \in Nat /\ anchored + tool + others >= dur
            /\ anchored + tool <= dur => anchored + tool + others = dur
        BY <2>1, <2>4, <3>1 DEF Larger
      <3>3. Known(others, post) = others
        BY <3>2 DEF Known, None
      <3>4. QED
        BY <2>2, <2>4, <3>1, <3>2, <3>3
    <2>5. QED
      BY <2>3, <2>4
  <1>10. Unexplained(t) <= t.post
    BY <1>1, <1>8, <1>9 DEF Larger
  <1>11. QED
    BY <1>1, <1>4, <1>5, <1>7, <1>9, <1>10 DEF t

LEMMA TurnsAddUp ==
  ASSUME LoopInv, TurnedInv, TimedInv, WrittenInv
  PROVE  SharesAddUp
  <1>1. PostRows(None, {}) = Decomposed({})
    <2>1. ASSUME NEW s \in Session, NEW k \in Steps
          PROVE  LET t == Turn(s, k) IN t.duration > None /\ t.post # None <=> t.duration # None
      <3> DEFINE t == Turn(s, k)
      <3>1. CASE Events(s, "turn.end", k) = {}
        <4>1. t.duration = None
          BY <3>1, TurnEndFields
        <4>2. QED
          BY <4>1 DEF None
      <3>2. CASE Events(s, "turn.end", k) # {}
        <4>1. PICK e \in Events(s, "turn.end", k) :
                log[s][e] \in TurnEndLines /\ t.duration = log[s][e].duration /\ t.post = log[s][e].post
          BY <3>2, TurnEndFields
        <4>2. t.duration \in Nat /\ t.post \in Nat
          BY <4>1, Numbers DEF TurnEndLines, Duration
        <4> HIDE DEF t
        <4>3. t.duration > None /\ t.post # None /\ t.duration # None
          BY <4>2 DEF None
        <4>4. QED
          BY <4>3 DEF t
      <3>3. QED
        BY <3>1, <3>2
    <2>2. QED
      BY <2>1 DEF PostRows, Decomposed
  <1>2. ASSUME NEW r \in Decomposed({}), Once(r[1]), ~Compacted(r[1])
        PROVE  LET t == Turn(r[1], r[2]) IN
               /\ t.llm + t.tool + t.post >= t.duration
               /\ Llm(t) + t.tool + Others(t) >= t.duration
               /\ Unexplained(t) <= t.post
               /\ Summed(t.tools) = t.tool
               /\ t.tools # {} => TimeOf(t, Dominant(t)) <= t.tool
               /\ r \in RatioTurns({}) <=> r \in ToolRatioTurns
               /\ Apart(t) => /\ t.llm + t.tool + t.post = t.duration
                              /\ Llm(t) + t.tool + Others(t) = t.duration
    <2> DEFINE s == r[1]
               k == r[2]
               t == Turn(s, k)
    <2>1. s \in Session /\ k \in Steps /\ t.duration # None /\ k \in TurnSteps(s)
      BY DEF Decomposed
    <2>2. Clean(s)
      BY <1>2, <2>1, OneAsked DEF Clean
    <2>3. r \in RatioTurns({}) <=> r \in ToolRatioTurns
      <3>1. t.stream # None => t.llm = t.stream
        BY <2>1, <2>2, TurnNumbers
      <3>2. r \in Session \X Steps
        BY DEF Decomposed
      <3>3. r \in RatioTurns({}) <=> t.llm > 0
        BY <2>1, <3>2 DEF RatioTurns, HasExcluded
      <3>4. r \in ToolRatioTurns <=> (IF t.stream \notin {None, 0} THEN t.stream ELSE t.llm) > 0
        BY <2>1, <3>2 DEF ToolRatioTurns
      <3>5. QED
        BY <3>1, <3>3, <3>4
    <2>4. QED
      BY <2>1, <2>2, <2>3, TurnAddsUp
  <1>3. QED
    BY <1>1, <1>2 DEF SharesAddUp

\* The shares that the reports make of a turn's duration add up to it when its tools took
\* turns, and never to less: analyze_profiles.py's model, tool and other time, in the
\* profiler's split and in the anchored one, the share of the tool that took most, and
\* what is left unexplained after the stream.
THEOREM SharesOfTurnsAddUp == Spec => []SharesAddUp
  <1>1. LoopInv /\ TurnedInv /\ TimedInv /\ WrittenInv => SharesAddUp
    BY TurnsAddUp
  <1>2. QED
    BY <1>1, LoopInvariant, TurnedInvariant, TimedInvariant, WrittenInvariant, PTL

-------------------------------------------------------------------------------
(* The time a turn was blocked *)

\* The ticks of a step's calls among C that ended, and with those under way.
Ordinary == Call \ Tasked
Covered(s, k, C) ==
  {m \in Moment : \E i \in Events(s, "tool.end", k) :
     log[s][i].call \in C /\ During(log[s][i], m)}
CoveredNow(s, k, C) ==
  Covered(s, k, C) \cup
    {m \in Moment : m < now /\ \E c \in running[s] \cap C : state[s].toolStart[c].ms <= m}

\* The turn the loop is in was blocked for as long, by calls that it made,
Blocked(s, k) ==
  /\ Events(s, "turn.end", k) = {}
  /\ spent[s][k].tools = Cardinality(CoveredNow(s, k, Ordinary))
  /\ spent[s][k].task = Cardinality(CoveredNow(s, k, Tasked))
  /\ \A i \in Events(s, "tool.end", k) :
       state[s].turnStart[k] <= log[s][i].ts - log[s][i].duration
  /\ \A c \in running[s] : state[s].turnStart[k] <= state[s].toolStart[c].ms

\* and so was a turn that ended, in which its calls were over.
Within(s, e, i, from) ==
  /\ log[s][e].duration = log[s][e].ts - from /\ from <= log[s][i].ts - log[s][i].duration
  /\ log[s][i].ts <= log[s][e].ts
Unblocked(s, k) ==
  Events(s, "turn.end", k) # {} =>
    /\ spent[s][k].tools = Cardinality(Covered(s, k, Ordinary))
    /\ spent[s][k].task = Cardinality(Covered(s, k, Tasked))
    /\ \A e \in Events(s, "turn.end", k) : \E from \in Nat :
         \A i \in Events(s, "tool.end", k) : Within(s, e, i, from)

Waited(s) ==
  /\ \A k \in Steps : k > step[s] => Events(s, "turn.end", k) = {} /\ Events(s, "tool.end", k) = {}
  /\ InTurn(s) => Blocked(s, step[s])
  /\ \A k \in Steps : Unblocked(s, k)
WaitedInv == \A s \in Session : OneQuery(s) => Waited(s)

LEMMA CoveredKept ==
  ASSUME NEW s \in Session, NEW k, NEW C, Grows(s),
         Events(s, "tool.end", k)' = Events(s, "tool.end", k)
  PROVE  Covered(s, k, C)' = Covered(s, k, C)
  <1>1. \A i \in Events(s, "tool.end", k) : log'[s][i] = log[s][i]
    BY EventsIn DEF Grows
  <1>2. Covered(s, k, C)' =
          {m \in Moment : \E i \in Events(s, "tool.end", k) :
             log'[s][i].call \in C /\ During(log'[s][i], m)}
    BY DEF Covered, Moment, During
  <1>3. QED
    BY <1>1, <1>2 DEF Covered

LEMMA UnblockedKept ==
  ASSUME NEW s \in Session, NEW k \in Steps, Unblocked(s, k), Grows(s),
         \/ Events(s, "turn.end", k)' = {}
         \/ /\ Events(s, "turn.end", k)' = Events(s, "turn.end", k)
            /\ Events(s, "tool.end", k)' = Events(s, "tool.end", k)
            /\ spent'[s][k] = spent[s][k]
  PROVE  Unblocked(s, k)'
  <1>1. SUFFICES ASSUME Events(s, "turn.end", k)' # {}
                 PROVE  Unblocked(s, k)'
    BY DEF Unblocked
  <1>2. /\ Events(s, "turn.end", k)' = Events(s, "turn.end", k)
        /\ Events(s, "tool.end", k)' = Events(s, "tool.end", k)
        /\ spent'[s][k] = spent[s][k]
    BY <1>1
  <1>3. /\ Covered(s, k, Ordinary)' = Covered(s, k, Ordinary)
        /\ Covered(s, k, Tasked)' = Covered(s, k, Tasked)
    BY <1>2, CoveredKept DEF Ordinary
  <1>4. \A ev : \A i \in Events(s, ev, k) : log'[s][i] = log[s][i]
    BY EventsIn DEF Grows
  <1> DEFINE A == Cardinality(Covered(s, k, Ordinary))
             B == Cardinality(Covered(s, k, Tasked))
  <1>5. A' = A /\ B' = B
    BY <1>3
  <1>6. \A e \in Events(s, "turn.end", k), i \in Events(s, "tool.end", k) :
          \A from : Within(s, e, i, from) => Within(s, e, i, from)'
    BY <1>4 DEF Within
  <1>7. spent[s][k].tools = A /\ spent[s][k].task = B
    BY <1>1, <1>2 DEF Unblocked
  <1> HIDE DEF A, B
  <1>8. spent'[s][k].tools = A' /\ spent'[s][k].task = B'
    BY <1>2, <1>5, <1>7
  <1>9. \A e \in Events(s, "turn.end", k)' : \E from \in Nat :
          \A i \in Events(s, "tool.end", k)' : Within(s, e, i, from)'
    BY <1>1, <1>2, <1>6 DEF Unblocked
  <1>10. QED
    BY <1>8, <1>9 DEF A, B, Unblocked

LEMMA BlockedKept ==
  ASSUME NEW s \in Session, NEW k \in Steps, Blocked(s, k), Grows(s), now' = now,
         Events(s, "turn.end", k)' = Events(s, "turn.end", k),
         Events(s, "tool.end", k)' = Events(s, "tool.end", k),
         spent'[s][k] = spent[s][k], running'[s] = running[s],
         state'[s].turnStart[k] = state[s].turnStart[k],
         state'[s].toolStart = state[s].toolStart
  PROVE  Blocked(s, k)'
  <1>1. ASSUME NEW C
        PROVE  CoveredNow(s, k, C)' = CoveredNow(s, k, C)
    <2>1. Covered(s, k, C)' = Covered(s, k, C)
      BY CoveredKept
    <2>2. QED
      BY <2>1 DEF CoveredNow, Moment
  <1>2. \A i \in Events(s, "tool.end", k) : log'[s][i] = log[s][i]
    BY EventsIn DEF Grows
  <1> DEFINE A == Cardinality(CoveredNow(s, k, Ordinary))
             B == Cardinality(CoveredNow(s, k, Tasked))
  <1>3. A' = A /\ B' = B
    BY <1>1 DEF Ordinary
  <1>4. spent[s][k].tools = A /\ spent[s][k].task = B
    BY DEF Blocked
  <1> HIDE DEF A, B
  <1>5. spent'[s][k].tools = A' /\ spent'[s][k].task = B'
    BY <1>3, <1>4
  <1>6. /\ Events(s, "turn.end", k)' = {}
        /\ \A i \in Events(s, "tool.end", k)' :
             state'[s].turnStart[k] <= log'[s][i].ts - log'[s][i].duration
        /\ \A c \in running'[s] : state'[s].turnStart[k] <= state'[s].toolStart[c].ms
    BY <1>2 DEF Blocked
  <1>7. QED
    BY <1>5, <1>6 DEF A, B, Blocked

\* What neither ends a turn or a call, nor begins one, changes nothing of it.
LEMMA WaitedCalm ==
  ASSUME LoopInv, NEW s \in Session, Waited(s), Grows(s), now' = now,
         \A k : /\ Events(s, "turn.end", k)' = Events(s, "turn.end", k)
                /\ Events(s, "tool.end", k)' = Events(s, "tool.end", k),
         step'[s] = step[s], spent'[s] = spent[s], running'[s] = running[s],
         InTurn(s)' => /\ InTurn(s) /\ state'[s].turnStart = state[s].turnStart
                       /\ state'[s].toolStart = state[s].toolStart
  PROVE  Waited(s)'
  <1>1. PICK k \in Steps : k = step[s]
    BY DEF LoopInv, LoopTyped
  <1>2. \A l \in Steps : Unblocked(s, l)'
    BY UnblockedKept DEF Waited
  <1>3. InTurn(s)' => Blocked(s, k)'
    BY <1>1, BlockedKept DEF Waited
  <1>4. QED
    BY <1>1, <1>2, <1>3 DEF Waited

LEMMA WaitedQuiet ==
  ASSUME LoopInv, NEW s \in Session, Waited(s),
         \/ Resting(s) \/ StepBegins(s) \/ CompactionBegins(s) \/ TextEnds(s)
         \/ StepEnds(s) \/ CompactionEnds(s) \/ StreamFinishes(s) \/ QueryEnds(s)
         \/ StreamBreaks(s) \/ LoopFails(s)
  PROVE  Waited(s)'
  <1> DEFINE Plain == /\ now' = now /\ step'[s] = step[s] /\ spent'[s] = spent[s]
                      /\ running'[s] = running[s]
                      /\ InTurn(s)' => /\ InTurn(s) /\ state'[s].turnStart = state[s].turnStart
                                       /\ state'[s].toolStart = state[s].toolStart
  <1>1. ASSUME log'[s] = log[s], Plain
        PROVE  Waited(s)'
    BY <1>1, RestingLines, WaitedCalm
  <1>2. ASSUME NEW line, Logs(s, line), line.ev \notin {"turn.end", "tool.end"}, Plain
        PROVE  Waited(s)'
    <2>1. PICK x : Added(s, line, x)
      BY <1>2, Logged
    <2>2. Grows(s) /\ \A k : /\ Events(s, "turn.end", k)' = Events(s, "turn.end", k)
                             /\ Events(s, "tool.end", k)' = Events(s, "tool.end", k)
      BY <1>2, <2>1, AddedLines
    <2>3. QED
      BY <1>2, <2>2, WaitedCalm
  <1>3. CASE Resting(s)
    BY <1>1, <1>3 DEF Resting, InTurn
  <1>4. CASE StepBegins(s) \/ CompactionBegins(s)
    <2> DEFINE line == [ev |-> "llm.start", ts |-> now, step |-> step[s]]
    <2>1. Logs(s, line) /\ Plain
      BY <1>4, StepBegun DEF OthersRest, InTurn
    <2>2. line.ev = "llm.start"
      OBVIOUS
    <2>3. QED
      BY <1>2, <2>1, <2>2
  <1>5. CASE TextEnds(s)
    BY <1>1, <1>5, TextEnded DEF OthersRest, InTurn
  <1>6. CASE StepEnds(s) \/ CompactionEnds(s)
    <2>1. Logs(s, LlmEndLine(s)) /\ LlmEndLine(s).ev = "llm.end" /\ Plain
      BY <1>6, StepEnded DEF OthersRest, InTurn
    <2>2. QED
      BY <1>2, <2>1
  <1>7. CASE StreamFinishes(s)
    <2> DEFINE line == [ev |-> "llm.stream-finish", ts |-> now, step |-> step[s]]
    <2>1. Logs(s, line) /\ Plain
      BY <1>7, StreamFinished DEF OthersRest, InTurn
    <2>2. line.ev = "llm.stream-finish"
      OBVIOUS
    <2>3. QED
      BY <1>2, <2>1, <2>2
  <1>8. CASE QueryEnds(s)
    <2>1. Logs(s, QueryEndLine(s)) /\ QueryEndLine(s).ev = "query.end" /\ Plain
      BY <1>8, QueryEnded DEF OthersRest, InTurn
    <2>2. QED
      BY <1>2, <2>1
  <1>9. CASE StreamBreaks(s) \/ LoopFails(s)
    BY <1>1, <1>9, Upset DEF OthersRest, InTurn
  <1>10. QED
    BY <1>3, <1>4, <1>5, <1>6, <1>7, <1>8, <1>9

\* A session that is asked for the first time has an empty log.
LEMMA FirstAsked ==
  ASSUME LoopInv, SequencedInv, NEW s \in Session, QueryBegins(s), OneQuery(s)'
  PROVE  /\ log[s] = <<>> /\ ~Open(s)
         /\ \A ev : Lines(s, ev) = {}
         /\ \A ev, k : Events(s, ev, k) = {}
  <1> DEFINE line == QueryStartLine(s)
  <1>1. Logs(s, line) /\ line.ev = "query.start"
    BY QueryBegun
  <1> HIDE DEF line
  <1>2. PICK x : Added(s, line, x)
    BY <1>1, Logged
  <1>3. Lines(s, "query.start")' = Lines(s, "query.start") \cup {x} /\ x \notin Lines(s, "query.start")
    BY <1>1, <1>2, AddedLines
  <1>4. Lines(s, "query.start") = {}
    BY <1>3 DEF OneQuery
  <1>5. log[s] = <<>>
    <2>1. SUFFICES ASSUME log[s] # <<>> PROVE FALSE
      OBVIOUS
    <2>2. log[s] \in Seq(Line) /\ log[s][1].ev = "query.start"
      BY <2>1 DEF LoopInv, DataTyped, SequencedInv, Sequenced
    <2>3. 1 \in DOMAIN log[s]
      BY <2>1, <2>2
    <2>4. QED
      BY <1>4, <2>2, <2>3 DEF Lines
  <1>6. ~Open(s)
    BY <1>5 DEF SequencedInv, Sequenced
  <1>7. \A ev : Lines(s, ev) = {}
    BY <1>5 DEF Lines
  <1>8. QED
    BY <1>5, <1>6, <1>7 DEF Events

LEMMA WaitedAsked ==
  ASSUME LoopInv, SequencedInv, NEW s \in Session, QueryBegins(s), OneQuery(s)'
  PROVE  Waited(s)'
  <1> DEFINE line == QueryStartLine(s)
  <1>1. Logs(s, line) /\ line.ev = "query.start" /\ phase'[s] = "loop"
    BY QueryBegun DEF QueryBegins, Go, LoopInv, LoopTyped
  <1> HIDE DEF line
  <1>2. PICK x : Added(s, line, x)
    BY <1>1, Logged
  <1>3. \A k : Events(s, "turn.end", k)' = {} /\ Events(s, "tool.end", k)' = {}
    BY <1>1, <1>2, AddedLines, FirstAsked
  <1>4. QED
    BY <1>1, <1>3 DEF Waited, InTurn, Unblocked

LEMMA WaitedTurns ==
  ASSUME LoopInv, NEW s \in Session, Waited(s), TurnBegins(s)
  PROVE  Waited(s)'
  <1>1. PICK k : k = step[s] + 1
    OBVIOUS
  <1> DEFINE line == TurnStartLine(s, k)
  <1>2. /\ Logs(s, line) /\ line.ev = "turn.start" /\ k \in Steps
        /\ step'[s] = k /\ running'[s] = {} /\ Put(spent'[s], spent[s], k, Nothing)
    BY <1>1, TurnBegun
  <1> HIDE DEF line
  <1>3. PICK x : Added(s, line, x)
    BY <1>2, Logged
  <1>4. Grows(s) /\ \A l : /\ Events(s, "turn.end", l)' = Events(s, "turn.end", l)
                           /\ Events(s, "tool.end", l)' = Events(s, "tool.end", l)
    BY <1>2, <1>3, AddedLines
  <1>5. step[s] \in Nat /\ k > step[s] /\ \A l \in Steps : l > k => l > step[s]
    <2>1. step[s] \in Steps
      BY DEF LoopInv, LoopTyped
    <2>2. step[s] \in Nat /\ \A l \in Steps : l \in Nat
      BY <2>1, Numbers DEF Steps
    <2>3. QED
      BY <1>1, <2>2
  <1>6. \A l \in Steps : l > k => Events(s, "turn.end", l)' = {} /\ Events(s, "tool.end", l)' = {}
    BY <1>4, <1>5 DEF Waited
  <1>7. Events(s, "turn.end", k)' = {} /\ Events(s, "tool.end", k)' = {}
    BY <1>1, <1>2, <1>4, <1>5 DEF Waited
  <1>8. ASSUME NEW C
        PROVE  CoveredNow(s, k, C)' = {}
    BY <1>2, <1>7 DEF CoveredNow, Covered
  <1>9. Blocked(s, k)'
    <2> DEFINE A == Cardinality(CoveredNow(s, k, Ordinary))
               B == Cardinality(CoveredNow(s, k, Tasked))
    <2>1. A' = Cardinality({}) /\ B' = Cardinality({})
      BY <1>8 DEF Ordinary
    <2>2. A' = 0 /\ B' = 0
      BY <2>1, FS_EmptySet
    <2>3. spent'[s][k].tools = 0 /\ spent'[s][k].task = 0
      BY <1>2 DEF Put, Nothing
    <2> HIDE DEF A, B
    <2>4. spent'[s][k].tools = A' /\ spent'[s][k].task = B'
      BY <2>2, <2>3
    <2>5. QED
      BY <1>2, <1>7, <2>4 DEF Blocked, A, B
  <1>10. ASSUME NEW l \in Steps
         PROVE  Unblocked(s, l)'
    <2>1. Unblocked(s, l)
      BY DEF Waited
    <2>2. l # k => spent'[s][l] = spent[s][l]
      BY <1>2 DEF Put
    <2>3. QED
      BY <1>4, <1>7, <2>1, <2>2, UnblockedKept
  <1>11. QED
    BY <1>2, <1>6, <1>9, <1>10 DEF Waited

LEMMA WaitedToolBegins ==
  ASSUME LoopInv, NEW s \in Session, Waited(s), NEW c \in Call, ToolBegins(s, c)
  PROVE  Waited(s)'
  <1>1. PICK k \in Steps : k = step[s]
    BY DEF LoopInv, LoopTyped
  <1> DEFINE line == ToolStartLine(s, c)
             st == state[s]
             st1 == state'[s]
  <1>2. /\ now' = now /\ Logs(s, line) /\ line.ev = "tool.start"
        /\ phase[s] = "stream" /\ phase'[s] = "stream" /\ step'[s] = k
        /\ spent'[s] = spent[s]
        /\ c \notin running[s] /\ running'[s] = running[s] \cup {c}
    BY <1>1, ToolBegun DEF OthersRest
  <1>3. /\ st1.toolStart[c].ms = now /\ st1.turnStart = st.turnStart
        /\ \A d \in Call \ {c} : st1.toolStart[d] = st.toolStart[d]
    BY <1>1, ToolBegun
  <1> HIDE DEF line, st, st1
  <1>4. PICK x : Added(s, line, x)
    BY <1>2, Logged
  <1>5. Grows(s) /\ \A l : /\ Events(s, "turn.end", l)' = Events(s, "turn.end", l)
                           /\ Events(s, "tool.end", l)' = Events(s, "tool.end", l)
    BY <1>2, <1>4, AddedLines
  <1>6. \A d \in running[s] : st1.toolStart[d] = st.toolStart[d]
    BY <1>2, <1>3 DEF LoopInv, LoopTyped
  <1>7. now \in Nat /\ st.turnStart[k] <= now /\ Blocked(s, k)
    <2>1. InTurn(s)
      BY <1>2 DEF InTurn
    <2>2. st.turnStart[k] \in 0..now /\ now \in Nat
      BY <1>1, <2>1, Marks DEF LoopInv, LoopTyped, Attuned, st
    <2>3. QED
      BY <1>1, <2>1, <2>2 DEF Waited
  <1>8. ASSUME NEW C
        PROVE  CoveredNow(s, k, C)' = CoveredNow(s, k, C)
    <2>1. Covered(s, k, C)' = Covered(s, k, C)
      BY <1>5, CoveredKept
    <2>2. ASSUME NEW m \in Moment, m < now
          PROVE  (\E d \in running'[s] \cap C : st1.toolStart[d].ms <= m) <=>
                   \E d \in running[s] \cap C : st.toolStart[d].ms <= m
      <3>1. ~(now <= m)
        BY <1>7, <2>2, Numbers DEF Moment
      <3>2. QED
        BY <1>2, <1>3, <1>6, <3>1
    <2>3. CoveredNow(s, k, C)' =
            Covered(s, k, C)' \cup
              {m \in Moment : m < now /\ \E d \in running'[s] \cap C : st1.toolStart[d].ms <= m}
      BY <1>2 DEF CoveredNow, Moment, st1
    <2>4. CoveredNow(s, k, C) =
            Covered(s, k, C) \cup
              {m \in Moment : m < now /\ \E d \in running[s] \cap C : st.toolStart[d].ms <= m}
      BY DEF CoveredNow, st
    <2>5. QED
      BY <2>1, <2>2, <2>3, <2>4
  <1>9. Blocked(s, k)'
    <2> DEFINE A == Cardinality(CoveredNow(s, k, Ordinary))
               B == Cardinality(CoveredNow(s, k, Tasked))
    <2>1. A' = A /\ B' = B
      BY <1>8 DEF Ordinary
    <2>2. spent[s][k].tools = A /\ spent[s][k].task = B
      BY <1>7 DEF Blocked
    <2> HIDE DEF A, B
    <2>3. spent'[s][k].tools = A' /\ spent'[s][k].task = B'
      BY <1>2, <2>1, <2>2
    <2>4. \A i \in Events(s, "tool.end", k) : log'[s][i] = log[s][i]
      BY <1>5, EventsIn DEF Grows
    <2>5. /\ Events(s, "turn.end", k)' = {}
          /\ \A i \in Events(s, "tool.end", k)' :
               st1.turnStart[k] <= log'[s][i].ts - log'[s][i].duration
      BY <1>3, <1>5, <1>7, <2>4 DEF Blocked, st
    <2>6. \A d \in running'[s] : st1.turnStart[k] <= st1.toolStart[d].ms
      BY <1>2, <1>3, <1>6, <1>7 DEF Blocked, st
    <2>7. QED
      BY <2>3, <2>5, <2>6 DEF Blocked, A, B, st1
  <1>10. \A l \in Steps : Unblocked(s, l)'
    BY <1>2, <1>5, UnblockedKept DEF Waited
  <1>11. QED
    BY <1>1, <1>2, <1>5, <1>9, <1>10 DEF Waited

LEMMA WaitedToolEnds ==
  ASSUME LoopInv, NEW s \in Session, Waited(s), NEW c \in Call, NEW ok \in BOOLEAN,
         ToolEnds(s, c, ok)
  PROVE  Waited(s)'
  <1>1. PICK k \in Steps : k = step[s]
    BY DEF LoopInv, LoopTyped
  <1> DEFINE line == ToolEndLine(s, c, ok)
             st == state[s]
             st1 == state'[s]
             ms == st.toolStart[c].ms
  <1>2. /\ now' = now /\ Logs(s, line) /\ line.ev = "tool.end" /\ line.step = k
        /\ line.ts = now /\ line.duration = now - ms /\ line.call = c
        /\ now \in Nat /\ ms \in 0..now
        /\ phase[s] = "stream" /\ phase'[s] = "stream" /\ step'[s] = k
        /\ spent'[s] = spent[s]
        /\ c \in running[s] /\ running'[s] = running[s] \ {c}
    BY <1>1, ToolEnded DEF OthersRest
  <1>3. /\ st1.turnStart = st.turnStart
        /\ \A d \in Call \ {c} : st1.toolStart[d] = st.toolStart[d]
    BY <1>1, ToolEnded
  <1> HIDE DEF line, st, st1, ms
  <1>4. PICK x : Added(s, line, x)
    BY <1>2, Logged
  <1>5. /\ Grows(s) /\ log'[s][x] = line
        /\ \A l : Events(s, "turn.end", l)' = Events(s, "turn.end", l)
        /\ \A l : l # k => Events(s, "tool.end", l)' = Events(s, "tool.end", l)
        /\ Events(s, "tool.end", k)' = Events(s, "tool.end", k) \cup {x}
    BY <1>2, <1>4, AddedLines DEF Added
  <1>6. \A d \in running'[s] : d \in running[s] /\ st1.toolStart[d] = st.toolStart[d]
    BY <1>2, <1>3 DEF LoopInv, LoopTyped
  <1>7. Blocked(s, k)
    BY <1>1, <1>2 DEF Waited, InTurn
  <1>8. \A i \in Events(s, "tool.end", k) : log'[s][i] = log[s][i]
    BY <1>5, EventsIn DEF Grows
  <1>9. \A m \in Moment : During(line, m) <=> ms <= m /\ m < now
    BY <1>2, Numbers DEF Moment, During
  <1>10. ASSUME NEW C
         PROVE  CoveredNow(s, k, C)' = CoveredNow(s, k, C)
    <2>1. Covered(s, k, C)' =
            {m \in Moment : \E i \in Events(s, "tool.end", k)' :
               log'[s][i].call \in C /\ During(log'[s][i], m)}
      BY DEF Covered, Moment, During
    <2>2. Covered(s, k, C)' =
            Covered(s, k, C) \cup {m \in Moment : c \in C /\ During(line, m)}
      BY <1>2, <1>5, <1>8, <2>1 DEF Covered
    <2>3. CoveredNow(s, k, C)' =
            Covered(s, k, C)' \cup
              {m \in Moment : m < now /\ \E d \in running'[s] \cap C : st1.toolStart[d].ms <= m}
      BY <1>2 DEF CoveredNow, Moment, st1
    <2>4. CoveredNow(s, k, C) =
            Covered(s, k, C) \cup
              {m \in Moment : m < now /\ \E d \in running[s] \cap C : st.toolStart[d].ms <= m}
      BY DEF CoveredNow, st
    <2>5. \A m \in Moment :
            (\E d \in running[s] \cap C : st.toolStart[d].ms <= m) <=>
              \/ c \in C /\ ms <= m
              \/ \E d \in running'[s] \cap C : st1.toolStart[d].ms <= m
      BY <1>2, <1>6 DEF ms
    <2>6. QED
      BY <1>9, <2>2, <2>3, <2>4, <2>5
  <1>11. Blocked(s, k)'
    <2> DEFINE A == Cardinality(CoveredNow(s, k, Ordinary))
               B == Cardinality(CoveredNow(s, k, Tasked))
    <2>1. A' = A /\ B' = B
      BY <1>10 DEF Ordinary
    <2>2. spent[s][k].tools = A /\ spent[s][k].task = B
      BY <1>7 DEF Blocked
    <2> HIDE DEF A, B
    <2>3. spent'[s][k].tools = A' /\ spent'[s][k].task = B'
      BY <1>2, <2>1, <2>2
    <2>4. st.turnStart[k] <= line.ts - line.duration
      <3>1. st.turnStart[k] <= ms
        BY <1>2, <1>7 DEF Blocked, st, ms
      <3>2. line.ts - line.duration = ms
        BY <1>2
      <3>3. QED
        BY <3>1, <3>2
    <2>5. /\ Events(s, "turn.end", k)' = {}
          /\ \A i \in Events(s, "tool.end", k)' :
               st1.turnStart[k] <= log'[s][i].ts - log'[s][i].duration
      BY <1>3, <1>5, <1>7, <1>8, <2>4 DEF Blocked, st
    <2>6. \A d \in running'[s] : st1.turnStart[k] <= st1.toolStart[d].ms
      BY <1>3, <1>6, <1>7 DEF Blocked, st
    <2>7. QED
      BY <2>3, <2>5, <2>6 DEF Blocked, A, B, st1
  <1>12. ASSUME NEW l \in Steps
         PROVE  Unblocked(s, l)'
    <2>1. Unblocked(s, l)
      BY DEF Waited
    <2>2. CASE l = k
      <3>1. Events(s, "turn.end", l)' = {}
        BY <1>5, <1>7, <2>2 DEF Blocked
      <3>2. QED
        BY <1>5, <2>1, <3>1, UnblockedKept
    <2>3. CASE l # k
      BY <1>2, <1>5, <2>1, <2>3, UnblockedKept
    <2>4. QED
      BY <2>2, <2>3
  <1>13. \A l \in Steps : l > k => Events(s, "turn.end", l)' = {} /\ Events(s, "tool.end", l)' = {}
    <2>1. \A l \in Steps : l > k => l # k
      BY Numbers
    <2>2. QED
      BY <1>1, <1>5, <2>1 DEF Waited
  <1>14. QED
    BY <1>2, <1>11, <1>12, <1>13 DEF Waited

LEMMA WaitedTurnEnds ==
  ASSUME LoopInv, SequencedInv, NEW s \in Session, Waited(s), TurnEnds(s)
  PROVE  Waited(s)'
  <1>1. PICK k \in Steps : k = step[s]
    BY DEF LoopInv, LoopTyped
  <1> DEFINE line == TurnEndLine(s, k)
  <1>2. PICK from : from = state[s].turnStart[k]
    OBVIOUS
  <1>3. /\ Logs(s, line) /\ line.ev = "turn.end" /\ line.step = k /\ line.ts = now
        /\ line.duration = now - from /\ from \in Nat
        /\ phase[s] = "settle" /\ phase'[s] = "loop" /\ step'[s] = k
        /\ spent'[s] = spent[s] /\ running[s] = {}
    BY <1>1, <1>2, TurnEnded
  <1> HIDE DEF line
  <1>4. PICK x : Added(s, line, x)
    BY <1>3, Logged
  <1>5. /\ Grows(s) /\ log'[s][x] = line
        /\ \A l : Events(s, "tool.end", l)' = Events(s, "tool.end", l)
        /\ \A l : l # k => Events(s, "turn.end", l)' = Events(s, "turn.end", l)
        /\ Events(s, "turn.end", k)' = Events(s, "turn.end", k) \cup {x}
    BY <1>3, <1>4, AddedLines DEF Added
  <1>6. Blocked(s, k)
    BY <1>1, <1>3 DEF Waited, InTurn
  <1>7. ASSUME NEW C
        PROVE  CoveredNow(s, k, C) = Covered(s, k, C)
    BY <1>3 DEF CoveredNow
  <1>8. Unblocked(s, k)'
    <2> DEFINE A == Cardinality(Covered(s, k, Ordinary))
               B == Cardinality(Covered(s, k, Tasked))
    <2>1. A' = A /\ B' = B
      BY <1>5, CoveredKept DEF Ordinary
    <2>2. spent[s][k].tools = A /\ spent[s][k].task = B
      BY <1>6, <1>7 DEF Blocked
    <2> HIDE DEF A, B
    <2>3. spent'[s][k].tools = A' /\ spent'[s][k].task = B'
      BY <1>3, <2>1, <2>2
    <2>4. ASSUME NEW i \in Events(s, "tool.end", k)
          PROVE  Within(s, x, i, from)'
      <3>1. log'[s][i] = log[s][i] /\ log[s][i].ts <= now
        BY <1>5, EventsIn DEF Grows, SequencedInv, Sequenced
      <3>2. from <= log[s][i].ts - log[s][i].duration
        BY <1>6, <1>2 DEF Blocked
      <3>3. QED
        BY <1>3, <1>5, <3>1, <3>2 DEF Within
    <2>5. Events(s, "turn.end", k)' = {x}
      BY <1>5, <1>6 DEF Blocked
    <2>6. \A e \in Events(s, "turn.end", k)' : \E f \in Nat :
            \A i \in Events(s, "tool.end", k)' : Within(s, e, i, f)'
      BY <1>3, <1>5, <2>4, <2>5
    <2>7. QED
      BY <2>3, <2>6 DEF Unblocked, A, B
  <1>9. ASSUME NEW l \in Steps, l # k
        PROVE  Unblocked(s, l)'
    BY <1>3, <1>5, <1>9, UnblockedKept DEF Waited
  <1>10. \A l \in Steps : l > k => Events(s, "turn.end", l)' = {} /\ Events(s, "tool.end", l)' = {}
    <2>1. \A l \in Steps : l > k => l # k
      BY Numbers
    <2>2. QED
      BY <1>1, <1>5, <2>1 DEF Waited
  <1>11. QED
    BY <1>3, <1>8, <1>9, <1>10 DEF Waited, InTurn

\* A tick is covered exactly if a call is under way, and no tick was counted before it.
LEMMA TickCovered ==
  ASSUME LoopInv, SequencedInv, Tick, NEW s \in Session, NEW k \in Steps, NEW C
  PROVE  Cardinality(CoveredNow(s, k, C)') =
           Cardinality(CoveredNow(s, k, C)) + One(running[s] \cap C # {})
  <1>1. /\ now \in Nat /\ MaxTime \in Nat /\ now < MaxTime /\ now' = now + 1
        /\ log' = log /\ state' = state /\ running' = running
    BY Numbers, Marks DEF Tick, LoopInv, LoopTyped, loopVars
  <1>2. Covered(s, k, C)' = Covered(s, k, C)
    BY <1>1, RestingLines, CoveredKept
  <1>3. IsFiniteSet(CoveredNow(s, k, C)) /\ Cardinality(CoveredNow(s, k, C)) \in Nat
    <2>1. CoveredNow(s, k, C) \in SUBSET Moment
      BY DEF CoveredNow, Covered
    <2>2. QED
      BY <2>1, FiniteEvents, FS_Subset, FS_CardinalityType
  <1> DEFINE now1 == {m \in Moment : m < now + 1 /\
                        \E c \in running[s] \cap C : state[s].toolStart[c].ms <= m}
  <1>4. CoveredNow(s, k, C)' = Covered(s, k, C) \cup now1
    BY <1>1, <1>2 DEF CoveredNow, Moment
  <1>5. CASE running[s] \cap C = {}
    <2>1. CoveredNow(s, k, C)' = CoveredNow(s, k, C)
      BY <1>4, <1>5 DEF CoveredNow
    <2>2. QED
      BY <1>3, <1>5, <2>1 DEF One
  <1>6. CASE running[s] \cap C # {}
    <2>1. PICK c \in running[s] \cap C : TRUE
      BY <1>6
    <2>2. state[s].toolStart[c].ms <= now
      BY <1>1, <2>1 DEF LoopInv, Accounted, Kept
    <2>3. now \in Moment
      BY <1>1 DEF Moment
    <2>4. CoveredNow(s, k, C)' = CoveredNow(s, k, C) \cup {now}
      <3>1. \A m \in Moment : m < now + 1 <=> m < now \/ m = now
        BY <1>1 DEF Moment
      <3>2. QED
        BY <1>4, <2>1, <2>2, <2>3, <3>1 DEF CoveredNow
    <2>5. now \notin Covered(s, k, C)
      <3>1. ASSUME NEW i \in Events(s, "tool.end", k)
            PROVE  ~(now < log[s][i].ts)
        <4>1. i \in DOMAIN log[s] /\ log[s][i].ts \in Nat
          BY EventsIn, MeasuredLines, Marks DEF Events
        <4>2. log[s][i].ts <= now
          BY <4>1 DEF SequencedInv, Sequenced
        <4>3. QED
          BY <1>1, <4>1, <4>2
      <3>2. QED
        BY <3>1 DEF Covered, During
    <2>6. now \notin CoveredNow(s, k, C)
      BY <1>1, <2>5 DEF CoveredNow
    <2>7. Cardinality(CoveredNow(s, k, C) \cup {now}) = Cardinality(CoveredNow(s, k, C)) + 1
      BY <1>3, <2>6, FS_AddElement
    <2>8. QED
      BY <1>6, <2>4, <2>7 DEF One
  <1>7. QED
    BY <1>5, <1>6

LEMMA WaitedTicks ==
  ASSUME LoopInv, SequencedInv, NEW s \in Session, Waited(s), Tick
  PROVE  Waited(s)'
  <1>1. PICK k \in Steps : k = step[s]
    BY DEF LoopInv, LoopTyped
  <1>2. /\ log' = log /\ state' = state /\ phase' = phase /\ step' = step /\ running' = running
        /\ InTurn(s) => /\ spent'[s][k].tools = spent[s][k].tools + One(running[s] \ Tasked # {})
                        /\ spent'[s][k].task = spent[s][k].task + One(running[s] \cap Tasked # {})
                        /\ \A l \in Steps \ {k} : spent'[s][l] = spent[s][l]
        /\ ~InTurn(s) => spent'[s] = spent[s]
    BY <1>1, Ticked
  <1>3. Grows(s) /\ \A ev, l : Events(s, ev, l)' = Events(s, ev, l)
    BY <1>2, RestingLines
  <1>4. ASSUME InTurn(s)
        PROVE  Blocked(s, k)'
    <2>1. Blocked(s, k)
      BY <1>1, <1>4 DEF Waited
    <2>2. running[s] \ Tasked = running[s] \cap Ordinary
      BY DEF Ordinary, LoopInv, LoopTyped
    <2> DEFINE A == Cardinality(CoveredNow(s, k, Ordinary))
               B == Cardinality(CoveredNow(s, k, Tasked))
    <2>3. A' = A + One(running[s] \cap Ordinary # {}) /\ B' = B + One(running[s] \cap Tasked # {})
      BY TickCovered DEF Ordinary
    <2>4. spent[s][k].tools = A /\ spent[s][k].task = B
      BY <2>1 DEF Blocked
    <2> HIDE DEF A, B
    <2>5. spent'[s][k].tools = A' /\ spent'[s][k].task = B'
      BY <1>2, <1>4, <2>2, <2>3, <2>4
    <2>6. QED
      BY <1>2, <1>3, <2>1, <2>5 DEF Blocked, A, B
  <1>5. ASSUME NEW l \in Steps
        PROVE  Unblocked(s, l)'
    <2>1. Unblocked(s, l)
      BY DEF Waited
    <2>2. CASE InTurn(s) /\ l = k
      <3>1. Events(s, "turn.end", l)' = {}
        BY <1>1, <1>3, <2>2 DEF Waited, Blocked
      <3>2. QED
        BY <1>3, <2>1, <3>1, UnblockedKept
    <2>3. CASE ~(InTurn(s) /\ l = k)
      <3>1. spent'[s][l] = spent[s][l]
        BY <1>2, <2>3
      <3>2. QED
        BY <1>3, <2>1, <3>1, UnblockedKept
    <2>4. QED
      BY <2>2, <2>3
  <1>6. QED
    BY <1>1, <1>2, <1>3, <1>4, <1>5 DEF Waited, InTurn

LEMMA WaitedKeeps ==
  ASSUME LoopInv, SequencedInv, WaitedInv, [Next]_vars, NEW s \in Session, OneQuery(s)'
  PROVE  Waited(s)'
  <1>1. Moved(s)
    BY Moves
  <1>2. OneQuery(s)
    <2>1. Lines(s, "query.start") \subseteq Lines(s, "query.start")'
      BY LogGrows DEF Grows, Lines
    <2>2. QED
      BY <2>1 DEF OneQuery
  <1>3. Waited(s)
    BY <1>2 DEF WaitedInv
  <1>4. CASE Tick
    BY <1>3, <1>4, WaitedTicks
  <1>5. CASE QueryBegins(s)
    BY <1>5, WaitedAsked
  <1>6. CASE TurnBegins(s) \/ TurnEnds(s)
    BY <1>3, <1>6, WaitedTurns, WaitedTurnEnds
  <1>7. CASE \E c \in Call : ToolBegins(s, c)
    BY <1>3, <1>7, WaitedToolBegins
  <1>8. CASE \E c \in Call, ok \in BOOLEAN : ToolEnds(s, c, ok)
    BY <1>3, <1>8, WaitedToolEnds
  <1>9. CASE \/ Resting(s) \/ StepBegins(s) \/ CompactionBegins(s) \/ TextEnds(s)
             \/ StepEnds(s) \/ CompactionEnds(s) \/ StreamFinishes(s) \/ QueryEnds(s)
             \/ StreamBreaks(s) \/ LoopFails(s)
    BY <1>3, <1>9, WaitedQuiet
  <1>10. QED
    BY <1>1, <1>4, <1>5, <1>6, <1>7, <1>8, <1>9 DEF Moved

LEMMA WaitedInvariant == Spec => []WaitedInv
  <1>1. Init => WaitedInv
    BY DEF Init, WaitedInv, Waited, Unblocked, InTurn, Events, Lines
  <1>2. LoopInv /\ SequencedInv /\ WaitedInv /\ [Next]_vars => WaitedInv'
    BY WaitedKeeps DEF WaitedInv
  <1>3. QED
    BY <1>1, <1>2, LoopInvariant, SequencedInvariant, PTL DEF Spec

-------------------------------------------------------------------------------
(* The length of a union of intervals is how many moments it covers *)

Interval == {iv \in Nat \X Nat : iv[1] <= iv[2]}
Cover(T) == {m \in Nat : \E iv \in T : iv[1] <= m /\ m < iv[2]}

LEMMA BeforeOrders ==
  /\ \A a, b \in Interval : Before(a, b) \/ Before(b, a)
  /\ \A a, b, c \in Interval : Before(a, b) /\ Before(b, c) => Before(a, c)
  /\ \A a \in Interval : a[1] \in Nat /\ a[2] \in Nat /\ a[1] <= a[2]
  BY DEF Before, Interval

LEMMA Outermost ==
  ASSUME NEW I, IsFiniteSet(I), I \subseteq Interval, I # {}
  PROVE  /\ \E a \in I : \A b \in I : Before(a, b)
         /\ LastIn(I) \in I /\ \A b \in I : Before(b, LastIn(I))
  <1> DEFINE F == {T \in SUBSET I : T # {} =>
                     /\ \E a \in T : \A b \in T : Before(a, b)
                     /\ \E a \in T : \A b \in T : Before(b, a)}
  <1>1. {} \in F
    OBVIOUS
  <1>2. ASSUME NEW T \in SUBSET I, NEW x \in I, T \in F, x \notin T
        PROVE  T \cup {x} \in F
    <2>1. x \in Interval /\ T \subseteq Interval /\ Before(x, x)
      BY BeforeOrders
    <2>2. CASE T = {}
      BY <2>1, <2>2
    <2>3. CASE T # {}
      <3>1. PICK a \in T : \A b \in T : Before(a, b)
        BY <1>2, <2>3
      <3>2. PICK z \in T : \A b \in T : Before(b, z)
        BY <1>2, <2>3
      <3>3. \E y \in T \cup {x} : \A b \in T \cup {x} : Before(y, b)
        <4>1. CASE Before(a, x)
          BY <3>1, <4>1
        <4>2. CASE Before(x, a)
          BY <2>1, <3>1, <4>2, BeforeOrders
        <4>3. QED
          BY <2>1, <4>1, <4>2, BeforeOrders
      <3>4. \E y \in T \cup {x} : \A b \in T \cup {x} : Before(b, y)
        <4>1. CASE Before(x, z)
          BY <3>2, <4>1
        <4>2. CASE Before(z, x)
          BY <2>1, <3>2, <4>2, BeforeOrders
        <4>3. QED
          BY <2>1, <4>1, <4>2, BeforeOrders
      <3>5. QED
        BY <3>3, <3>4
    <2>4. QED
      BY <2>2, <2>3
  <1>3. I \in F
    <2> HIDE DEF F
    <2>1. QED
      BY <1>1, <1>2, SetInduction
  <1>4. QED
    BY <1>3 DEF LastIn

\* The recursion, which takes out the last interval.
Merging(g, D, start) ==
  g = [T \in D |-> IF T = {} THEN start ELSE Extend(g[T \ {LastIn(T)}], LastIn(T))]

LEMMA MergeExists ==
  ASSUME NEW R, IsFiniteSet(R), R \subseteq Interval, NEW start
  PROVE  \E g : Merging(g, SUBSET R, start)
  <1> DEFINE N == {n \in Nat : \E g : Merging(g, UpTo(R, n), start)}
  <1>0. \A T \in SUBSET R : T # {} => LastIn(T) \in T
    BY Outermost, SmallSets
  <1>1. 0 \in N
    <2>1. UpTo(R, 0) = {{}}
      BY SmallSets DEF UpTo
    <2>2. Merging([T \in UpTo(R, 0) |-> start], UpTo(R, 0), start)
      BY <2>1 DEF Merging
    <2>3. QED
      BY <2>2
  <1>2. ASSUME NEW n \in N
        PROVE  n + 1 \in N
    <2>1. PICK g : Merging(g, UpTo(R, n), start)
      OBVIOUS
    <2> DEFINE h == [T \in UpTo(R, n + 1) |->
                       IF T = {} THEN start ELSE Extend(g[T \ {LastIn(T)}], LastIn(T))]
    <2>2. \A T \in UpTo(R, n) : T \in UpTo(R, n + 1) /\ h[T] = g[T]
      <3>1. UpTo(R, n) \subseteq UpTo(R, n + 1)
        BY SmallSets DEF UpTo
      <3>2. QED
        BY <2>1, <3>1 DEF Merging
    <2>3. \A T \in UpTo(R, n + 1) : T # {} => T \ {LastIn(T)} \in UpTo(R, n)
      BY <1>0, SmallSets DEF UpTo
    <2>4. Merging(h, UpTo(R, n + 1), start)
      BY <2>2, <2>3 DEF Merging
    <2>5. QED
      BY <2>4
  <1>3. N = Nat
    <2> HIDE DEF N
    <2>1. QED
      BY <1>1, <1>2, Induction DEF N
  <1>4. UpTo(R, Cardinality(R)) = SUBSET R
    BY SmallSets DEF UpTo
  <1>5. Cardinality(R) \in N
    BY <1>3, FS_CardinalityType
  <1>6. QED
    BY <1>4, <1>5

LEMMA MergeUnfolds ==
  ASSUME NEW R, IsFiniteSet(R), R \subseteq Interval, NEW start
  PROVE  \E g : /\ Merging(g, SUBSET R, start)
                /\ MapThenFoldSet(LAMBDA iv, st : Extend(st, iv), start, LAMBDA iv : iv,
                                  LastIn, R) = g[R]
  <1>1. PICK g : Merging(g, SUBSET R, start)
    BY MergeExists
  <1>2. QED
    BY <1>1 DEF MapThenFoldSet, Merging

\* A stretch after some intervals: it is covered, and what it sums up is how many moments
\* they cover.
Stretched(st, T) ==
  /\ st \in [sum : Nat, from : Nat, to : Nat] /\ st.from <= st.to
  /\ IsFiniteSet(Cover(T)) /\ Cardinality(Cover(T)) = st.sum + (st.to - st.from)
  /\ \A iv \in T : iv[2] <= st.to
  /\ \E iv \in T : iv[1] = st.from
  /\ \A m \in Nat : st.from <= m /\ m < st.to => m \in Cover(T)

LEMMA Stretches ==
  ASSUME NEW T \in SUBSET Interval, NEW st, Stretched(st, T), NEW iv \in Interval,
         \A x \in T : Before(x, iv)
  PROVE  Stretched(Extend(st, iv), T \cup {iv})
  <1> DEFINE st1 == Extend(st, iv)
             a == iv[1]
             b == iv[2]
             C == Cover(T)
             C1 == Cover(T \cup {iv})
  <1>1. /\ a \in Nat /\ b \in Nat /\ a <= b
        /\ st.sum \in Nat /\ st.from \in Nat /\ st.to \in Nat /\ st.from <= st.to
        /\ st = [sum |-> st.sum, from |-> st.from, to |-> st.to]
        /\ \A x \in T : x[1] \in Nat /\ x[2] \in Nat /\ x[1] <= a /\ x[2] <= st.to
        /\ st.from <= a
    <2>1. \A x \in T : x[1] \in Nat /\ x[2] \in Nat /\ x[1] <= a
      BY BeforeOrders DEF Before
    <2>2. QED
      BY <2>1, BeforeOrders DEF Stretched
  <1>2. /\ IsFiniteSet(C) /\ Cardinality(C) = st.sum + (st.to - st.from)
        /\ \A m \in C : m \in Nat /\ m < st.to
        /\ \A m \in Nat : st.from <= m /\ m < st.to => m \in C
    BY <1>1 DEF Stretched, Cover
  <1>3. C1 = C \cup {m \in Nat : a <= m /\ m < b}
    BY DEF Cover
  <1> HIDE DEF a, b, C, C1
  <1>4. \A lo \in Nat, hi \in Nat : lo <= hi =>
          /\ IsFiniteSet(lo..(hi - 1)) /\ Cardinality(lo..(hi - 1)) = hi - lo
    <2>1. SUFFICES ASSUME NEW lo \in Nat, NEW hi \in Nat, lo <= hi
                   PROVE  IsFiniteSet(lo..(hi - 1)) /\ Cardinality(lo..(hi - 1)) = hi - lo
      OBVIOUS
    <2>2. /\ IsFiniteSet(lo..(hi - 1))
          /\ Cardinality(lo..(hi - 1)) = IF lo > hi - 1 THEN 0 ELSE (hi - 1) - lo + 1
      BY <2>1, FS_Interval
    <2>3. QED
      BY <2>1, <2>2
  <1>5. ASSUME NEW new, IsFiniteSet(new), C \cap new = {}
        PROVE  /\ IsFiniteSet(C \cup new) /\ Cardinality(C) \in Nat /\ Cardinality(new) \in Nat
               /\ Cardinality(C \cup new) = Cardinality(C) + Cardinality(new)
    BY <1>2, <1>5, CardUnion
  <1> DEFINE Ends == /\ \A x \in T \cup {iv} : x[2] <= st1.to
                     /\ \E x \in T \cup {iv} : x[1] = st1.from
                     /\ \A m \in Nat : st1.from <= m /\ m < st1.to => m \in C1
  <1>6. CASE a > st.to
    <2>1. st1 = [sum |-> st.sum + st.to - st.from, from |-> a, to |-> b]
      BY <1>1, <1>6 DEF Extend, a, b
    <2> DEFINE new == a..(b - 1)
    <2>2. /\ C1 = C \cup new /\ C \cap new = {}
          /\ IsFiniteSet(new) /\ Cardinality(new) = b - a
      BY <1>1, <1>2, <1>3, <1>4, <1>6
    <2> HIDE DEF new
    <2>3. IsFiniteSet(C1) /\ Cardinality(C1) = st.sum + (st.to - st.from) + (b - a)
      BY <1>2, <1>5, <2>2
    <2>4. /\ st1.sum = st.sum + st.to - st.from /\ st1.from = a /\ st1.to = b
          /\ st1 \in [sum : Nat, from : Nat, to : Nat] /\ st1.from <= st1.to
      BY <1>1, <2>1
    <2>5. Ends
      <3>1. \A x \in T \cup {iv} : x[2] <= b
        BY <1>1, <1>6 DEF b
      <3>2. \E x \in T \cup {iv} : x[1] = a
        BY DEF a
      <3>3. \A m \in Nat : a <= m /\ m < b => m \in C1
        BY <1>3
      <3>4. QED
        BY <2>4, <3>1, <3>2, <3>3
    <2> HIDE DEF st1
    <2>6. Cardinality(C1) = st1.sum + (st1.to - st1.from)
      BY <1>1, <2>3, <2>4
    <2>7. QED
      BY <2>3, <2>4, <2>5, <2>6 DEF Stretched, C1, st1
  <1>7. CASE a <= st.to
    <2> DEFINE top == Larger(st.to, b)
    <2>1. st1 = [sum |-> st.sum, from |-> st.from, to |-> top]
      BY <1>1, <1>7 DEF Extend, a, b
    <2>2. top \in Nat /\ st.to <= top /\ b <= top /\ (top = b \/ top = st.to)
      BY <1>1 DEF Larger
    <2>3. C1 = C \cup (st.to..(top - 1))
      <3>1. \A m \in Nat : a <= m /\ m < b /\ m < st.to => m \in C
        BY <1>1, <1>2
      <3>2. \A m \in Nat : a <= m /\ m < b /\ ~(m < st.to) => m \in st.to..(top - 1)
        BY <1>1, <2>2
      <3>3. \A m \in st.to..(top - 1) : m \in Nat /\ a <= m /\ m < b
        BY <1>1, <1>7, <2>2
      <3>4. QED
        BY <1>3, <3>1, <3>2, <3>3
    <2> DEFINE new == st.to..(top - 1)
    <2>4. IsFiniteSet(new) /\ Cardinality(new) = top - st.to /\ C \cap new = {}
      BY <1>1, <1>2, <1>4, <2>2
    <2> HIDE DEF new
    <2>5. IsFiniteSet(C1) /\ Cardinality(C1) = st.sum + (st.to - st.from) + (top - st.to)
      BY <1>2, <1>5, <2>3, <2>4 DEF new
    <2> HIDE DEF top
    <2>6. /\ st1.sum = st.sum /\ st1.from = st.from /\ st1.to = top
          /\ st1 \in [sum : Nat, from : Nat, to : Nat] /\ st1.from <= st1.to
      BY <1>1, <2>1, <2>2
    <2>7. Ends
      <3>1. \A x \in T \cup {iv} : x[2] <= top
        BY <1>1, <2>2 DEF b
      <3>2. \E x \in T \cup {iv} : x[1] = st.from
        BY DEF Stretched
      <3>3. ASSUME NEW m \in Nat, st.from <= m, m < top
            PROVE  m \in C1
        <4>1. CASE m < st.to
          BY <1>2, <1>3, <3>3, <4>1
        <4>2. CASE ~(m < st.to)
          <5>1. m \in st.to..(top - 1)
            BY <1>1, <2>2, <3>3, <4>2
          <5>2. QED
            BY <2>3, <5>1
        <4>3. QED
          BY <4>1, <4>2
      <3>4. QED
        BY <2>6, <3>1, <3>2, <3>3
    <2> HIDE DEF st1
    <2>8. Cardinality(C1) = st1.sum + (st1.to - st1.from)
      BY <1>1, <2>2, <2>5, <2>6
    <2>9. QED
      BY <2>5, <2>6, <2>7, <2>8 DEF Stretched, C1, st1
  <1>8. QED
    BY <1>1, <1>6, <1>7

LEMMA UnionIsCover ==
  ASSUME NEW I, IsFiniteSet(I), I \subseteq Interval
  PROVE  IsFiniteSet(Cover(I)) /\ UnionLength(I) = Cardinality(Cover(I))
  <1>1. CASE I = {}
    <2>1. Cover(I) = {}
      BY <1>1 DEF Cover
    <2>2. QED
      BY <1>1, <2>1, FS_EmptySet DEF UnionLength
  <1>2. CASE I # {}
    <2> DEFINE first == CHOOSE a \in I : \A b \in I : Before(a, b)
               start == [sum |-> 0, from |-> first[1], to |-> first[2]]
               R == I \ {first}
    <2>1. first \in I /\ \A b \in I : Before(first, b)
      BY <1>2, Outermost
    <2>2. IsFiniteSet(R) /\ R \subseteq Interval
      BY FS_Subset
    <2>3. UnionLength(I) =
            LET end == MapThenFoldSet(LAMBDA iv, st : Extend(st, iv), start, LAMBDA iv : iv,
                                      LastIn, R)
            IN  end.sum + end.to - end.from
      BY <1>2 DEF UnionLength
    <2> HIDE DEF first, start, R
    <2>4. PICK g : /\ Merging(g, SUBSET R, start)
                   /\ MapThenFoldSet(LAMBDA iv, st : Extend(st, iv), start, LAMBDA iv : iv,
                                     LastIn, R) = g[R]
      BY <2>2, MergeUnfolds
    <2> DEFINE Holds(T) == Stretched(g[T], T \cup {first})
               N == {n \in Nat : \A T \in SUBSET R : Cardinality(T) = n => Holds(T)}
    <2>5. 0 \in N
      <3>1. ASSUME NEW T \in SUBSET R, Cardinality(T) = 0
            PROVE  Holds(T)
        <4>1. T = {} /\ g[T] = start
          BY <2>2, <2>4, <3>1, SmallSets DEF Merging
        <4> DEFINE a == first[1]
                   b == first[2]
        <4>2. a \in Nat /\ b \in Nat /\ a <= b
          BY <2>1, BeforeOrders
        <4>3. Cover(T \cup {first}) = a..(b - 1)
          BY <4>1, <4>2 DEF Cover
        <4> HIDE DEF a, b
        <4>4. /\ IsFiniteSet(a..(b - 1))
              /\ Cardinality(a..(b - 1)) = IF a > b - 1 THEN 0 ELSE (b - 1) - a + 1
          BY <4>2, FS_Interval
        <4>5. Cardinality(a..(b - 1)) = 0 + (b - a)
          BY <4>2, <4>4
        <4>6. \A m \in Nat : a <= m /\ m < b => m \in a..(b - 1)
          BY <4>2
        <4>7. start = [sum |-> 0, from |-> a, to |-> b]
          BY DEF start, a, b
        <4>8. start \in [sum : Nat, from : Nat, to : Nat] /\ start.from <= start.to
          BY <4>2, <4>7
        <4>9. /\ \A iv \in T \cup {first} : iv[2] <= start.to
              /\ \E iv \in T \cup {first} : iv[1] = start.from
          BY <4>1, <4>2, <4>7 DEF a, b
        <4>10. Cardinality(Cover(T \cup {first})) = start.sum + (start.to - start.from)
          BY <4>3, <4>5, <4>7
        <4>11. \A m \in Nat : start.from <= m /\ m < start.to => m \in Cover(T \cup {first})
          BY <4>3, <4>6, <4>7
        <4>12. QED
          BY <4>1, <4>3, <4>4, <4>8, <4>9, <4>10, <4>11 DEF Stretched
      <3> HIDE DEF Holds
      <3>2. QED
        BY <3>1
    <2>6. ASSUME NEW n \in N
          PROVE  n + 1 \in N
      <3>1. ASSUME NEW T \in SUBSET R, Cardinality(T) = n + 1
            PROVE  Holds(T)
        <4> DEFINE last == LastIn(T)
                   T1 == T \ {last}
        <4>1. T # {} /\ IsFiniteSet(T)
          BY <2>2, <3>1, SmallSets
        <4>2. last \in T /\ \A b \in T : Before(b, last)
          BY <2>2, <4>1, Outermost
        <4>3. T1 \in SUBSET R /\ Cardinality(T1) = n
          BY <2>2, <3>1, <4>2, SmallSets
        <4>4. g[T] = Extend(g[T1], last)
          BY <2>4, <4>1 DEF Merging
        <4> HIDE DEF last
        <4>5. Stretched(g[T1], T1 \cup {first})
          BY <4>3
        <4>6. T1 \cup {first} \in SUBSET Interval /\ last \in Interval
          BY <2>1, <2>2, <4>2
        <4>7. \A x \in T1 \cup {first} : Before(x, last)
          BY <2>1, <4>2 DEF R
        <4>8. (T1 \cup {first}) \cup {last} = T \cup {first}
          BY <4>2
        <4> HIDE DEF T1
        <4>9. Stretched(g[T], (T1 \cup {first}) \cup {last})
          BY <4>4, <4>5, <4>6, <4>7, Stretches
        <4>10. QED
          BY <4>8, <4>9
      <3>2. n + 1 \in Nat
        OBVIOUS
      <3> HIDE DEF Holds
      <3>3. QED
        BY <3>1, <3>2
    <2>7. N = Nat
      <3> HIDE DEF N
      <3>1. QED
        BY <2>5, <2>6, Induction DEF N
    <2>8. Stretched(g[R], R \cup {first})
      BY <2>2, <2>7, SmallSets
    <2>9. R \cup {first} = I
      BY <2>1 DEF R
    <2> DEFINE end == g[R]
    <2>10. UnionLength(I) = end.sum + end.to - end.from
      BY <2>3, <2>4
    <2> HIDE DEF end
    <2>11. /\ end.sum \in Nat /\ end.from \in Nat /\ end.to \in Nat /\ IsFiniteSet(Cover(I))
           /\ Cardinality(Cover(I)) = end.sum + (end.to - end.from)
      BY <2>8, <2>9 DEF Stretched, end
    <2>12. QED
      BY <2>10, <2>11
  <1>3. QED
    BY <1>1, <1>2

-------------------------------------------------------------------------------
(* What the reports call wall time *)

\* The calls of a class: the union of their intervals is what they cover, and no more than
\* their sum.
LEMMA WallOfCalls ==
  ASSUME LoopInv, NEW s \in Session, CallLines(s), Retold(s), NEW k, NEW names, NEW C,
         \A c \in Call : Tool[c] \in names <=> c \in C
  PROVE  /\ UnionLength(Intervals(s, k, names, {})) = Cardinality(Covered(s, k, C))
         /\ Cardinality(Covered(s, k, C)) \in Nat
         /\ Cardinality(Covered(s, k, C)) <= Summed(Counted(s, k, names, {}))
  <1> DEFINE E == {i \in Events(s, "tool.end", k) : log[s][i].call \in C}
             I == Intervals(s, k, names, {})
             calls == Counted(s, k, names, {})
  <1>1. ASSUME NEW i \in Events(s, "tool.end", k)
        PROVE  /\ log[s][i].ts \in Nat /\ log[s][i].ts <= MaxTime /\ log[s][i].duration \in Nat
               /\ log[s][i].ts - log[s][i].duration \in Nat
               /\ log[s][i].ts - log[s][i].duration <= log[s][i].ts
               /\ log[s][i].name \in names <=> log[s][i].call \in C
    <2>1. i \in Lines(s, "tool.end") /\ log[s][i] \in ToolEndLines
      BY EventsIn, MeasuredLines
    <2>2. log[s][i].ts \in Duration /\ log[s][i].duration \in Duration /\ log[s][i].call \in Call
      BY <2>1 DEF ToolEndLines
    <2>3. log[s][i].ts - log[s][i].duration >= 0
      BY <2>1 DEF CallLines
    <2>4. log[s][i].name = Tool[log[s][i].call]
      BY <2>1 DEF Retold, Told
    <2>5. QED
      BY <2>2, <2>3, <2>4, Numbers DEF Duration
  <1>2. calls = {log[s][i] : i \in E}
    BY <1>1 DEF Counted, ToolLines
  <1>3. \A iv : iv \in I <=>
          \E i \in E : iv = <<log[s][i].ts - log[s][i].duration, log[s][i].ts>>
    BY <1>2 DEF Intervals
  <1>4. IsFiniteSet(I) /\ I \subseteq Interval
    <2>1. I \subseteq (0..MaxTime) \X (0..MaxTime) /\ I \subseteq Interval
      <3>1. ASSUME NEW i \in E
            PROVE  LET iv == <<log[s][i].ts - log[s][i].duration, log[s][i].ts>> IN
                   iv \in (0..MaxTime) \X (0..MaxTime) /\ iv \in Interval
        <4> DEFINE a == log[s][i].ts - log[s][i].duration
                   b == log[s][i].ts
        <4>1. a \in Nat /\ b \in Nat /\ a <= b /\ b <= MaxTime /\ MaxTime \in Nat
          BY <1>1, Numbers
        <4> HIDE DEF a, b
        <4>2. <<a, b>> \in (0..MaxTime) \X (0..MaxTime) /\ <<a, b>> \in Interval
          BY <4>1 DEF Interval
        <4>3. QED
          BY <4>2 DEF a, b
      <3>2. QED
        BY <1>3, <3>1
    <2>2. IsFiniteSet(0..MaxTime)
      BY Numbers, FS_Interval
    <2>3. IsFiniteSet((0..MaxTime) \X (0..MaxTime))
      BY <2>2, FS_Product
    <2> HIDE DEF I
    <2>4. QED
      BY <2>1, <2>3, FS_Subset
  <1>5. Cover(I) = Covered(s, k, C)
    <2>1. ASSUME NEW m \in Nat
          PROVE  m \in Cover(I) <=> \E i \in E : During(log[s][i], m)
      <3> HIDE DEF I, E
      <3>1. ASSUME NEW i \in E, During(log[s][i], m)
            PROVE  m \in Cover(I)
        <4> DEFINE iv == <<log[s][i].ts - log[s][i].duration, log[s][i].ts>>
        <4>1. iv \in I
          BY <1>3
        <4>2. iv[1] <= m /\ m < iv[2]
          BY <3>1 DEF During
        <4> HIDE DEF iv
        <4>3. QED
          BY <4>1, <4>2 DEF Cover
      <3>2. ASSUME m \in Cover(I)
            PROVE  \E i \in E : During(log[s][i], m)
        <4>1. PICK iv \in I : iv[1] <= m /\ m < iv[2]
          BY <3>2 DEF Cover
        <4>2. PICK i \in E : iv = <<log[s][i].ts - log[s][i].duration, log[s][i].ts>>
          BY <1>3, <4>1
        <4>3. iv[1] = log[s][i].ts - log[s][i].duration /\ iv[2] = log[s][i].ts
          BY <4>2
        <4>4. QED
          BY <4>1, <4>3 DEF During
      <3>3. QED
        BY <3>1, <3>2
    <2>2. ASSUME NEW m \in Nat, NEW i \in E, During(log[s][i], m)
          PROVE  m \in Moment
      BY <1>1, <2>2, Numbers DEF During, Moment
    <2>3. Cover(I) \subseteq Nat /\ Moment \subseteq Nat
      BY Numbers DEF Cover, Moment
    <2> HIDE DEF I
    <2>4. QED
      BY <2>1, <2>2, <2>3 DEF Covered
  <1>6. UnionLength(I) = Cardinality(Covered(s, k, C))
    BY <1>4, <1>5, UnionIsCover
  <1>7. E \in SUBSET Lines(s, "tool.end")
    BY EventsIn
  <1>8. IsFiniteSet(TicksOf(s, E)) /\ Summed(calls) = Cardinality(TicksOf(s, E))
    <2> HIDE DEF E
    <2>1. QED
      BY <1>2, <1>7, SummedCalls
  <1>9. Cardinality(Covered(s, k, C)) <= Cardinality(TicksOf(s, E))
    <2> DEFINE f == [r \in TicksOf(s, E) |-> r[2]]
    <2>1. f \in [TicksOf(s, E) -> Covered(s, k, C)]
      BY DEF TicksOf, Covered
    <2>2. ASSUME NEW m \in Covered(s, k, C)
          PROVE  \E r \in TicksOf(s, E) : f[r] = m
      <3>1. PICK i \in E : During(log[s][i], m)
        BY <2>2 DEF Covered
      <3>2. <<i, m>> \in TicksOf(s, E)
        BY <2>2, <3>1 DEF TicksOf, Covered
      <3>3. QED
        BY <3>2
    <2>3. f \in Surjection(TicksOf(s, E), Covered(s, k, C))
      BY <2>1, <2>2 DEF Surjection
    <2>4. QED
      BY <1>8, <2>3, FS_Surjection
  <1>10. Cardinality(Covered(s, k, C)) \in Nat
    <2>1. Covered(s, k, C) \in SUBSET Moment
      BY DEF Covered
    <2>2. QED
      BY <2>1, FiniteEvents, FS_Subset, FS_CardinalityType
  <1>11. QED
    BY <1>6, <1>8, <1>9, <1>10

\* What a turn's calls cover is part of the turn.
LEMMA CoveredFits ==
  ASSUME LoopInv, NEW s \in Session, NEW k \in Steps, Unblocked(s, k), NEW C,
         NEW e \in Events(s, "turn.end", k)
  PROVE  Cardinality(Covered(s, k, C)) <= log[s][e].duration
  <1>1. log[s][e].duration \in Nat /\ log[s][e].ts \in Nat
    <2>1. log[s][e] \in TurnEndLines
      BY EventsIn, MeasuredLines
    <2>2. QED
      BY <2>1, Numbers DEF TurnEndLines, Duration
  <1>2. CASE Covered(s, k, C) = {}
    BY <1>1, <1>2, FS_EmptySet
  <1>3. CASE Covered(s, k, C) # {}
    <2>1. PICK from \in Nat : \A i \in Events(s, "tool.end", k) : Within(s, e, i, from)
      BY DEF Unblocked
    <2> DEFINE hi == log[s][e].ts
    <2>2. PICK j \in Events(s, "tool.end", k) : TRUE
      BY <1>3 DEF Covered
    <2>3. log[s][e].duration = hi - from
      BY <2>1, <2>2 DEF Within
    <2>4. ASSUME NEW m \in Covered(s, k, C)
          PROVE  m \in from..(hi - 1)
      <3>1. PICK i \in Events(s, "tool.end", k) : During(log[s][i], m)
        BY <2>4 DEF Covered
      <3>2. m \in Nat
        BY <2>4, Numbers DEF Covered, Moment
      <3>3. log[s][i].ts \in Nat /\ log[s][i].duration \in Nat
        <4>1. log[s][i] \in ToolEndLines
          BY EventsIn, MeasuredLines
        <4>2. QED
          BY <4>1, Numbers DEF ToolEndLines, Duration
      <3>4. from <= log[s][i].ts - log[s][i].duration /\ log[s][i].ts <= hi
        BY <2>1 DEF Within
      <3>5. QED
        BY <1>1, <3>1, <3>2, <3>3, <3>4 DEF During
    <2>5. /\ IsFiniteSet(from..(hi - 1))
          /\ Cardinality(from..(hi - 1)) = hi - from
      <3>1. from \in Int /\ hi - 1 \in Int /\ hi \in Nat /\ from <= hi
        BY <1>1, <2>3
      <3>2. /\ IsFiniteSet(from..(hi - 1))
            /\ Cardinality(from..(hi - 1)) = IF from > hi - 1 THEN 0 ELSE (hi - 1) - from + 1
        BY <3>1, FS_Interval
      <3>3. QED
        BY <3>1, <3>2
    <2>6. Covered(s, k, C) \in SUBSET (from..(hi - 1))
      BY <2>4
    <2> DEFINE all == from..(hi - 1)
    <2> HIDE DEF all
    <2>7. Cardinality(Covered(s, k, C)) <= Cardinality(all)
      BY <2>5, <2>6, FS_Subset DEF all
    <2>8. QED
      BY <2>3, <2>5, <2>7 DEF all
  <1>4. QED
    BY <1>2, <1>3

LEMMA WallsAreBlockedTime ==
  ASSUME LoopInv, MessagesInv, TurnedInv, WaitedInv
  PROVE  WallIsBlockedTime
  <1>1. SUFFICES ASSUME NEW s \in Session, Once(s), NEW k \in TurnSteps(s),
                        Turn(s, k).duration # None
                 PROVE  LET wall == ToolWall(s, k, {}) IN
                        /\ wall = spent[s][k].tools
                        /\ TaskWall(s, k) = spent[s][k].task
                        /\ wall <= Summed(Counted(s, k, ToolNames \ {"task"}, {}))
                        /\ wall <= Turn(s, k).duration
    BY DEF WallIsBlockedTime
  <1>2. k \in Steps
    <2>1. PICK i \in DOMAIN log[s] : /\ log[s][i].ev \in Measured
                                     /\ log[s][i].step = k
      BY DEF TurnSteps, Measured, LoopInv, DataTyped
    <2>2. log[s][i] \in Line
      BY <2>1 DEF LoopInv, DataTyped
    <2>3. QED
      BY <2>1, <2>2 DEF Measured, Line, QueryStartLines, QueryEndLines, MarkLines, TurnEndLines,
         LlmEndLines, ToolStartLines, ToolEndLines
  <1>3. Unblocked(s, k) /\ CallLines(s) /\ Retold(s)
    <2>1. OneQuery(s)
      BY <1>1, OneAsked
    <2>2. Waited(s)
      BY <2>1 DEF WaitedInv
    <2>3. QED
      BY <1>2, <2>1, <2>2 DEF Waited, TurnedInv, Turned, MessagesInv
  <1>4. PICK e \in Events(s, "turn.end", k) : Turn(s, k).duration = log[s][e].duration
    <2> DEFINE t == Turn(s, k)
               ends == Events(s, "turn.end", k)
    <2>1. t.duration # None
      BY <1>1
    <2>2. /\ ends = {} => t.duration = None
          /\ ends # {} => \E e \in ends : t.duration = log[s][e].duration
      BY <1>1, TurnEndFields
    <2> HIDE DEF t, ends
    <2>3. \E e \in ends : t.duration = log[s][e].duration
      BY <2>1, <2>2
    <2>4. QED
      BY <2>3 DEF t, ends
  <1>5. /\ spent[s][k].tools = Cardinality(Covered(s, k, Ordinary))
        /\ spent[s][k].task = Cardinality(Covered(s, k, Tasked))
    BY <1>3, <1>4 DEF Unblocked
  <1>6. /\ \A c \in Call : Tool[c] \in ToolNames \ {"task"} <=> c \in Ordinary
        /\ \A c \in Call : Tool[c] \in {"task"} <=> c \in Tasked
    BY ProfileAssumption DEF ToolNames, Ordinary
  <1>7. /\ ToolWall(s, k, {}) = Cardinality(Covered(s, k, Ordinary))
        /\ Cardinality(Covered(s, k, Ordinary))
             <= Summed(Counted(s, k, ToolNames \ {"task"}, {}))
    BY <1>3, <1>6, WallOfCalls DEF ToolWall
  <1>8. TaskWall(s, k) = Cardinality(Covered(s, k, Tasked))
    BY <1>3, <1>6, WallOfCalls DEF TaskWall, TaskIntervals
  <1>9. Cardinality(Covered(s, k, Ordinary)) <= Turn(s, k).duration
    BY <1>2, <1>3, <1>4, CoveredFits
  <1>10. QED
    BY <1>5, <1>7, <1>8, <1>9

\* The wall time that analyze_tool_time.py and analyze_subagent_time.py make of a turn's
\* calls by merging their intervals is the time at least one of them was under way,
\* however they overlapped and whatever the session compacted.
THEOREM WallTimeIsTrue == Spec => []WallIsBlockedTime
  <1>1. LoopInv /\ MessagesInv /\ TurnedInv /\ WaitedInv => WallIsBlockedTime
    BY WallsAreBlockedTime
  <1>2. QED
    BY <1>1, LoopInvariant, MessagesInvariant, TurnedInvariant, WaitedInvariant, PTL

-------------------------------------------------------------------------------
(* The time between turns *)

\* When a session was asked and answered, and what session_idle adds up.
AskedAt(s) == LastOf(s, Lines(s, "query.start"), Ts)
AnsweredAt(s) == LastOf(s, Lines(s, "query.end"), Ts)
StepsOf(s) == {k \in Steps : Events(s, "turn.start", k) # {}}
WholeOf(s) == {k \in StepsOf(s) : EndOf(s, k) # None}
GapsOf(s) == {k \in WholeOf(s) : k + 1 \in StepsOf(s)}
BusyOf(s) == SumOver(WholeOf(s), [k \in WholeOf(s) |-> EndOf(s, k) - StartOf(s, k)])
InterOf(s) == SumOver(GapsOf(s), [k \in GapsOf(s) |-> Gap(s, k)])
LeadOf(s) == StartOf(s, 1) - AskedAt(s)

\* The turns of a query are numbered from 1, and end one after the other.
Looping(s) == phase[s] \in {"loop", "compact"}
Numbered(s) ==
  /\ \A k \in Steps :
       /\ Events(s, "turn.start", k) # {} <=> 0 < k /\ k <= step[s]
       /\ Events(s, "turn.end", k) # {} => 0 < k /\ k <= step[s]
       /\ 0 < k /\ k < step[s] => Events(s, "turn.end", k) # {}
  /\ InTurn(s) => Events(s, "turn.end", step[s]) = {}
  /\ Looping(s) /\ step[s] > 0 => Events(s, "turn.end", step[s]) # {}
  /\ phase[s] # "idle" => Lines(s, "query.end") = {} /\ state[s].start = AskedAt(s)

\* The turns that began or ended and the gaps between them make up the time up to there,
\* and the gaps what the loop was not in a turn.
Credited(s) ==
  LET n == step[s]
      known == BusyOf(s) + InterOf(s) + LeadOf(s)
      between == InterOf(s) + LeadOf(s)
  IN
  /\ n > 0 => known = (IF Events(s, "turn.end", n) = {} THEN StartOf(s, n) ELSE EndOf(s, n))
                        - AskedAt(s)
  /\ Looping(s) =>
       idle[s] = IF n = 0 THEN now - AskedAt(s) ELSE between + now - EndOf(s, n)
  /\ InTurn(s) => idle[s] = between
  /\ Lines(s, "query.end") # {} =>
       /\ n > 0 /\ Events(s, "turn.end", n) # {} /\ EndOf(s, n) <= AnsweredAt(s)
       /\ idle[s] = between + AnsweredAt(s) - EndOf(s, n)
       /\ EndToEnd(s) = AnsweredAt(s) - AskedAt(s)
CreditedInv == \A s \in Session : OneQuery(s) => Numbered(s) /\ Credited(s)

\* A child is under way while a call that runs it is,
Calls(ch) == {c \in Tasked : Child[c] = ch}
Called(ch) == \E c \in Calls(ch) : c \in running[Of[c]]
CalledInv ==
  /\ \A s \in Session : \A c \in running[s] : Of[c] = s
  /\ \A ch \in Session \ {Main} : phase[ch] # "idle" => Called(ch)

\* so what it writes lies within the query of the only session that runs it.
Housed(s) ==
  \A ch \in Session \ {s} : Calls(ch) # {} /\ (\A c \in Calls(ch) : Of[c] = s) =>
    \A i \in DOMAIN log[ch] :
      /\ Lines(s, "query.start") # {} /\ AskedAt(s) <= log[ch][i].ts
      /\ Lines(s, "query.end") # {} => log[ch][i].ts <= AnsweredAt(s)
HousedInv == \A s \in Session : OneQuery(s) => Housed(s)

\* The time of the last of some lines, if there is one.
LEMMA LastTime ==
  ASSUME LoopInv, NEW s \in Session, NEW lines, lines \subseteq DOMAIN log[s]
  PROVE  /\ lines = {} => LastOf(s, lines, Ts) = None
         /\ lines # {} => \E i \in lines :
              LastOf(s, lines, Ts) = log[s][i].ts /\ LastOf(s, lines, Ts) \in Nat
  <1>1. CASE lines = {}
    BY <1>1 DEF LastOf
  <1>2. CASE lines # {}
    <2>1. Max(lines) \in lines
      BY <1>2, LastLine
    <2>2. log[s][Max(lines)] \in Line
      BY <2>1 DEF LoopInv, DataTyped
    <2>3. log[s][Max(lines)].ts \in Nat
      BY <2>2, LineTimes
    <2>4. LastOf(s, lines, Ts) = log[s][Max(lines)].ts
      BY <1>2 DEF LastOf, Ts
    <2>5. QED
      BY <1>2, <2>1, <2>3, <2>4
  <1>3. QED
    BY <1>1, <1>2

\* The times of a session that its log has.
LEMMA TimesOf ==
  ASSUME LoopInv, NEW s \in Session
  PROVE  /\ \A k : /\ Events(s, "turn.start", k) = {} => StartOf(s, k) = None
                   /\ Events(s, "turn.start", k) # {} => StartOf(s, k) \in Nat
                   /\ Events(s, "turn.end", k) = {} => EndOf(s, k) = None
                   /\ Events(s, "turn.end", k) # {} => EndOf(s, k) \in Nat
         /\ Lines(s, "query.start") # {} => AskedAt(s) \in Nat
         /\ Lines(s, "query.end") = {} => AnsweredAt(s) = None
         /\ Lines(s, "query.end") # {} => AnsweredAt(s) \in Nat
  <1>1. \A ev, k : Events(s, ev, k) \subseteq DOMAIN log[s] /\ Lines(s, ev) \subseteq DOMAIN log[s]
    BY DEF Events, Lines
  <1>2. ASSUME NEW k
        PROVE  /\ Events(s, "turn.start", k) = {} => StartOf(s, k) = None
               /\ Events(s, "turn.start", k) # {} => StartOf(s, k) \in Nat
    BY <1>1, LastTime DEF StartOf
  <1>3. ASSUME NEW k
        PROVE  /\ Events(s, "turn.end", k) = {} => EndOf(s, k) = None
               /\ Events(s, "turn.end", k) # {} => EndOf(s, k) \in Nat
    BY <1>1, LastTime DEF EndOf
  <1>4. Lines(s, "query.start") # {} => AskedAt(s) \in Nat
    BY <1>1, LastTime DEF AskedAt
  <1>5. /\ Lines(s, "query.end") = {} => AnsweredAt(s) = None
        /\ Lines(s, "query.end") # {} => AnsweredAt(s) \in Nat
    BY <1>1, LastTime DEF AnsweredAt
  <1>6. QED
    BY <1>2, <1>3, <1>4, <1>5

\* They stay while no such line is added, and are now's when one is the first.
LEMMA TimesKept ==
  ASSUME LoopInv, NEW s \in Session, Grows(s)
  PROVE  /\ \A k : /\ Events(s, "turn.start", k)' = Events(s, "turn.start", k)
                        => StartOf(s, k)' = StartOf(s, k)
                   /\ Events(s, "turn.end", k)' = Events(s, "turn.end", k)
                        => EndOf(s, k)' = EndOf(s, k)
         /\ Lines(s, "query.start")' = Lines(s, "query.start") => AskedAt(s)' = AskedAt(s)
         /\ Lines(s, "query.end")' = Lines(s, "query.end") =>
              AnsweredAt(s)' = AnsweredAt(s) /\ EndToEnd(s)' = EndToEnd(s)
  <1>1. ASSUME NEW lines, lines \subseteq DOMAIN log[s], lines # {}
        PROVE  log'[s][Max(lines)] = log[s][Max(lines)]
    BY <1>1, LastLine DEF Grows
  <1>2. \A ev, k : Events(s, ev, k) \subseteq DOMAIN log[s] /\ Lines(s, ev) \subseteq DOMAIN log[s]
    BY DEF Events, Lines
  <1>3. ASSUME NEW k, Events(s, "turn.start", k)' = Events(s, "turn.start", k)
        PROVE  StartOf(s, k)' = StartOf(s, k)
    BY <1>1, <1>2, <1>3 DEF StartOf, LastOf, Ts
  <1>4. ASSUME NEW k, Events(s, "turn.end", k)' = Events(s, "turn.end", k)
        PROVE  EndOf(s, k)' = EndOf(s, k)
    BY <1>1, <1>2, <1>4 DEF EndOf, LastOf, Ts
  <1>5. ASSUME Lines(s, "query.start")' = Lines(s, "query.start")
        PROVE  AskedAt(s)' = AskedAt(s)
    BY <1>1, <1>2, <1>5 DEF AskedAt, LastOf, Ts
  <1>6. ASSUME Lines(s, "query.end")' = Lines(s, "query.end")
        PROVE  AnsweredAt(s)' = AnsweredAt(s) /\ EndToEnd(s)' = EndToEnd(s)
    BY <1>1, <1>2, <1>6 DEF AnsweredAt, EndToEnd, LastOf, Ts
  <1>7. QED
    BY <1>3, <1>4, <1>5, <1>6

LEMMA TimesNew ==
  ASSUME NEW s \in Session, NEW line, NEW x, Added(s, line, x)
  PROVE  /\ \A k : /\ Events(s, "turn.start", k)' = {x} => StartOf(s, k)' = line.ts
                   /\ Events(s, "turn.end", k)' = {x} => EndOf(s, k)' = line.ts
         /\ Lines(s, "query.start")' = {x} => AskedAt(s)' = line.ts
         /\ Lines(s, "query.end")' = {x} =>
              AnsweredAt(s)' = line.ts /\ EndToEnd(s)' = line.duration
  <1>1. x \in Nat /\ log'[s][x] = line
    BY DEF Added
  <1>2. {x} \subseteq 0..x /\ {x} # {}
    BY <1>1
  <1>3. Max({x}) = x
    BY <1>1, <1>2, MaxIsGreatest
  <1>4. \A k : Events(s, "turn.start", k)' = {x} => StartOf(s, k)' = line.ts
    BY <1>1, <1>3 DEF StartOf, LastOf, Ts
  <1>5. \A k : Events(s, "turn.end", k)' = {x} => EndOf(s, k)' = line.ts
    BY <1>1, <1>3 DEF EndOf, LastOf, Ts
  <1>6. Lines(s, "query.start")' = {x} => AskedAt(s)' = line.ts
    BY <1>1, <1>3 DEF AskedAt, LastOf, Ts
  <1>7. Lines(s, "query.end")' = {x} =>
          AnsweredAt(s)' = line.ts /\ EndToEnd(s)' = line.duration
    BY <1>1, <1>3 DEF AnsweredAt, EndToEnd, LastOf, Ts
  <1>8. QED
    BY <1>4, <1>5, <1>6, <1>7

\* A sum with one more term.
LEMMA SumMore ==
  ASSUME NEW R, IsFiniteSet(R), NEW x, x \notin R, NEW f, NEW g,
         \A r \in R : f[r] \in Int /\ g[r] = f[r], g[x] \in Int
  PROVE  SumOver(R \cup {x}, g) = SumOver(R, f) + g[x]
  <1>1. \A r \in R \cup {x} : g[r] \in Int
    OBVIOUS
  <1>2. SumOver(R \cup {x}, g) = SumOver(R, g) + g[x]
    BY <1>1, SumAdd
  <1>3. SumOver(R, g) = SumOver(R, f)
    BY SumSame
  <1>4. QED
    BY <1>2, <1>3

\* Whole turns have a beginning and an end, gaps an end and the next beginning.
LEMMA Spans ==
  ASSUME LoopInv, NEW s \in Session
  PROVE  /\ \A k : k \in WholeOf(s) <=> /\ k \in Steps /\ Events(s, "turn.start", k) # {}
                                        /\ Events(s, "turn.end", k) # {}
         /\ \A k : k \in GapsOf(s) <=> k \in WholeOf(s) /\ k + 1 \in StepsOf(s)
         /\ IsFiniteSet(WholeOf(s)) /\ IsFiniteSet(GapsOf(s))
         /\ \A k \in WholeOf(s) : EndOf(s, k) - StartOf(s, k) \in Int
         /\ \A k \in GapsOf(s) : Gap(s, k) \in Int
  <1>1. \A k : k \in WholeOf(s) <=> /\ k \in Steps /\ Events(s, "turn.start", k) # {}
                                    /\ Events(s, "turn.end", k) # {}
    <2>1. \A k : EndOf(s, k) # None <=> Events(s, "turn.end", k) # {}
      BY TimesOf DEF None
    <2>2. QED
      BY <2>1 DEF WholeOf, StepsOf
  <1>2. \A k : k \in GapsOf(s) <=> k \in WholeOf(s) /\ k + 1 \in StepsOf(s)
    BY DEF GapsOf
  <1>3. IsFiniteSet(WholeOf(s)) /\ IsFiniteSet(GapsOf(s))
    <2>1. IsFiniteSet(Steps)
      BY Numbers, FS_Interval DEF Steps
    <2>2. WholeOf(s) \subseteq Steps /\ GapsOf(s) \subseteq Steps
      BY <1>1, <1>2
    <2>3. QED
      BY <2>1, <2>2, FS_Subset
  <1>4. \A k \in WholeOf(s) : EndOf(s, k) \in Nat /\ StartOf(s, k) \in Nat
    BY <1>1, TimesOf
  <1>5. \A k \in WholeOf(s) : EndOf(s, k) - StartOf(s, k) \in Int
    BY <1>4
  <1>6. ASSUME NEW k \in GapsOf(s)
        PROVE  Gap(s, k) \in Int
    <2>1. StartOf(s, k + 1) \in Nat
      BY <1>2, TimesOf DEF StepsOf
    <2>2. QED
      BY <1>2, <1>4, <2>1 DEF Gap
  <1>7. QED
    BY <1>1, <1>2, <1>3, <1>5, <1>6

LEMMA SumsTyped ==
  ASSUME LoopInv, NEW s \in Session
  PROVE  BusyOf(s) \in Int /\ InterOf(s) \in Int
  <1> DEFINE busy == [k \in WholeOf(s) |-> EndOf(s, k) - StartOf(s, k)]
             inter == [k \in GapsOf(s) |-> Gap(s, k)]
  <1>1. \A k \in WholeOf(s) : busy[k] \in Int
    BY Spans
  <1>2. \A k \in GapsOf(s) : inter[k] \in Int
    BY Spans
  <1> HIDE DEF busy, inter
  <1>3. SumOver(WholeOf(s), busy) \in Int /\ SumOver(GapsOf(s), inter) \in Int
    BY <1>1, <1>2, Spans, SumInt
  <1>4. QED
    BY <1>3 DEF BusyOf, InterOf, busy, inter

\* What is added up is the same while no turn begins or ends.
LEMMA SumsKept ==
  ASSUME LoopInv, NEW s \in Session, Grows(s),
         \A k : /\ Events(s, "turn.start", k)' = Events(s, "turn.start", k)
                /\ Events(s, "turn.end", k)' = Events(s, "turn.end", k)
  PROVE  BusyOf(s)' = BusyOf(s) /\ InterOf(s)' = InterOf(s) /\ LeadOf(s)' = StartOf(s, 1) - AskedAt(s)'
  <1>1. \A k : StartOf(s, k)' = StartOf(s, k) /\ EndOf(s, k)' = EndOf(s, k)
    BY TimesKept
  <1>2. StepsOf(s)' = StepsOf(s)
    BY DEF StepsOf
  <1>3. WholeOf(s)' = WholeOf(s)
    BY <1>1, <1>2 DEF WholeOf
  <1>4. GapsOf(s)' = GapsOf(s)
    BY <1>2, <1>3 DEF GapsOf
  <1>5. BusyOf(s)' = BusyOf(s)
    BY <1>1, <1>3 DEF BusyOf
  <1>6. InterOf(s)' = InterOf(s)
    BY <1>1, <1>4 DEF InterOf, Gap
  <1>7. LeadOf(s)' = StartOf(s, 1) - AskedAt(s)'
    BY <1>1 DEF LeadOf
  <1>8. QED
    BY <1>5, <1>6, <1>7

\* Steps that neither ask nor answer, and neither begin nor end a turn.
LEMMA CreditedCalm ==
  ASSUME LoopInv, NEW s \in Session, Numbered(s), Credited(s), Grows(s), now' = now,
         \A k : /\ Events(s, "turn.start", k)' = Events(s, "turn.start", k)
                /\ Events(s, "turn.end", k)' = Events(s, "turn.end", k),
         Lines(s, "query.start")' = Lines(s, "query.start"),
         Lines(s, "query.end")' = Lines(s, "query.end"),
         step'[s] = step[s], idle'[s] = idle[s],
         InTurn(s)' => InTurn(s), Looping(s)' => Looping(s),
         phase'[s] # "idle" => phase[s] # "idle" /\ state'[s].start = state[s].start
  PROVE  Numbered(s)' /\ Credited(s)'
  <1>1. /\ \A k : StartOf(s, k)' = StartOf(s, k) /\ EndOf(s, k)' = EndOf(s, k)
        /\ AskedAt(s)' = AskedAt(s) /\ AnsweredAt(s)' = AnsweredAt(s)
        /\ EndToEnd(s)' = EndToEnd(s)
    BY TimesKept
  <1>2. BusyOf(s)' = BusyOf(s) /\ InterOf(s)' = InterOf(s) /\ LeadOf(s)' = LeadOf(s)
    BY <1>1, SumsKept DEF LeadOf
  <1>3. Numbered(s)'
    BY <1>1 DEF Numbered
  <1>4. Credited(s)'
    BY <1>1, <1>2 DEF Credited
  <1>5. QED
    BY <1>3, <1>4

LEMMA CreditedQuiet ==
  ASSUME LoopInv, NEW s \in Session, Numbered(s), Credited(s),
         \/ Resting(s) \/ StepBegins(s) \/ CompactionBegins(s) \/ TextEnds(s)
         \/ StepEnds(s) \/ CompactionEnds(s) \/ StreamFinishes(s)
         \/ StreamBreaks(s) \/ LoopFails(s)
         \/ \E c \in Call : ToolBegins(s, c) \/ \E ok \in BOOLEAN : ToolEnds(s, c, ok)
  PROVE  Numbered(s)' /\ Credited(s)'
  <1> DEFINE Plain == /\ now' = now /\ step'[s] = step[s] /\ idle'[s] = idle[s]
                      /\ InTurn(s)' => InTurn(s)
                      /\ Looping(s)' => Looping(s)
                      /\ phase'[s] # "idle" => phase[s] # "idle" /\ state'[s].start = state[s].start
  <1>1. ASSUME log'[s] = log[s], Plain
        PROVE  Numbered(s)' /\ Credited(s)'
    BY <1>1, RestingLines, CreditedCalm
  <1>2. ASSUME NEW line, Logs(s, line), Plain,
               line.ev \notin {"turn.start", "turn.end", "query.start", "query.end"}
        PROVE  Numbered(s)' /\ Credited(s)'
    <2>1. PICK x : Added(s, line, x)
      BY <1>2, Logged
    <2>2. /\ Grows(s) /\ \A k : /\ Events(s, "turn.start", k)' = Events(s, "turn.start", k)
                                /\ Events(s, "turn.end", k)' = Events(s, "turn.end", k)
          /\ Lines(s, "query.start")' = Lines(s, "query.start")
          /\ Lines(s, "query.end")' = Lines(s, "query.end")
      BY <1>2, <2>1, AddedLines
    <2>3. QED
      BY <1>2, <2>2, CreditedCalm
  <1>3. CASE Resting(s)
    BY <1>1, <1>3 DEF Resting, InTurn, Looping
  <1>4. CASE StepBegins(s) \/ CompactionBegins(s)
    <2> DEFINE line == [ev |-> "llm.start", ts |-> now, step |-> step[s]]
    <2>1. Logs(s, line) /\ Plain
      BY <1>4, StepBegun DEF OthersRest, InTurn, Looping
    <2>2. line.ev = "llm.start"
      OBVIOUS
    <2>3. QED
      BY <1>2, <2>1, <2>2
  <1>5. CASE TextEnds(s)
    BY <1>1, <1>5, TextEnded DEF OthersRest, InTurn, Looping
  <1>6. CASE StepEnds(s) \/ CompactionEnds(s)
    <2>1. Logs(s, LlmEndLine(s)) /\ LlmEndLine(s).ev = "llm.end" /\ Plain
      BY <1>6, StepEnded DEF OthersRest, InTurn, Looping
    <2>2. QED
      BY <1>2, <2>1
  <1>7. CASE StreamFinishes(s)
    <2> DEFINE line == [ev |-> "llm.stream-finish", ts |-> now, step |-> step[s]]
    <2>1. Logs(s, line) /\ Plain
      BY <1>7, StreamFinished DEF OthersRest, InTurn, Looping
    <2>2. line.ev = "llm.stream-finish"
      OBVIOUS
    <2>3. QED
      BY <1>2, <2>1, <2>2
  <1>8. CASE StreamBreaks(s) \/ LoopFails(s)
    BY <1>1, <1>8, Upset DEF OthersRest, InTurn, Looping
  <1>9. ASSUME NEW c \in Call, ToolBegins(s, c)
        PROVE  Numbered(s)' /\ Credited(s)'
    <2>1. Logs(s, ToolStartLine(s, c)) /\ ToolStartLine(s, c).ev = "tool.start" /\ Plain
      BY <1>9, ToolBegun DEF OthersRest, InTurn, Looping
    <2>2. QED
      BY <1>2, <2>1
  <1>10. ASSUME NEW c \in Call, NEW ok \in BOOLEAN, ToolEnds(s, c, ok)
         PROVE  Numbered(s)' /\ Credited(s)'
    <2>1. Logs(s, ToolEndLine(s, c, ok)) /\ ToolEndLine(s, c, ok).ev = "tool.end" /\ Plain
      BY <1>10, ToolEnded DEF OthersRest, InTurn, Looping
    <2>2. QED
      BY <1>2, <2>1
  <1>11. QED
    BY <1>3, <1>4, <1>5, <1>6, <1>7, <1>8, <1>9, <1>10

LEMMA CreditedTicks ==
  ASSUME LoopInv, NEW s \in Session, Numbered(s), Credited(s), OneQuery(s), SequencedInv, Tick
  PROVE  Numbered(s)' /\ Credited(s)'
  <1>1. /\ now \in Nat /\ now' = now + 1 /\ log' = log /\ state' = state /\ phase' = phase
        /\ step' = step /\ idle'[s] = idle[s] + One(Looping(s))
    BY Ticked DEF Looping
  <1>2. Grows(s) /\ \A ev, k : Events(s, ev, k)' = Events(s, ev, k) /\ Lines(s, ev)' = Lines(s, ev)
    BY <1>1, RestingLines
  <1>3. /\ \A k : StartOf(s, k)' = StartOf(s, k) /\ EndOf(s, k)' = EndOf(s, k)
        /\ AskedAt(s)' = AskedAt(s) /\ AnsweredAt(s)' = AnsweredAt(s)
        /\ EndToEnd(s)' = EndToEnd(s)
    BY <1>2, TimesKept
  <1>4. BusyOf(s)' = BusyOf(s) /\ InterOf(s)' = InterOf(s) /\ LeadOf(s)' = LeadOf(s)
    BY <1>2, <1>3, SumsKept DEF LeadOf
  <1>5. Numbered(s)'
    BY <1>1, <1>2, <1>3 DEF Numbered, InTurn, Looping
  <1>6. idle[s] \in Nat /\ BusyOf(s) \in Int /\ InterOf(s) \in Int /\ step[s] \in Nat
    <2>1. idle[s] \in Nat /\ step[s] \in Steps
      BY DEF LoopInv, LoopTyped, DataTyped
    <2>2. QED
      BY <2>1, SumsTyped, Numbers
  <1>7. ASSUME Looping(s)
        PROVE  idle'[s] = IF step[s] = 0 THEN now' - AskedAt(s)
                          ELSE InterOf(s) + LeadOf(s) + now' - EndOf(s, step[s])
    <2>1. log[s] # <<>> /\ log[s][1].ev = "query.start" /\ 1 \in DOMAIN log[s]
      <3>1. log[s] # <<>> /\ log[s][1].ev = "query.start" /\ log[s] \in Seq(Line)
        BY <1>7 DEF Looping, SequencedInv, Sequenced, LoopInv, DataTyped
      <3>2. QED
        BY <3>1
    <2>2. AskedAt(s) \in Nat
      BY <2>1, TimesOf DEF Lines
    <2>3. CASE step[s] = 0
      BY <1>1, <1>6, <1>7, <2>2, <2>3 DEF Credited, One
    <2>4. CASE step[s] > 0
      <3>1. step[s] \in Steps /\ 1 \in Steps
        <4>1. step[s] \in Steps
          BY DEF LoopInv, LoopTyped
        <4>2. QED
          BY <2>4, <4>1, Numbers DEF Steps
      <3>2. /\ Events(s, "turn.end", step[s]) # {}
            /\ 1 <= step[s]
        BY <1>6, <1>7, <2>4 DEF Numbered
      <3>3. EndOf(s, step[s]) \in Nat /\ StartOf(s, 1) \in Nat
        BY <3>1, <3>2, TimesOf DEF Numbered
      <3>4. LeadOf(s) \in Int
        BY <2>2, <3>3 DEF LeadOf
      <3>5. QED
        BY <1>1, <1>6, <1>7, <2>4, <3>3, <3>4 DEF Credited, One
    <2>5. QED
      BY <1>6, <2>3, <2>4
  <1>8. InTurn(s) => ~Looping(s)
    BY DEF InTurn, Looping
  <1>9. Credited(s)'
    <2>1. PICK n, busy, inter, first, asked, answered, end, start :
            /\ n = step[s] /\ busy = BusyOf(s) /\ inter = InterOf(s) /\ first = LeadOf(s)
            /\ asked = AskedAt(s) /\ answered = AnsweredAt(s) /\ end = EndOf(s, n)
            /\ start = StartOf(s, n)
      OBVIOUS
    <2>2. /\ step'[s] = n /\ BusyOf(s)' = busy /\ InterOf(s)' = inter /\ LeadOf(s)' = first
          /\ AskedAt(s)' = asked /\ AnsweredAt(s)' = answered /\ EndOf(s, n)' = end
          /\ StartOf(s, n)' = start
      BY <1>1, <1>3, <1>4, <2>1
    <2>3. n > 0 => busy + inter + first =
            (IF Events(s, "turn.end", n)' = {} THEN start ELSE end) - asked
      BY <1>2, <2>1 DEF Credited
    <2>4. InTurn(s) => idle'[s] = inter + first
      BY <1>1, <1>6, <1>8, <2>1 DEF Credited, One
    <2>5. Lines(s, "query.end") # {} => idle'[s] = idle[s]
      BY <1>1, <1>6 DEF Numbered, Looping, One
    <2>6. Lines(s, "query.end")' # {} =>
            /\ n > 0 /\ Events(s, "turn.end", n)' # {} /\ end <= answered
            /\ idle'[s] = inter + first + answered - end
            /\ EndToEnd(s)' = answered - asked
      BY <1>2, <1>3, <2>1, <2>5 DEF Credited
    <2>7. Looping(s) => idle'[s] = IF n = 0 THEN now' - asked ELSE inter + first + now' - end
      BY <1>7, <2>1
    <2>8. (InTurn(s)' <=> InTurn(s)) /\ (Looping(s)' <=> Looping(s))
      BY <1>1 DEF InTurn, Looping
    <2>9. QED
      BY <2>2, <2>3, <2>4, <2>6, <2>7, <2>8 DEF Credited
  <1>10. QED
    BY <1>5, <1>9

LEMMA CreditedAsked ==
  ASSUME LoopInv, SequencedInv, NEW s \in Session, QueryBegins(s), OneQuery(s)'
  PROVE  Numbered(s)' /\ Credited(s)'
  <1> DEFINE line == QueryStartLine(s)
  <1>1. /\ Logs(s, line) /\ line.ev = "query.start" /\ line.ts = now /\ now' = now
        /\ phase'[s] = "loop" /\ step'[s] = 0 /\ idle'[s] = 0 /\ state'[s].start = now
    BY QueryBegun DEF OthersRest
  <1> HIDE DEF line
  <1>2. PICK x : Added(s, line, x)
    BY <1>1, Logged
  <1>3. /\ \A k : Events(s, "turn.start", k)' = {} /\ Events(s, "turn.end", k)' = {}
        /\ Lines(s, "query.end")' = {} /\ Lines(s, "query.start")' = {x}
    BY <1>1, <1>2, AddedLines, FirstAsked
  <1>4. AskedAt(s)' = now
    BY <1>1, <1>2, <1>3, TimesNew
  <1>5. \A k \in Steps : ~(0 < k /\ k <= 0)
    BY Numbers
  <1>6. \A k \in Steps : ~(0 < k /\ k < 0)
    BY Numbers
  <1>7. Numbered(s)'
    BY <1>1, <1>3, <1>4, <1>5, <1>6 DEF Numbered, InTurn
  <1>8. now \in Nat /\ now - now = 0
    BY Marks DEF LoopInv, LoopTyped
  <1>9. Credited(s)'
    BY <1>1, <1>3, <1>4, <1>8 DEF Credited, InTurn
  <1>10. QED
    BY <1>7, <1>9

\* A turn begins where the gap after the earlier one, or after the question, ends.
LEMMA CreditedTurns ==
  ASSUME LoopInv, NEW s \in Session, Numbered(s), Credited(s), OneQuery(s), SequencedInv,
         TurnBegins(s)
  PROVE  Numbered(s)' /\ Credited(s)'
  <1>1. PICK n, k : n = step[s] /\ k = n + 1
    OBVIOUS
  <1> DEFINE line == TurnStartLine(s, k)
  <1>2. /\ Logs(s, line) /\ line.ev = "turn.start" /\ line.step = k /\ line.ts = now
        /\ k \in Steps /\ state'[s].start = state[s].start /\ now' = now
        /\ phase[s] = "loop" /\ phase'[s] = "turn" /\ step'[s] = k /\ idle'[s] = idle[s]
    BY <1>1, TurnBegun DEF OthersRest
  <1> HIDE DEF line
  <1>3. PICK x : Added(s, line, x)
    BY <1>2, Logged
  <1>4. /\ Grows(s) /\ Lines(s, "query.start")' = Lines(s, "query.start")
        /\ Lines(s, "query.end")' = Lines(s, "query.end")
        /\ \A l : Events(s, "turn.end", l)' = Events(s, "turn.end", l)
        /\ \A l : l # k => Events(s, "turn.start", l)' = Events(s, "turn.start", l)
        /\ Events(s, "turn.start", k)' = Events(s, "turn.start", k) \cup {x}
    BY <1>2, <1>3, AddedLines
  <1>5. /\ n \in Nat /\ n \in Steps /\ now \in Nat /\ k \in Nat /\ k > n /\ idle[s] \in Nat
        /\ \A l \in Steps : l \in Nat
    <2>1. n \in Steps /\ now \in Nat /\ idle[s] \in Nat
      BY <1>1, Marks DEF LoopInv, LoopTyped, DataTyped
    <2>2. QED
      BY <1>1, <2>1, Numbers
  <1>6. Events(s, "turn.start", k) = {} /\ Events(s, "turn.end", k) = {}
    BY <1>1, <1>2, <1>5 DEF Numbered
  <1>7. Events(s, "turn.start", k)' = {x}
    BY <1>4, <1>6
  <1>8. /\ StartOf(s, k)' = now /\ \A l : l # k => StartOf(s, l)' = StartOf(s, l)
        /\ \A l : EndOf(s, l)' = EndOf(s, l)
        /\ AskedAt(s)' = AskedAt(s)
    BY <1>2, <1>3, <1>4, <1>7, TimesKept, TimesNew
  <1>9. Lines(s, "query.end") = {} /\ state[s].start = AskedAt(s)
    BY <1>2 DEF Numbered
  <1>10. Numbered(s)'
    <2>1. ASSUME NEW l \in Steps
          PROVE  /\ Events(s, "turn.start", l)' # {} <=> 0 < l /\ l <= k
                 /\ Events(s, "turn.end", l)' # {} => 0 < l /\ l <= k
                 /\ 0 < l /\ l < k => Events(s, "turn.end", l)' # {}
      <3>1. CASE l = k
        <4>1. 0 < l /\ l <= k /\ ~(l < k)
          BY <1>1, <1>5, <3>1
        <4>2. Events(s, "turn.start", l)' # {}
          BY <1>7, <3>1
        <4>3. QED
          BY <4>1, <4>2
      <3>2. CASE l # k
        <4>1. l \in Nat /\ (l <= k <=> l <= n) /\ (l < k <=> l <= n)
          <5>1. l \in Nat
            BY <1>5
          <5>2. QED
            BY <1>1, <1>5, <3>2, <5>1
        <4>2. 0 < l /\ l <= n => Events(s, "turn.end", l) # {}
          BY <1>1, <1>2, <1>5, <4>1 DEF Numbered, Looping
        <4>3. QED
          BY <1>1, <1>4, <3>2, <4>1, <4>2 DEF Numbered
      <3>3. QED
        BY <3>1, <3>2
    <2>2. Events(s, "turn.end", k)' = {}
      BY <1>4, <1>6
    <2>3. QED
      BY <1>2, <1>4, <1>8, <1>9, <2>1, <2>2 DEF Numbered, InTurn, Looping
  <1>11. AskedAt(s) \in Nat
    <2>1. log[s] # <<>> /\ log[s][1].ev = "query.start" /\ log[s] \in Seq(Line)
      BY <1>2 DEF SequencedInv, Sequenced, LoopInv, DataTyped
    <2>2. 1 \in DOMAIN log[s]
      BY <2>1
    <2>3. QED
      BY <2>1, <2>2, TimesOf DEF Lines
  <1>12. WholeOf(s)' = WholeOf(s) /\ BusyOf(s)' = BusyOf(s)
    <2>1. StepsOf(s)' = StepsOf(s) \cup {k}
      BY <1>2, <1>4, <1>7 DEF StepsOf
    <2>2. EndOf(s, k) = None
      BY <1>6, TimesOf
    <2>3. WholeOf(s)' = WholeOf(s)
      BY <1>8, <2>1, <2>2 DEF WholeOf
    <2>4. k \notin WholeOf(s)
      BY <1>6, Spans
    <2>5. QED
      BY <1>8, <2>3, <2>4 DEF BusyOf
  <1>13. CASE n = 0
    <2>1. \A l \in Steps : Events(s, "turn.start", l) = {}
      BY <1>1, <1>5, <1>13 DEF Numbered
    <2>2. WholeOf(s) = {} /\ GapsOf(s) = {} /\ GapsOf(s)' = {}
      BY <1>12, <2>1 DEF WholeOf, GapsOf, StepsOf
    <2>3. BusyOf(s) = 0 /\ InterOf(s)' = 0
      BY <2>2, SumEmpty DEF BusyOf, InterOf
    <2>4. LeadOf(s)' = now - AskedAt(s) /\ k = 1
      BY <1>1, <1>8, <1>13 DEF LeadOf
    <2>5. idle[s] = now - AskedAt(s)
      BY <1>1, <1>2, <1>13 DEF Credited, Looping
    <2>6. InterOf(s)' + LeadOf(s)' = idle[s]
      BY <1>5, <1>11, <2>3, <2>4, <2>5
    <2>7. BusyOf(s)' + InterOf(s)' + LeadOf(s)' = now - AskedAt(s)
      BY <1>5, <1>11, <1>12, <2>3, <2>4
    <2>8. QED
      BY <1>2, <1>4, <1>6, <1>8, <1>9, <1>10, <2>6, <2>7 DEF Credited, InTurn, Looping
  <1>14. CASE n > 0
    <2>1. PICK G, f, from, inter, busy, first, asked :
            /\ G = GapsOf(s) /\ f = [l \in G |-> Gap(s, l)] /\ from = EndOf(s, n)
            /\ inter = InterOf(s) /\ busy = BusyOf(s) /\ first = LeadOf(s) /\ asked = AskedAt(s)
      OBVIOUS
    <2>2. /\ Events(s, "turn.start", n) # {} /\ Events(s, "turn.end", n) # {}
          /\ Events(s, "turn.start", 1) # {} /\ 1 # k
      <3>1. 1 \in Steps /\ 1 <= n /\ 1 # k
        BY <1>1, <1>5, <1>14, Numbers DEF Steps
      <3>2. QED
        BY <1>1, <1>2, <1>5, <1>14, <3>1 DEF Numbered, Looping
    <2>3. from \in Nat /\ asked \in Nat /\ StartOf(s, 1) \in Nat
      BY <1>11, <2>1, <2>2, TimesOf
    <2>4. first \in Int /\ LeadOf(s)' = first
      BY <1>8, <2>1, <2>2, <2>3 DEF LeadOf
    <2>5. n \in WholeOf(s) /\ k \notin StepsOf(s) /\ n \notin G
      <3>1. n \in WholeOf(s)
        BY <1>5, <2>2, Spans
      <3>2. k \notin StepsOf(s)
        BY <1>6 DEF StepsOf
      <3>3. QED
        BY <1>1, <2>1, <3>1, <3>2 DEF GapsOf
    <2>6. \A l \in G : f[l] = Gap(s, l) /\ f[l] \in Int /\ l + 1 # k
      BY <2>1, <2>5, Spans
    <2>7. GapsOf(s)' = G \cup {n}
      <3>1. StepsOf(s)' = StepsOf(s) \cup {k}
        BY <1>2, <1>4, <1>7 DEF StepsOf
      <3>2. ASSUME NEW l \in WholeOf(s)
            PROVE  l + 1 = k <=> l = n
        <4>1. l \in Nat
          BY <1>5, Spans
        <4>2. QED
          BY <1>1, <1>5, <4>1
      <3>3. QED
        BY <1>12, <2>1, <2>5, <3>1, <3>2 DEF GapsOf
    <2>8. PICK g : g = [l \in G \cup {n} |-> IF l = n THEN now - from ELSE f[l]]
      OBVIOUS
    <2>9. \A l \in G \cup {n} : Gap(s, l)' = g[l]
      <3>1. Gap(s, n)' = now - from
        BY <1>1, <1>8, <2>1 DEF Gap
      <3>2. ASSUME NEW l \in G
            PROVE  Gap(s, l)' = f[l]
        BY <1>8, <2>6 DEF Gap
      <3>3. QED
        BY <2>8, <3>1, <3>2
    <2>10. InterOf(s)' = SumOver(G \cup {n}, g)
      <3>1. [l \in GapsOf(s) |-> Gap(s, l)]' = g
        BY <2>7, <2>8, <2>9
      <3>2. QED
        BY <2>7, <3>1 DEF InterOf
    <2>11. SumOver(G \cup {n}, g) = SumOver(G, f) + (now - from)
      <3>1. IsFiniteSet(G)
        BY <2>1, Spans
      <3>2. \A l \in G : f[l] \in Int /\ g[l] = f[l]
        BY <2>5, <2>6, <2>8
      <3>3. g[n] = now - from /\ g[n] \in Int
        BY <1>5, <2>3, <2>8
      <3>4. SumOver(G \cup {n}, g) = SumOver(G, f) + g[n]
        BY <2>5, <3>1, <3>2, <3>3, SumMore
      <3>5. QED
        BY <3>3, <3>4
    <2>12. InterOf(s)' = inter + (now - from) /\ inter \in Int /\ busy \in Int
      BY <2>1, <2>10, <2>11, SumsTyped DEF InterOf
    <2>13. busy + inter + first = from - asked /\ idle[s] = inter + first + now - from
      BY <1>1, <1>2, <1>14, <2>1, <2>2 DEF Credited, Looping
    <2>14. InterOf(s)' + LeadOf(s)' = idle[s]
      BY <1>5, <2>3, <2>4, <2>12, <2>13
    <2>15. BusyOf(s)' + InterOf(s)' + LeadOf(s)' = now - AskedAt(s)
      BY <1>5, <1>12, <2>1, <2>3, <2>4, <2>12, <2>13
    <2>16. QED
      BY <1>2, <1>4, <1>6, <1>8, <1>9, <1>10, <2>14, <2>15 DEF Credited, InTurn, Looping
  <1>15. QED
    BY <1>5, <1>13, <1>14

\* A turn that ends is whole, and the gap after it begins.
LEMMA CreditedTurnEnds ==
  ASSUME LoopInv, NEW s \in Session, Numbered(s), Credited(s), OneQuery(s), SequencedInv,
         TurnEnds(s)
  PROVE  Numbered(s)' /\ Credited(s)'
  <1>1. PICK n : n = step[s]
    OBVIOUS
  <1> DEFINE line == TurnEndLine(s, n)
  <1>2. /\ Logs(s, line) /\ line.ev = "turn.end" /\ line.step = n /\ line.ts = now
        /\ n \in Steps /\ n > 0 /\ state'[s].start = state[s].start /\ now' = now
        /\ phase[s] = "settle" /\ phase'[s] = "loop" /\ step'[s] = n /\ idle'[s] = idle[s]
    BY <1>1, TurnEnded DEF OthersRest
  <1> HIDE DEF line
  <1>3. PICK x : Added(s, line, x)
    BY <1>2, Logged
  <1>4. /\ Grows(s) /\ Lines(s, "query.start")' = Lines(s, "query.start")
        /\ Lines(s, "query.end")' = Lines(s, "query.end")
        /\ \A l : Events(s, "turn.start", l)' = Events(s, "turn.start", l)
        /\ \A l : l # n => Events(s, "turn.end", l)' = Events(s, "turn.end", l)
        /\ Events(s, "turn.end", n)' = Events(s, "turn.end", n) \cup {x}
    BY <1>2, <1>3, AddedLines
  <1>5. n \in Nat /\ now \in Nat /\ idle[s] \in Nat /\ \A l \in Steps : l \in Nat
    <2>1. n \in Steps /\ now \in Nat /\ idle[s] \in Nat
      BY <1>2, Marks DEF LoopInv, LoopTyped, DataTyped
    <2>2. QED
      BY <2>1, Numbers
  <1>6. Events(s, "turn.end", n) = {} /\ Events(s, "turn.start", n) # {}
    BY <1>1, <1>2, <1>5 DEF Numbered, InTurn
  <1>7. Events(s, "turn.end", n)' = {x}
    BY <1>4, <1>6
  <1>8. /\ EndOf(s, n)' = now /\ \A l : l # n => EndOf(s, l)' = EndOf(s, l)
        /\ \A l : StartOf(s, l)' = StartOf(s, l)
        /\ AskedAt(s)' = AskedAt(s)
    BY <1>2, <1>3, <1>4, <1>7, TimesKept, TimesNew
  <1>9. Lines(s, "query.end") = {} /\ state[s].start = AskedAt(s)
    BY <1>2 DEF Numbered
  <1>10. Numbered(s)'
    <2>1. ASSUME NEW l \in Steps
          PROVE  /\ Events(s, "turn.start", l)' # {} <=> 0 < l /\ l <= n
                 /\ Events(s, "turn.end", l)' # {} => 0 < l /\ l <= n
                 /\ 0 < l /\ l < n => Events(s, "turn.end", l)' # {}
      <3>1. CASE l = n
        <4>1. 0 < l /\ l <= n /\ ~(l < n)
          BY <1>2, <1>5, <3>1
        <4>2. QED
          BY <1>4, <1>6, <3>1, <4>1
      <3>2. CASE l # n
        BY <1>1, <1>4, <3>2 DEF Numbered
      <3>3. QED
        BY <3>1, <3>2
    <2>2. QED
      BY <1>2, <1>4, <1>7, <1>8, <1>9, <2>1 DEF Numbered, InTurn, Looping
  <1>11. AskedAt(s) \in Nat
    <2>1. log[s] # <<>> /\ log[s][1].ev = "query.start" /\ log[s] \in Seq(Line)
      BY <1>2 DEF SequencedInv, Sequenced, LoopInv, DataTyped
    <2>2. 1 \in DOMAIN log[s]
      BY <2>1
    <2>3. QED
      BY <2>1, <2>2, TimesOf DEF Lines
  <1>12. PICK W, f, from, inter, busy, first, asked :
           /\ W = WholeOf(s) /\ f = [l \in W |-> EndOf(s, l) - StartOf(s, l)]
           /\ from = StartOf(s, n) /\ inter = InterOf(s) /\ busy = BusyOf(s)
           /\ first = LeadOf(s) /\ asked = AskedAt(s)
    OBVIOUS
  <1>13. /\ from \in Nat /\ asked \in Nat /\ first \in Int /\ inter \in Int /\ busy \in Int
         /\ LeadOf(s)' = first
    <2>1. 1 \in Steps /\ 1 <= n
      BY <1>2, <1>5, Numbers DEF Steps
    <2>2. Events(s, "turn.start", 1) # {}
      BY <1>1, <2>1 DEF Numbered
    <2>3. StartOf(s, 1) \in Nat /\ StartOf(s, n) \in Nat
      BY <1>6, <2>2, TimesOf
    <2>4. QED
      BY <1>8, <1>11, <1>12, <2>3, SumsTyped DEF LeadOf
  <1>14. StepsOf(s)' = StepsOf(s) /\ n \in StepsOf(s) /\ n + 1 \notin StepsOf(s)
    <2>1. n + 1 \in Steps => Events(s, "turn.start", n + 1) = {}
      BY <1>1, <1>5 DEF Numbered
    <2>2. QED
      BY <1>2, <1>4, <1>6, <2>1 DEF StepsOf
  <1>15. WholeOf(s)' = W \cup {n} /\ n \notin W
    <2>1. n \notin W
      BY <1>6, <1>12, Spans
    <2>2. EndOf(s, n)' # None
      BY <1>5, <1>8 DEF None
    <2>3. QED
      BY <1>8, <1>12, <1>14, <2>1, <2>2 DEF WholeOf
  <1>16. InterOf(s)' = inter
    <2>1. GapsOf(s)' = GapsOf(s)
      BY <1>12, <1>14, <1>15 DEF GapsOf
    <2>2. n \notin GapsOf(s)
      BY <1>14 DEF GapsOf
    <2>3. \A l \in GapsOf(s) : Gap(s, l)' = Gap(s, l)
      BY <1>8, <2>2 DEF Gap
    <2>4. QED
      BY <1>12, <2>1, <2>3 DEF InterOf
  <1>17. BusyOf(s)' = busy + (now - from)
    <2>1. PICK g : g = [l \in W \cup {n} |-> IF l = n THEN now - from ELSE f[l]]
      OBVIOUS
    <2>2. \A l \in W \cup {n} : EndOf(s, l)' - StartOf(s, l)' = g[l]
      <3>1. EndOf(s, n)' - StartOf(s, n)' = now - from
        BY <1>8, <1>12
      <3>2. ASSUME NEW l \in W
            PROVE  EndOf(s, l)' - StartOf(s, l)' = f[l] /\ l # n
        BY <1>8, <1>12, <1>15
      <3>3. QED
        BY <2>1, <3>1, <3>2
    <2>3. [l \in WholeOf(s) |-> EndOf(s, l) - StartOf(s, l)]' = g
      BY <1>15, <2>1, <2>2
    <2>4. BusyOf(s)' = SumOver(W \cup {n}, g)
      BY <1>15, <2>3 DEF BusyOf
    <2>5. \A l \in W : f[l] \in Int /\ g[l] = f[l]
      BY <1>12, <1>15, <2>1, Spans
    <2>6. g[n] = now - from /\ g[n] \in Int
      BY <1>5, <1>13, <2>1
    <2>7. IsFiniteSet(W) /\ n \notin W
      BY <1>12, <1>15, Spans
    <2>8. SumOver(W \cup {n}, g) = SumOver(W, f) + g[n]
      <3>1. \A l \in W \cup {n} : g[l] \in Int
        BY <2>5, <2>6
      <3>2. SumOver(W \cup {n}, g) = SumOver(W, g) + g[n]
        BY <2>7, <3>1, SumAdd
      <3>3. SumOver(W, g) = SumOver(W, f)
        BY <2>5, <2>7, SumSame
      <3>4. QED
        BY <3>2, <3>3
    <2>9. SumOver(W, f) = busy
      BY <1>12 DEF BusyOf
    <2>10. QED
      BY <2>4, <2>6, <2>8, <2>9
  <1>18. busy + inter + first = from - asked /\ idle[s] = inter + first
    BY <1>1, <1>2, <1>6, <1>12 DEF Credited, InTurn
  <1>19. BusyOf(s)' + InterOf(s)' + LeadOf(s)' = EndOf(s, n)' - AskedAt(s)'
    BY <1>5, <1>8, <1>12, <1>13, <1>16, <1>17, <1>18
  <1>20. idle'[s] = InterOf(s)' + LeadOf(s)' + now' - EndOf(s, n)'
    BY <1>2, <1>5, <1>8, <1>13, <1>16, <1>18
  <1>21. n # 0
    BY <1>2, <1>5
  <1>22. Credited(s)'
    BY <1>2, <1>4, <1>7, <1>9, <1>19, <1>20, <1>21 DEF Credited, InTurn, Looping
  <1>23. QED
    BY <1>10, <1>22

LEMMA CreditedAnswers ==
  ASSUME LoopInv, NEW s \in Session, Numbered(s), Credited(s), OneQuery(s), SequencedInv,
         QueryEnds(s)
  PROVE  Numbered(s)' /\ Credited(s)'
  <1>1. PICK n : n = step[s]
    OBVIOUS
  <1> DEFINE line == QueryEndLine(s)
  <1>2. /\ Logs(s, line) /\ line.ev = "query.end" /\ line.ts = now
        /\ line.duration = now - state[s].start /\ now' = now
        /\ phase[s] = "loop" /\ phase'[s] = "idle" /\ n > 0 /\ step'[s] = n /\ idle'[s] = idle[s]
    BY <1>1, QueryEnded DEF OthersRest
  <1> HIDE DEF line
  <1>3. PICK x : Added(s, line, x)
    BY <1>2, Logged
  <1>4. /\ Grows(s) /\ Lines(s, "query.start")' = Lines(s, "query.start")
        /\ Lines(s, "query.end")' = Lines(s, "query.end") \cup {x}
        /\ \A l : Events(s, "turn.end", l)' = Events(s, "turn.end", l)
        /\ \A l : Events(s, "turn.start", l)' = Events(s, "turn.start", l)
    BY <1>2, <1>3, AddedLines
  <1>5. Lines(s, "query.end")' = {x} /\ state[s].start = AskedAt(s)
    BY <1>2, <1>4 DEF Numbered
  <1>6. /\ \A l : EndOf(s, l)' = EndOf(s, l) /\ StartOf(s, l)' = StartOf(s, l)
        /\ AskedAt(s)' = AskedAt(s) /\ AnsweredAt(s)' = now
        /\ EndToEnd(s)' = now - AskedAt(s)
    BY <1>2, <1>3, <1>4, <1>5, TimesKept, TimesNew
  <1>7. BusyOf(s)' = BusyOf(s) /\ InterOf(s)' = InterOf(s) /\ LeadOf(s)' = LeadOf(s)
    BY <1>4, <1>6, SumsKept DEF LeadOf
  <1>8. n \in Nat /\ n # 0 /\ now \in Nat
    <2>1. n \in Steps /\ now \in Nat
      BY <1>1, Marks DEF LoopInv, LoopTyped
    <2>2. QED
      BY <1>2, <2>1, Numbers
  <1>9. Numbered(s)'
    BY <1>1, <1>2, <1>4 DEF Numbered, InTurn, Looping
  <1>10. Events(s, "turn.end", n) # {} /\ idle[s] = InterOf(s) + LeadOf(s) + now - EndOf(s, n)
    BY <1>1, <1>2, <1>8 DEF Numbered, Credited, Looping
  <1>11. EndOf(s, n) <= now
    <2>1. Events(s, "turn.end", n) \subseteq DOMAIN log[s]
      BY DEF Events, Lines
    <2>2. PICK i \in DOMAIN log[s] : EndOf(s, n) = log[s][i].ts
      BY <1>10, <2>1, LastTime DEF EndOf
    <2>3. QED
      BY <2>2 DEF SequencedInv, Sequenced
  <1>12. Credited(s)'
    <2>1. n > 0 => BusyOf(s)' + InterOf(s)' + LeadOf(s)' =
            (IF Events(s, "turn.end", n)' = {} THEN StartOf(s, n)' ELSE EndOf(s, n)') - AskedAt(s)'
      BY <1>1, <1>4, <1>6, <1>7 DEF Credited
    <2>2. idle'[s] = InterOf(s)' + LeadOf(s)' + AnsweredAt(s)' - EndOf(s, n)'
      BY <1>2, <1>6, <1>7, <1>10
    <2>3. EndToEnd(s)' = AnsweredAt(s)' - AskedAt(s)' /\ EndOf(s, n)' <= AnsweredAt(s)'
      BY <1>6, <1>11
    <2>4. QED
      BY <1>2, <1>4, <1>10, <2>1, <2>2, <2>3 DEF Credited, InTurn, Looping
  <1>13. QED
    BY <1>9, <1>12

LEMMA CreditedKeeps ==
  ASSUME LoopInv, SequencedInv, CreditedInv, [Next]_vars, NEW s \in Session, OneQuery(s)'
  PROVE  Numbered(s)' /\ Credited(s)'
  <1>1. Moved(s)
    BY Moves
  <1>2. OneQuery(s)
    <2>1. Lines(s, "query.start") \subseteq Lines(s, "query.start")'
      BY LogGrows DEF Grows, Lines
    <2>2. QED
      BY <2>1 DEF OneQuery
  <1>3. Numbered(s) /\ Credited(s)
    BY <1>2 DEF CreditedInv
  <1>4. CASE Tick
    BY <1>2, <1>3, <1>4, CreditedTicks
  <1>5. CASE QueryBegins(s)
    BY <1>5, CreditedAsked
  <1>6. CASE TurnBegins(s)
    BY <1>2, <1>3, <1>6, CreditedTurns
  <1>7. CASE TurnEnds(s)
    BY <1>2, <1>3, <1>7, CreditedTurnEnds
  <1>8. CASE QueryEnds(s)
    BY <1>2, <1>3, <1>8, CreditedAnswers
  <1>9. CASE \/ Resting(s) \/ StepBegins(s) \/ CompactionBegins(s) \/ TextEnds(s)
             \/ StepEnds(s) \/ CompactionEnds(s) \/ StreamFinishes(s)
             \/ StreamBreaks(s) \/ LoopFails(s)
             \/ \E c \in Call : ToolBegins(s, c) \/ \E ok \in BOOLEAN : ToolEnds(s, c, ok)
    BY <1>3, <1>9, CreditedQuiet
  <1>10. QED
    BY <1>1, <1>4, <1>5, <1>6, <1>7, <1>8, <1>9 DEF Moved

LEMMA CreditedInvariant == Spec => []CreditedInv
  <1>1. Init => CreditedInv
    <2>1. SUFFICES ASSUME Init, NEW s \in Session
                   PROVE  Numbered(s) /\ Credited(s)
      BY DEF CreditedInv
    <2>2. /\ log[s] = <<>> /\ phase[s] = "idle" /\ step[s] = 0
      BY <2>1 DEF Init
    <2>3. \A ev, k : Events(s, ev, k) = {} /\ Lines(s, ev) = {}
      BY <2>2 DEF Events, Lines
    <2>4. \A k \in Steps : ~(0 < k /\ k <= 0) /\ ~(0 < k /\ k < 0)
      BY Numbers
    <2>5. QED
      BY <2>2, <2>3, <2>4 DEF Numbered, Credited, InTurn, Looping
  <1>2. LoopInv /\ SequencedInv /\ CreditedInv /\ [Next]_vars => CreditedInv'
    BY CreditedKeeps DEF CreditedInv
  <1>3. QED
    BY <1>1, <1>2, LoopInvariant, SequencedInvariant, PTL DEF Spec

\* Calls begin in their session, and those that run a child end when it is done.
LEMMA CallsMove ==
  ASSUME LoopInv, [Next]_vars, NEW p \in Session
  PROVE  \/ running'[p] = running[p]
         \/ \E c \in Call : Of[c] = p /\ running'[p] = running[p] \cup {c}
         \/ \E c \in Call : /\ running'[p] = running[p] \ {c}
                            /\ c \in Tasked => phase[Child[c]] = "idle"
  <1>1. Moved(p)
    BY Moves
  <1>2. CASE Tick
    BY <1>2, Ticked
  <1>3. CASE Resting(p)
    BY <1>3 DEF Resting
  <1>4. CASE QueryBegins(p)
    BY <1>4, QueryBegun
  <1>5. CASE TurnBegins(p)
    BY <1>5, TurnBegun
  <1>6. CASE StepBegins(p) \/ CompactionBegins(p)
    BY <1>6, StepBegun
  <1>7. CASE TextEnds(p)
    BY <1>7, TextEnded
  <1>8. CASE StepEnds(p) \/ CompactionEnds(p)
    BY <1>8, StepEnded
  <1>9. CASE StreamFinishes(p)
    BY <1>9, StreamFinished
  <1>10. CASE TurnEnds(p)
    BY <1>10, TurnEnded
  <1>11. CASE QueryEnds(p)
    BY <1>11, QueryEnded
  <1>12. CASE StreamBreaks(p) \/ LoopFails(p)
    BY <1>12, Upset
  <1>13. ASSUME NEW c \in Call, ToolBegins(p, c)
         PROVE  Of[c] = p /\ running'[p] = running[p] \cup {c}
    BY <1>13, ToolBegun
  <1>14. ASSUME NEW c \in Call, NEW ok \in BOOLEAN, ToolEnds(p, c, ok)
         PROVE  running'[p] = running[p] \ {c} /\ (c \in Tasked => phase[Child[c]] = "idle")
    <2>1. running'[p] = running[p] \ {c}
      BY <1>14, ToolEnded
    <2>2. QED
      BY <1>14, <2>1 DEF ToolEnds
  <1>15. QED
    BY <1>1, <1>2, <1>3, <1>4, <1>5, <1>6, <1>7, <1>8, <1>9, <1>10, <1>11, <1>12, <1>13, <1>14
       DEF Moved

\* Whatever a child does, it does for a call under way.
LEMMA Stirs ==
  ASSUME LoopInv, CalledInv, [Next]_vars, NEW ch \in Session \ {Main},
         log'[ch] # log[ch] \/ phase'[ch] # "idle"
  PROVE  Called(ch) /\ (phase[ch] = "idle" => running' = running)
  <1>1. CASE phase[ch] # "idle"
    BY <1>1 DEF CalledInv
  <1>2. CASE phase[ch] = "idle"
    <2>1. Moved(ch) /\ InTurn(ch) = FALSE /\ running[ch] = {}
      BY <1>2, Moves DEF InTurn, LoopInv, Attuned
    <2>2. Tick => log' = log /\ phase' = phase
      BY Ticked
    <2>3. Resting(ch) => log'[ch] = log[ch] /\ phase'[ch] = phase[ch]
      BY DEF Resting
    <2>4. ~(StreamBreaks(ch) \/ LoopFails(ch))
      BY <1>2 DEF StreamBreaks, LoopFails
    <2>5. ~TurnBegins(ch) /\ ~StepBegins(ch) /\ ~CompactionBegins(ch) /\ ~TextEnds(ch)
      BY <1>2 DEF TurnBegins, StepBegins, CompactionBegins, TextEnds
    <2>6. ~StepEnds(ch) /\ ~CompactionEnds(ch) /\ ~StreamFinishes(ch) /\ ~TurnEnds(ch)
      BY <1>2 DEF StepEnds, CompactionEnds, StreamFinishes, TurnEnds
    <2>7. ~QueryEnds(ch) /\ \A c \in Call : ~ToolBegins(ch, c) /\ \A ok \in BOOLEAN : ~ToolEnds(ch, c, ok)
      BY <1>2, <2>1 DEF QueryEnds, ToolBegins, ToolEnds
    <2>8. QueryBegins(ch)
      BY <1>2, <2>1, <2>2, <2>3, <2>4, <2>5, <2>6, <2>7 DEF Moved
    <2>9. PICK p \in Session : \E c \in running[p] \cap Tasked : Child[c] = ch
      BY <2>8 DEF QueryBegins
    <2>10. PICK c \in running[p] \cap Tasked : Child[c] = ch
      BY <2>9
    <2>11. Of[c] = p
      BY <2>10 DEF CalledInv
    <2>12. running' = running
      BY <2>8 DEF QueryBegins
    <2>13. QED
      BY <2>10, <2>11, <2>12 DEF Called, Calls
  <1>3. QED
    BY <1>1, <1>2

LEMMA CalledInvariant == Spec => []CalledInv
  <1>1. Init => CalledInv
    BY DEF Init, CalledInv
  <1>2. ASSUME LoopInv, CalledInv, [Next]_vars
        PROVE  CalledInv'
    <2>1. ASSUME NEW s \in Session, NEW c \in running'[s]
          PROVE  Of[c] = s
      BY <1>2, <2>1, CallsMove DEF CalledInv
    <2>2. ASSUME NEW ch \in Session \ {Main}, phase'[ch] # "idle"
          PROVE  Called(ch)'
      <3>1. Called(ch)
        BY <1>2, <2>2, Stirs
      <3>2. PICK c \in Calls(ch) : c \in running[Of[c]]
        BY <3>1 DEF Called
      <3>3. c \in Tasked /\ Child[c] = ch /\ c \in Call /\ Of[c] \in Session
        BY <3>2, ProfileAssumption DEF Calls
      <3>4. CASE phase[ch] = "idle"
        <4>1. running' = running
          BY <1>2, <2>2, <3>4, Stirs
        <4>2. QED
          BY <3>2, <4>1 DEF Called, Calls
      <3>5. CASE phase[ch] # "idle"
        <4>1. c \in running'[Of[c]]
          BY <1>2, <3>2, <3>3, <3>5, CallsMove
        <4>2. QED
          BY <3>2, <4>1 DEF Called, Calls
      <3>6. QED
        BY <3>4, <3>5
    <2>3. QED
      BY <2>1, <2>2 DEF CalledInv
  <1>3. QED
    BY <1>1, <1>2, LoopInvariant, PTL DEF Spec

LEMMA HousedKeeps ==
  ASSUME LoopInv, SequencedInv, CreditedInv, CalledInv, HousedInv, [Next]_vars,
         NEW s \in Session, OneQuery(s)'
  PROVE  Housed(s)'
  <1>1. OneQuery(s)
    <2>1. Lines(s, "query.start") \subseteq Lines(s, "query.start")'
      BY LogGrows DEF Grows, Lines
    <2>2. QED
      BY <2>1 DEF OneQuery
  <1>2. Housed(s) /\ Numbered(s)
    BY <1>1 DEF HousedInv, CreditedInv
  <1>3. SUFFICES ASSUME NEW ch \in Session \ {s}, Calls(ch) # {}, \A c \in Calls(ch) : Of[c] = s,
                        NEW i \in DOMAIN log'[ch]
                 PROVE  /\ Lines(s, "query.start")' # {} /\ AskedAt(s)' <= log'[ch][i].ts
                        /\ Lines(s, "query.end")' # {} => log'[ch][i].ts <= AnsweredAt(s)'
    BY DEF Housed, Calls
  <1>4. ch # Main
    BY <1>3, ProfileAssumption DEF Calls
  <1>5. \A j \in DOMAIN log[ch] :
          /\ Lines(s, "query.start") # {} /\ AskedAt(s) <= log[ch][j].ts
          /\ Lines(s, "query.end") # {} => log[ch][j].ts <= AnsweredAt(s)
    BY <1>2, <1>3 DEF Housed
  <1>6. CASE log'[s] = log[s] /\ log'[ch] = log[ch]
    <2>1. /\ Lines(s, "query.start")' = Lines(s, "query.start")
          /\ Lines(s, "query.end")' = Lines(s, "query.end")
          /\ AskedAt(s)' = AskedAt(s) /\ AnsweredAt(s)' = AnsweredAt(s)
      BY <1>6, RestingLines, TimesKept
    <2>2. QED
      BY <1>3, <1>5, <1>6, <2>1
  <1>7. ASSUME NEW line \in Line, Writes(ch, line)
        PROVE  /\ Lines(s, "query.start")' # {} /\ AskedAt(s)' <= log'[ch][i].ts
               /\ Lines(s, "query.end")' # {} => log'[ch][i].ts <= AnsweredAt(s)'
    <2>1. Logs(ch, line) /\ line.ts = now /\ log'[s] = log[s]
      BY <1>3, <1>7 DEF Writes, Logs, LoopInv, DataTyped
    <2>2. PICK x : Added(ch, line, x)
      BY <2>1, Logged
    <2>3. Called(ch)
      <3>1. log'[ch] # log[ch]
        BY <2>2 DEF Added
      <3>2. QED
        BY <1>4, <3>1, Stirs
    <2>4. phase[s] = "stream"
      BY <1>3, <2>3 DEF Called, LoopInv, Attuned
    <2>5. Lines(s, "query.end") = {}
      BY <1>2, <2>4 DEF Numbered
    <2>6. Lines(s, "query.start") # {}
      <3>1. log[s] # <<>> /\ log[s][1].ev = "query.start" /\ log[s] \in Seq(Line)
        BY <2>4 DEF SequencedInv, Sequenced, LoopInv, DataTyped
      <3>2. 1 \in DOMAIN log[s]
        BY <3>1
      <3>3. QED
        BY <3>1, <3>2 DEF Lines
    <2>7. AskedAt(s) <= now
      <3>1. Lines(s, "query.start") \subseteq DOMAIN log[s]
        BY DEF Lines
      <3>2. PICK j \in DOMAIN log[s] : AskedAt(s) = log[s][j].ts
        BY <2>6, <3>1, LastTime DEF AskedAt
      <3>3. QED
        BY <3>2 DEF SequencedInv, Sequenced
    <2>8. /\ Lines(s, "query.start")' = Lines(s, "query.start")
          /\ Lines(s, "query.end")' = Lines(s, "query.end")
          /\ AskedAt(s)' = AskedAt(s)
      BY <2>1, RestingLines, TimesKept
    <2>9. AskedAt(s) <= log'[ch][i].ts
      <3>1. CASE i = x
        BY <2>1, <2>2, <2>7, <3>1 DEF Added
      <3>2. CASE i # x
        <4>1. i \in DOMAIN log[ch] /\ log'[ch][i] = log[ch][i]
          BY <1>3, <2>2, <3>2 DEF Added
        <4>2. QED
          BY <1>5, <4>1
      <3>3. QED
        BY <3>1, <3>2
    <2>10. QED
      BY <2>5, <2>6, <2>8, <2>9
  <1>8. ASSUME NEW line \in Line, Writes(s, line)
        PROVE  /\ Lines(s, "query.start")' # {} /\ AskedAt(s)' <= log'[ch][i].ts
               /\ Lines(s, "query.end")' # {} => log'[ch][i].ts <= AnsweredAt(s)'
    <2>1. /\ Logs(s, line) /\ line.ts = now /\ log'[ch] = log[ch]
          /\ line.ev = "query.end" => phase[s] # "idle"
      BY <1>3, <1>8 DEF Writes, Logs, LoopInv, DataTyped
    <2>2. PICK x : Added(s, line, x)
      BY <2>1, Logged
    <2>3. i \in DOMAIN log[ch] /\ log'[ch][i] = log[ch][i]
      BY <1>3, <2>1
    <2>4. Lines(s, "query.start") # {}
      BY <1>5, <2>3
    <2>5. line.ev # "query.start"
      <3>1. ASSUME line.ev = "query.start"
            PROVE  FALSE
        <4>1. /\ Lines(s, "query.start")' = Lines(s, "query.start") \cup {x}
              /\ x \notin Lines(s, "query.start")
          BY <2>2, <3>1, AddedLines
        <4>2. QED
          BY <2>4, <4>1 DEF OneQuery
      <3>2. QED
        BY <3>1
    <2>6. Lines(s, "query.start")' = Lines(s, "query.start") /\ Grows(s)
      BY <2>2, <2>5, AddedLines
    <2>7. AskedAt(s)' = AskedAt(s)
      BY <2>6, TimesKept
    <2>8. CASE line.ev = "query.end"
      <3>1. Lines(s, "query.end")' = {x}
        BY <1>2, <2>1, <2>2, <2>8, AddedLines DEF Numbered
      <3>2. AnsweredAt(s)' = now
        BY <2>1, <2>2, <3>1, TimesNew
      <3>3. log[ch][i].ts <= now
        BY <2>3 DEF SequencedInv, Sequenced
      <3>4. QED
        BY <1>5, <2>3, <2>4, <2>6, <2>7, <3>2, <3>3
    <2>9. CASE line.ev # "query.end"
      <3>1. Lines(s, "query.end")' = Lines(s, "query.end")
        BY <2>2, <2>9, AddedLines
      <3>2. AnsweredAt(s)' = AnsweredAt(s)
        BY <2>6, <3>1, TimesKept
      <3>3. QED
        BY <1>5, <2>3, <2>4, <2>6, <2>7, <3>1, <3>2
    <2>10. QED
      BY <2>8, <2>9
  <1>9. ASSUME NEW t \in Session \ {s, ch}, NEW line \in Line, Writes(t, line)
        PROVE  log'[s] = log[s] /\ log'[ch] = log[ch]
    BY <1>3, <1>9 DEF Writes, LoopInv, DataTyped
  <1>10. Quiet => log' = log
    BY DEF Quiet
  <1>11. QED
    BY <1>6, <1>7, <1>8, <1>9, <1>10, LogSteps

LEMMA HousedInvariant == Spec => []HousedInv
  <1>1. Init => HousedInv
    BY DEF Init, HousedInv, Housed
  <1>2. /\ LoopInv /\ SequencedInv /\ CreditedInv /\ CalledInv /\ HousedInv /\ [Next]_vars
        => HousedInv'
    BY HousedKeeps DEF HousedInv
  <1>3. QED
    BY <1>1, <1>2, LoopInvariant, SequencedInvariant, CreditedInvariant, CalledInvariant, PTL
       DEF Spec

\* What session_idle adds up, in terms of the above.
LEMMA IdleParts ==
  ASSUME LoopInv, NEW s \in Session, Numbered(s), Credited(s), OneQuery(s), SequencedInv,
         Lines(s, "query.start") # {}
  PROVE  /\ step[s] = 0 => Idle(s).busy + TotalIdle(Idle(s)) = 0
         /\ step[s] > 0 /\ Lines(s, "query.end") = {} =>
              Idle(s).busy + TotalIdle(Idle(s)) = BusyOf(s) + InterOf(s) + LeadOf(s)
         /\ Lines(s, "query.end") # {} =>
              /\ Idle(s).busy = BusyOf(s)
              /\ TotalIdle(Idle(s)) =
                   InterOf(s) + LeadOf(s) + AnsweredAt(s) - EndOf(s, step[s])
  <1>1. PICK n : n = step[s]
    OBVIOUS
  <1>2. n \in Nat /\ n \in Steps /\ \A k \in Steps : k \in Nat
    BY <1>1, Numbers DEF LoopInv, LoopTyped
  <1>3. \A k : k \in StepsOf(s) <=> k \in Steps /\ 0 < k /\ k <= n
    BY <1>1 DEF StepsOf, Numbered
  <1>4. /\ Idle(s).busy = BusyOf(s) /\ Idle(s).inter = InterOf(s)
        /\ Idle(s).bootstrap =
             IF StepsOf(s) = {} THEN None ELSE StartOf(s, Min(StepsOf(s))) - AskedAt(s)
        /\ Idle(s).teardown =
             IF StepsOf(s) = {} \/ AnsweredAt(s) = None \/ EndOf(s, Max(StepsOf(s))) = None
             THEN None ELSE AnsweredAt(s) - EndOf(s, Max(StepsOf(s)))
    BY DEF Idle, BusyOf, InterOf, StepsOf, WholeOf, GapsOf, AskedAt, AnsweredAt
  <1>5. BusyOf(s) \in Int /\ InterOf(s) \in Int /\ AskedAt(s) \in Nat
    BY SumsTyped, TimesOf
  <1>6. CASE n = 0
    <2>1. StepsOf(s) = {}
      <3>1. ASSUME NEW k \in StepsOf(s)
            PROVE  FALSE
        <4>1. k \in Nat /\ 0 < k /\ k <= 0
          BY <1>2, <1>3, <1>6
        <4>2. QED
          BY <4>1
      <3>2. QED
        BY <3>1
    <2>2. BusyOf(s) = 0 /\ InterOf(s) = 0
      BY <2>1, SumEmpty DEF BusyOf, InterOf, GapsOf, WholeOf
    <2>3. TotalIdle(Idle(s)) = 0
      BY <1>4, <2>1, <2>2 DEF TotalIdle, Known
    <2>4. Lines(s, "query.end") = {}
      BY <1>1, <1>6 DEF Credited
    <2>5. QED
      BY <1>1, <1>4, <1>6, <2>2, <2>3, <2>4
  <1>7. CASE n > 0
    <2>1. n \in StepsOf(s) /\ 1 \in StepsOf(s) /\ StepsOf(s) \subseteq 0..n /\ StepsOf(s) \subseteq Nat
      <3>1. 1 \in Steps /\ 1 <= n
        BY <1>2, <1>7, Numbers DEF Steps
      <3>2. ASSUME NEW k \in StepsOf(s)
            PROVE  k \in 0..n /\ k \in Nat
        <4>1. k \in Nat /\ k <= n
          BY <1>2, <1>3
        <4>2. QED
          BY <1>2, <4>1
      <3>3. n \in StepsOf(s) /\ 1 \in StepsOf(s)
        <4>1. n <= n /\ 0 < 1
          BY <1>2
        <4>2. QED
          BY <1>2, <1>3, <1>7, <3>1, <4>1
      <3>4. QED
        BY <3>2, <3>3
    <2>2. Max(StepsOf(s)) = n /\ Min(StepsOf(s)) = 1
      <3>1. /\ Max(StepsOf(s)) \in StepsOf(s) /\ n <= Max(StepsOf(s))
            /\ Min(StepsOf(s)) \in StepsOf(s) /\ Min(StepsOf(s)) <= 1
        BY <1>2, <2>1, MaxIsGreatest, MinIsLeast
      <3>2. /\ Max(StepsOf(s)) \in Nat /\ Max(StepsOf(s)) <= n
            /\ Min(StepsOf(s)) \in Nat /\ 0 < Min(StepsOf(s))
        BY <1>2, <1>3, <3>1
      <3>3. QED
        BY <1>2, <3>1, <3>2
    <2>3. /\ Idle(s).bootstrap = LeadOf(s)
          /\ Idle(s).teardown = IF AnsweredAt(s) = None \/ EndOf(s, n) = None THEN None
                                ELSE AnsweredAt(s) - EndOf(s, n)
      BY <1>4, <2>1, <2>2 DEF LeadOf
    <2>4. LeadOf(s) \in Nat
      <3>1. log[s] # <<>> /\ log[s][1].ev = "query.start" /\ log[s] \in Seq(Line)
        BY DEF SequencedInv, Sequenced, LoopInv, DataTyped, Lines
      <3>2. 1 \in DOMAIN log[s] /\ \A i \in DOMAIN log[s] : 1 <= i
        BY <3>1
      <3>3. /\ Lines(s, "query.start") \subseteq DOMAIN log[s]
            /\ Events(s, "turn.start", 1) \subseteq DOMAIN log[s] /\ Events(s, "turn.start", 1) # {}
        BY <2>1 DEF Lines, Events, StepsOf
      <3>4. PICK j \in Lines(s, "query.start") : AskedAt(s) = log[s][j].ts
        BY <3>3, LastTime DEF AskedAt
      <3>5. j = 1
        BY <3>1, <3>2, <3>4 DEF OneQuery, Lines
      <3>6. PICK i \in DOMAIN log[s] : StartOf(s, 1) = log[s][i].ts /\ StartOf(s, 1) \in Nat
        BY <3>3, LastTime DEF StartOf
      <3>7. AskedAt(s) <= StartOf(s, 1)
        BY <3>2, <3>4, <3>5, <3>6 DEF SequencedInv, Sequenced
      <3>8. QED
        BY <1>5, <3>6, <3>7 DEF LeadOf
    <2>5. Known(Idle(s).bootstrap, 0) = LeadOf(s)
      BY <2>3, <2>4 DEF Known, None
    <2>6. CASE Lines(s, "query.end") = {}
      <3>1. Known(Idle(s).teardown, 0) = 0
        BY <2>3, <2>6, TimesOf DEF Known
      <3>2. QED
        BY <1>1, <1>2, <1>4, <1>5, <1>7, <2>4, <2>5, <2>6, <3>1 DEF TotalIdle
    <2>7. CASE Lines(s, "query.end") # {}
      <3>1. /\ AnsweredAt(s) \in Nat /\ EndOf(s, n) \in Nat /\ EndOf(s, n) <= AnsweredAt(s)
        BY <1>1, <2>7, TimesOf DEF Credited
      <3>2. Idle(s).teardown = AnsweredAt(s) - EndOf(s, n) /\ AnsweredAt(s) - EndOf(s, n) \in Nat
        BY <2>3, <3>1 DEF None
      <3>3. Known(Idle(s).teardown, 0) = AnsweredAt(s) - EndOf(s, n)
        BY <3>2 DEF Known, None
      <3>4. TotalIdle(Idle(s)) = InterOf(s) + LeadOf(s) + AnsweredAt(s) - EndOf(s, n)
        BY <1>4, <1>5, <2>4, <2>5, <3>1, <3>3 DEF TotalIdle
      <3>5. QED
        BY <1>1, <1>2, <1>4, <1>7, <2>7, <3>4
    <2>8. QED
      BY <2>6, <2>7
  <1>8. QED
    BY <1>2, <1>6, <1>7

\* Where the window of a session begins and ends there are lines of its log, and without an
\* answer none is later.
LEMMA WindowLines ==
  ASSUME LoopInv, SequencedInv, NEW s \in Session, Lines(s, "query.start") # {}
  PROVE  /\ SessionWindow(s).from = AskedAt(s)
         /\ \E i \in DOMAIN log[s] : SessionWindow(s).from = log[s][i].ts
         /\ \E i \in DOMAIN log[s] : SessionWindow(s).to = log[s][i].ts
         /\ SessionWindow(s).from \in Nat /\ SessionWindow(s).to \in Nat
         /\ Lines(s, "query.end") # {} => SessionWindow(s).to = AnsweredAt(s)
         /\ Lines(s, "query.end") = {} =>
              \A i \in DOMAIN log[s] : log[s][i].ts <= SessionWindow(s).to
  <1>1. /\ SessionWindow(s).from = AskedAt(s)
        /\ SessionWindow(s).to = Known(AnsweredAt(s), Last(log[s]).ts)
    BY DEF SessionWindow, AskedAt, AnsweredAt
  <1>2. /\ Lines(s, "query.start") \subseteq DOMAIN log[s]
        /\ Lines(s, "query.end") \subseteq DOMAIN log[s]
    BY DEF Lines
  <1>3. \E i \in DOMAIN log[s] : AskedAt(s) = log[s][i].ts /\ AskedAt(s) \in Nat
    BY <1>2, LastTime DEF AskedAt
  <1>4. CASE Lines(s, "query.end") # {}
    <2>1. \E i \in DOMAIN log[s] : AnsweredAt(s) = log[s][i].ts /\ AnsweredAt(s) \in Nat
      BY <1>2, <1>4, LastTime DEF AnsweredAt
    <2>2. Known(AnsweredAt(s), Last(log[s]).ts) = AnsweredAt(s)
      BY <2>1 DEF Known, None
    <2>3. QED
      BY <1>1, <1>3, <1>4, <2>1, <2>2
  <1>5. CASE Lines(s, "query.end") = {}
    <2>1. Known(AnsweredAt(s), Last(log[s]).ts) = log[s][Len(log[s])].ts
      BY <1>5, TimesOf DEF Known, Last
    <2>2. log[s] \in Seq(Line) /\ DOMAIN log[s] # {}
      BY <1>2 DEF LoopInv, DataTyped
    <2>3. Len(log[s]) \in DOMAIN log[s] /\ \A i \in DOMAIN log[s] : i <= Len(log[s])
      BY <2>2
    <2>4. \A i \in DOMAIN log[s] : log[s][i].ts <= log[s][Len(log[s])].ts
      BY <2>3 DEF SequencedInv, Sequenced
    <2>5. log[s][Len(log[s])].ts \in Nat
      BY <2>2, <2>3, LineTimes
    <2>6. QED
      BY <1>1, <1>3, <1>5, <2>1, <2>3, <2>4, <2>5
  <1>6. QED
    BY <1>4, <1>5

\* session_idle, and the windows of the sub-agents: what a query took is the time of its
\* turns and the idle time around them, which is the time the loop spent out of a turn; a
\* query that did not end is credited with no more than its log spans; and the query of a
\* child that only this session runs lies within it.
THEOREM IdleTimeIsTrue == Spec => []IdleAddsUp
  <1>1. ASSUME LoopInv, SequencedInv, CreditedInv, HousedInv, NEW s \in Started, Once(s)
        PROVE  /\ Idle(s).busy + TotalIdle(Idle(s)) <= SessionWindow(s).to - SessionWindow(s).from
               /\ s \in Ended =>
                    /\ EndToEnd(s) = Idle(s).busy + TotalIdle(Idle(s))
                    /\ TotalIdle(Idle(s)) = idle[s]
    <2>1. s \in Session /\ Lines(s, "query.start") # {} /\ OneQuery(s)
      BY <1>1, OneAsked DEF Started
    <2>2. Numbered(s) /\ Credited(s)
      BY <1>1, <2>1 DEF CreditedInv
    <2>3. BusyOf(s) \in Int /\ InterOf(s) \in Int /\ AskedAt(s) \in Nat
      BY <1>1, <2>1, SumsTyped, TimesOf
    <2>4. PICK n : n = step[s]
      OBVIOUS
    <2>5. n \in Nat /\ n \in Steps
      BY <1>1, <2>1, <2>4, Numbers DEF LoopInv, LoopTyped
    <2>6. /\ SessionWindow(s).from = AskedAt(s)
          /\ SessionWindow(s).from \in Nat /\ SessionWindow(s).to \in Nat
          /\ Lines(s, "query.end") # {} => SessionWindow(s).to = AnsweredAt(s)
          /\ Lines(s, "query.end") = {} =>
               \A i \in DOMAIN log[s] : log[s][i].ts <= SessionWindow(s).to
      BY <1>1, <2>1, WindowLines
    <2>7. CASE Lines(s, "query.end") # {}
      <3>1. /\ n > 0 /\ Events(s, "turn.end", n) # {}
            /\ idle[s] = InterOf(s) + LeadOf(s) + AnsweredAt(s) - EndOf(s, n)
            /\ EndToEnd(s) = AnsweredAt(s) - AskedAt(s)
            /\ BusyOf(s) + InterOf(s) + LeadOf(s) = EndOf(s, n) - AskedAt(s)
        BY <2>2, <2>4, <2>7 DEF Credited
      <3>2. /\ Idle(s).busy = BusyOf(s)
            /\ TotalIdle(Idle(s)) = InterOf(s) + LeadOf(s) + AnsweredAt(s) - EndOf(s, n)
        BY <1>1, <2>1, <2>2, <2>4, <2>7, IdleParts
      <3>3. EndOf(s, n) \in Nat /\ AnsweredAt(s) \in Nat
        BY <1>1, <2>1, <2>7, <3>1, TimesOf
      <3>4. LeadOf(s) \in Int
        <4>1. Events(s, "turn.start", 1) # {}
          <5>1. 1 \in Steps /\ 0 < 1 /\ 1 <= n
            BY <2>5, <3>1, Numbers DEF Steps
          <5>2. QED
            BY <2>2, <2>4, <5>1 DEF Numbered
        <4>2. StartOf(s, 1) \in Nat
          BY <1>1, <2>1, <4>1, TimesOf
        <4>3. QED
          BY <2>3, <4>2 DEF LeadOf
      <3>5. Idle(s).busy + TotalIdle(Idle(s)) = AnsweredAt(s) - AskedAt(s)
        <4>1. Idle(s).busy + TotalIdle(Idle(s)) =
                BusyOf(s) + (InterOf(s) + LeadOf(s) + AnsweredAt(s) - EndOf(s, n))
          BY <3>2
        <4>2. BusyOf(s) + (InterOf(s) + LeadOf(s) + AnsweredAt(s) - EndOf(s, n)) =
                (BusyOf(s) + InterOf(s) + LeadOf(s)) + AnsweredAt(s) - EndOf(s, n)
          BY <2>3, <3>3, <3>4
        <4>3. (EndOf(s, n) - AskedAt(s)) + AnsweredAt(s) - EndOf(s, n)
                = AnsweredAt(s) - AskedAt(s)
          BY <2>3, <3>3
        <4>4. QED
          BY <3>1, <4>1, <4>2, <4>3
      <3>6. AnsweredAt(s) - AskedAt(s) <= SessionWindow(s).to - SessionWindow(s).from
        BY <2>3, <2>6, <2>7, <3>3
      <3>7. QED
        BY <3>1, <3>2, <3>5, <3>6
    <2>8. CASE Lines(s, "query.end") = {}
      <3>1. s \notin Ended
        BY <2>8 DEF Ended
      <3>2. CASE n = 0
        <4>1. Idle(s).busy + TotalIdle(Idle(s)) = 0
          BY <1>1, <2>1, <2>2, <2>4, <3>2, IdleParts
        <4>2. PICK i \in DOMAIN log[s] : SessionWindow(s).from = log[s][i].ts
          BY <1>1, <2>1, WindowLines
        <4>3. SessionWindow(s).from <= SessionWindow(s).to
          BY <2>6, <2>8, <4>2
        <4>4. 0 <= SessionWindow(s).to - SessionWindow(s).from
          BY <2>6, <4>3
        <4>5. QED
          BY <3>1, <4>1, <4>4
      <3>3. CASE n > 0
        <4>1. Idle(s).busy + TotalIdle(Idle(s)) =
                (IF Events(s, "turn.end", n) = {} THEN StartOf(s, n) ELSE EndOf(s, n)) - AskedAt(s)
          BY <1>1, <2>1, <2>2, <2>4, <2>8, <3>3, IdleParts DEF Credited
        <4>2. Events(s, "turn.start", n) # {}
          BY <2>2, <2>4, <2>5, <3>3 DEF Numbered
        <4>3. /\ Events(s, "turn.start", n) \subseteq DOMAIN log[s]
              /\ Events(s, "turn.end", n) \subseteq DOMAIN log[s]
          BY DEF Events, Lines
        <4>4. StartOf(s, n) \in Nat /\ StartOf(s, n) <= SessionWindow(s).to
          BY <1>1, <2>1, <2>6, <2>8, <4>2, <4>3, LastTime DEF StartOf
        <4>5. Events(s, "turn.end", n) # {} =>
                EndOf(s, n) \in Nat /\ EndOf(s, n) <= SessionWindow(s).to
          BY <1>1, <2>1, <2>6, <2>8, <4>3, LastTime DEF EndOf
        <4>6. PICK x \in Nat : /\ Idle(s).busy + TotalIdle(Idle(s)) = x - AskedAt(s)
                               /\ x <= SessionWindow(s).to
          BY <4>1, <4>4, <4>5
        <4>7. x - AskedAt(s) <= SessionWindow(s).to - SessionWindow(s).from
          BY <2>3, <2>6, <4>6
        <4>8. QED
          BY <3>1, <4>6, <4>7
      <3>4. QED
        BY <2>5, <3>2, <3>3
    <2>9. QED
      BY <2>7, <2>8
  <1>2. ASSUME LoopInv, SequencedInv, HousedInv, NEW s \in Started, Once(s), s \in Ended,
               NEW c \in Tasked, Of[c] = s, Child[c] \in Started,
               \A d \in Tasked : Child[d] = Child[c] => Of[d] = s
        PROVE  /\ SessionWindow(s).from <= SessionWindow(Child[c]).from
               /\ SessionWindow(Child[c]).to <= SessionWindow(s).to
    <2>1. /\ s \in Session /\ Lines(s, "query.start") # {} /\ OneQuery(s)
          /\ Lines(s, "query.end") # {}
      BY <1>2, OneAsked DEF Started, Ended
    <2>2. PICK ch : ch = Child[c]
      OBVIOUS
    <2>3. ch \in Session /\ Lines(ch, "query.start") # {}
      BY <1>2, <2>2 DEF Started
    <2>4. /\ SessionWindow(s).from = AskedAt(s) /\ SessionWindow(s).to = AnsweredAt(s)
          /\ SessionWindow(s).from \in Nat /\ SessionWindow(s).to \in Nat
      BY <1>2, <2>1, WindowLines
    <2>5. PICK i \in DOMAIN log[ch] : SessionWindow(ch).from = log[ch][i].ts
      BY <1>2, <2>3, WindowLines
    <2>6. PICK j \in DOMAIN log[ch] : SessionWindow(ch).to = log[ch][j].ts
      BY <1>2, <2>3, WindowLines
    <2>7. CASE ch = s
      BY <2>2, <2>4, <2>7
    <2>8. CASE ch # s
      <3>1. Calls(ch) # {} /\ \A d \in Calls(ch) : Of[d] = s
        BY <1>2, <2>2 DEF Calls
      <3>2. \A k \in DOMAIN log[ch] :
              AskedAt(s) <= log[ch][k].ts /\ log[ch][k].ts <= AnsweredAt(s)
        BY <1>2, <2>1, <2>3, <2>8, <3>1 DEF HousedInv, Housed
      <3>3. QED
        BY <2>2, <2>4, <2>5, <2>6, <3>2
    <2>9. QED
      BY <2>7, <2>8
  <1>3. LoopInv /\ SequencedInv /\ CreditedInv /\ HousedInv => IdleAddsUp
    BY <1>1, <1>2 DEF IdleAddsUp
  <1>4. QED
    BY <1>3, LoopInvariant, SequencedInvariant, CreditedInvariant, HousedInvariant, PTL

===============================================================================
