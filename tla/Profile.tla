-------------------------------- MODULE Profile --------------------------------
(***************************************************************************)
(* The profiler that deploy/patches/opencode-profile.patch adds to         *)
(* OpenCode: per session a state that its hooks share, and a log file they *)
(* append to.  The agent loop that calls the hooks is OpenCode's own; it   *)
(* is modelled from where the patch places the calls and is marked         *)
(* external.  A call of the tool "task" runs another session, its child,   *)
(* to the end; compaction streams a response outside any turn; a loop that *)
(* fails leaves without query.end; a session may be asked again.           *)
(*                                                                         *)
(* Time is counted in ticks, so that what really went on in a tick can be  *)
(* counted next to what the hooks measure.                                 *)
(***************************************************************************)
EXTENDS Integers, Sequences, FiniteSets, SequencesExt

CONSTANTS
  Session, Main,     \* Main is the session the testbed itself opened
  Call,              \* tool calls
  Of,                \* the session that makes a call
  Tool,              \* the tool it calls
  Child,             \* the session a call of "task" runs
  Tasked,            \* the calls of "task"
  MaxTime,           \* bound: ticks
  MaxSteps,          \* bound: turns of a query
  MaxQueries,        \* bound: queries of a session
  MaxUpsets,         \* bound: failed loops, broken streams and compactions
  MaxEvents          \* bound: lines of a log

ASSUME ProfileAssumption ==
  /\ IsFiniteSet(Call) /\ Of \in [Call -> Session] /\ Main \in Session
  /\ Tasked = {c \in Call : Tool[c] = "task"} /\ Child \in [Tasked -> Session \ {Main}]
  /\ {MaxTime, MaxSteps, MaxQueries, MaxUpsets, MaxEvents} \subseteq Nat

None == -1
Steps == 0..MaxSteps
Blank == [k \in Steps |-> None]
Larger(a, b) == IF a >= b THEN a ELSE b
Known(value, default) == IF value = None THEN default ELSE value

VARIABLES
  now,
  state,     \* sessions: the hooks' state of a session, NoState without one
  log,       \* <sessionID>.jsonl
  phase,     \* of the loop: "idle", "loop", "turn", "stream", "settle", "compact"
  step,      \* of the loop: the turn it is in, counted from 1 in every query
  running,   \* the tool calls under way
  parts,     \* the tool parts of the session's messages, in order
  trace,     \* what the testbed recorded of Main, NoTrace before
  spent,     \* what the ticks of the latest turn of a step were: in the model
             \* (before finish-step, without a tool), under tools, under task
  idle,      \* ticks of the latest query outside its turns
  upsets

loopVars == <<phase, step, running>>
ghostVars == <<spent, idle>>
vars == <<now, state, log, loopVars, parts, trace, ghostVars, upsets>>

NoState == [fd |-> FALSE]
NoTrace == [status |-> "none"]
Nothing == [model |-> 0, tools |-> 0, task |-> 0]

Fresh ==
  [fd |-> TRUE, start |-> now, step |-> 0, llmStart |-> Blank, llmDuration |-> Blank,
   llmEnd |-> Blank, firstTool |-> Blank, lastText |-> Blank, streamFinish |-> Blank,
   turnStart |-> Blank, toolWall |-> Blank,
   toolStart |-> [c \in Call |-> [ms |-> None, step |-> 0]]]

Open(s) == state[s] # NoState

-------------------------------------------------------------------------------
(* The hooks: the state that each leaves, and the line it writes.  A hook other than *)
(* query.start and turn.start does nothing in a session without state.               *)

\* getOrInit
State(s) == IF Open(s) THEN state[s] ELSE Fresh

QueryStart(s) == [State(s) EXCEPT !.start = now]
QueryStartLine(s) == [ev |-> "query.start", ts |-> now]

QueryEndLine(s) ==
  [ev |-> "query.end", ts |-> now, steps |-> step[s], duration |-> now - state[s].start]

TurnStart(s, k) ==
  [State(s) EXCEPT !.step = k, !.turnStart[k] = now, !.toolWall[k] = 0]
TurnStartLine(s, k) == [ev |-> "turn.start", ts |-> now, step |-> k]

TurnEnd(s, k) == [state[s] EXCEPT !.turnStart[k] = None, !.llmEnd[k] = None]

\* Tools that ran at the same time count once each.
Post(turn, llm, tool) == Larger(0, turn - llm - tool)

TurnEndLine(s, k) ==
  LET st == state[s]
      turn == now - st.turnStart[k]
      llm == Known(st.llmDuration[k], 0)
      tool == Known(st.toolWall[k], 0)
      llmTrue == IF st.llmEnd[k] = None THEN None
                 ELSE Larger(0, st.llmEnd[k] - st.turnStart[k] - tool)
  IN  [ev |-> "turn.end", ts |-> now, step |-> k, duration |-> turn, llm |-> llm,
       tool |-> tool, post |-> Post(turn, llm, tool), llmTrue |-> llmTrue,
       othersTrue |-> IF llmTrue = None THEN None ELSE Larger(0, turn - llmTrue - tool)]

LlmStart(s) == [state[s] EXCEPT !.llmStart[state[s].step] = now]
StreamingEnd(s) == [state[s] EXCEPT !.lastText[state[s].step] = now]
StreamFinish(s) == [state[s] EXCEPT !.streamFinish[state[s].step] = now]

LlmDuration(s) ==
  LET st == state[s]
      k == st.step
  IN  IF st.llmStart[k] = None THEN 0
      ELSE Known(st.streamFinish[k], Known(st.firstTool[k], Known(st.lastText[k], now)))
             - st.llmStart[k]

LlmEnd(s) ==
  LET k == state[s].step
  IN  [state[s] EXCEPT !.llmDuration[k] = LlmDuration(s), !.llmEnd[k] = now,
                       !.llmStart[k] = None, !.firstTool[k] = None,
                       !.lastText[k] = None, !.streamFinish[k] = None]

LlmEndLine(s) ==
  LET st == state[s]
      k == st.step
  IN  [ev |-> "llm.end", ts |-> now, step |-> k, duration |-> LlmDuration(s),
       stepDuration |-> IF st.llmStart[k] = None THEN 0 ELSE now - st.llmStart[k],
       postStream |-> IF st.streamFinish[k] = None \/ st.llmStart[k] = None THEN None
                      ELSE Larger(0, now - st.streamFinish[k])]

\* Fault: every tool's start moves the end of the stream.
ToolStartLatest(s, c) ==
  LET k == state[s].step
  IN  [state[s] EXCEPT !.toolStart[c] = [ms |-> now, step |-> k], !.firstTool[k] = now]

ToolStart(s, c) ==
  LET k == state[s].step
  IN  [state[s] EXCEPT !.toolStart[c] = [ms |-> now, step |-> k],
                       !.firstTool[k] = Known(@, now)]
ToolStartLine(s, c) ==
  [ev |-> "tool.start", ts |-> now, step |-> state[s].step, call |-> c, name |-> Tool[c]]

ToolEnd(s, c) ==
  LET from == state[s].toolStart[c]
  IN  [state[s] EXCEPT !.toolStart[c].ms = None,
                       !.toolWall[from.step] = Known(@, 0) + now - from.ms]
ToolEndLine(s, c, ok) ==
  LET from == state[s].toolStart[c]
  IN  [ev |-> "tool.end", ts |-> now, step |-> from.step, call |-> c, name |-> Tool[c],
       ok |-> ok, duration |-> now - from.ms]

\* A hook leaves state st of session s and writes line.
Hook(s, st, line) ==
  /\ state' = [state EXCEPT ![s] = st]
  /\ log' = [log EXCEPT ![s] = Append(@, line)]
Room(s) == Len(log[s]) < MaxEvents

-------------------------------------------------------------------------------
(* The agent loop *)

Queries(s) == Cardinality({i \in DOMAIN log[s] : log[s][i].ev = "query.start"})
InChild(s) == \E c \in running[s] \cap Tasked : phase[Child[c]] # "idle"

Go(s, to) == phase' = [phase EXCEPT ![s] = to]

QueryBegins(s) ==
  /\ phase[s] = "idle" /\ Queries(s) < (IF s = Main THEN 1 ELSE MaxQueries) /\ Room(s)
  /\ s # Main => \E p \in Session : \E c \in running[p] \cap Tasked : Child[c] = s
  /\ Hook(s, QueryStart(s), QueryStartLine(s))
  /\ Go(s, "loop")
  /\ step' = [step EXCEPT ![s] = 0]
  /\ idle' = [idle EXCEPT ![s] = 0]
  /\ UNCHANGED <<now, running, parts, trace, spent, upsets>>

TurnBegins(s) ==
  /\ phase[s] = "loop" /\ step[s] < MaxSteps /\ Room(s)
  /\ LET k == step[s] + 1 IN
       /\ Hook(s, TurnStart(s, k), TurnStartLine(s, k))
       /\ step' = [step EXCEPT ![s] = k]
       /\ spent' = [spent EXCEPT ![s][k] = Nothing]
  /\ Go(s, "turn")
  /\ UNCHANGED <<now, running, parts, trace, idle, upsets>>

\* start-step arrives when the response does, which may be long after the request.
StepBegins(s) ==
  /\ phase[s] = "turn" /\ Room(s)
  /\ Hook(s, LlmStart(s), [ev |-> "llm.start", ts |-> now, step |-> state[s].step])
  /\ Go(s, "stream")
  /\ UNCHANGED <<now, step, running, parts, trace, ghostVars, upsets>>

TextEnds(s) ==
  /\ phase[s] = "stream" /\ state[s].lastText[step[s]] = None
  /\ state' = [state EXCEPT ![s] = StreamingEnd(s)]
  /\ UNCHANGED <<now, log, loopVars, parts, trace, ghostVars, upsets>>

ToolBegins(s, c) ==
  /\ phase[s] = "stream" /\ Of[c] = s /\ Room(s)
  /\ \A i \in 1..Len(parts[s]) : parts[s][i].call # c
  /\ Hook(s, ToolStart(s, c), ToolStartLine(s, c))
  /\ running' = [running EXCEPT ![s] = @ \cup {c}]
  /\ parts' = [parts EXCEPT ![s] =
       Append(@, [call |-> c, status |-> "running", start |-> now, end |-> None])]
  /\ UNCHANGED <<now, phase, step, trace, ghostVars, upsets>>

ToolEnds(s, c, ok) ==
  /\ c \in running[s] /\ Room(s)
  /\ c \in Tasked => phase[Child[c]] = "idle" /\ Queries(Child[c]) > 0
  /\ Hook(s, ToolEnd(s, c), ToolEndLine(s, c, ok))
  /\ running' = [running EXCEPT ![s] = @ \ {c}]
  /\ parts' = [parts EXCEPT ![s] =
       [i \in 1..Len(@) |-> IF @[i].call # c THEN @[i]
          ELSE [@[i] EXCEPT !.status = IF ok THEN "completed" ELSE "error", !.end = now]]]
  /\ UNCHANGED <<now, phase, step, trace, ghostVars, upsets>>

\* finish-step comes after the results of the step's tools, finish after that.
StepEnds(s) ==
  /\ phase[s] = "stream" /\ running[s] = {} /\ Room(s)
  /\ Hook(s, LlmEnd(s), LlmEndLine(s))
  /\ Go(s, "settle")
  /\ UNCHANGED <<now, step, running, parts, trace, ghostVars, upsets>>

StreamFinishes(s) ==
  /\ phase[s] = "settle" /\ state[s].streamFinish[step[s]] = None /\ Room(s)
  /\ Hook(s, StreamFinish(s), [ev |-> "llm.stream-finish", ts |-> now, step |-> step[s]])
  /\ UNCHANGED <<now, loopVars, parts, trace, ghostVars, upsets>>

TurnEnds(s) ==
  /\ phase[s] = "settle" /\ Room(s)
  /\ Hook(s, TurnEnd(s, step[s]), TurnEndLine(s, step[s]))
  /\ Go(s, "loop")
  /\ UNCHANGED <<now, step, running, parts, trace, ghostVars, upsets>>

\* query.end, and the testbed's list_messages when it is Main that answered.
QueryEnds(s) ==
  /\ phase[s] = "loop" /\ step[s] > 0 /\ Room(s)
  /\ Hook(s, NoState, QueryEndLine(s))
  /\ Go(s, "idle")
  /\ trace' = IF s # Main \/ trace # NoTrace THEN trace
              ELSE [status |-> "success", steps |-> step[s], parts |-> parts[s]]
  /\ UNCHANGED <<now, step, running, parts, ghostVars, upsets>>

\* The response breaks off before finish-step; the turn ends all the same.
StreamBreaks(s) ==
  /\ phase[s] \in {"turn", "stream"} /\ running[s] = {} /\ upsets < MaxUpsets
  /\ Go(s, "settle")
  /\ upsets' = upsets + 1
  /\ UNCHANGED <<now, state, log, step, running, parts, trace, ghostVars>>

\* The loop fails between two hooks: no turn.end and no query.end.
LoopFails(s) ==
  /\ phase[s] # "idle" /\ running[s] = {} /\ upsets < MaxUpsets
  /\ Go(s, "idle")
  /\ upsets' = upsets + 1
  /\ trace' = IF s # Main \/ trace # NoTrace THEN trace
              ELSE [status |-> "failed", steps |-> step[s], parts |-> <<>>]
  /\ UNCHANGED <<now, state, log, step, running, parts, ghostVars>>

CompactionBegins(s) ==
  /\ phase[s] = "loop" /\ step[s] > 0 /\ upsets < MaxUpsets /\ Room(s)
  /\ Hook(s, LlmStart(s), [ev |-> "llm.start", ts |-> now, step |-> state[s].step])
  /\ Go(s, "compact")
  /\ upsets' = upsets + 1
  /\ UNCHANGED <<now, step, running, parts, trace, ghostVars>>

CompactionEnds(s) ==
  /\ phase[s] = "compact" /\ Room(s)
  /\ Hook(s, LlmEnd(s), LlmEndLine(s))
  /\ Go(s, "loop")
  /\ UNCHANGED <<now, step, running, parts, trace, ghostVars, upsets>>

\* The testbed's --task-timeout-s: it lists the messages there are; the loop goes on.
Timeout ==
  /\ phase[Main] # "idle" /\ trace = NoTrace
  /\ trace' = [status |-> "timeout", steps |-> step[Main], parts |-> parts[Main]]
  /\ UNCHANGED <<now, state, log, loopVars, parts, ghostVars, upsets>>

InTurn(s) == phase[s] \in {"turn", "stream", "settle"}
One(b) == IF b THEN 1 ELSE 0

Tick ==
  /\ now < MaxTime /\ \E s \in Session : phase[s] # "idle"
  /\ now' = now + 1
  /\ spent' = [s \in Session |->
       IF ~InTurn(s) THEN spent[s]
       ELSE [spent[s] EXCEPT ![step[s]] =
               [model |-> @.model + One(phase[s] # "settle" /\ running[s] = {}),
                tools |-> @.tools + One(running[s] \ Tasked # {}),
                task |-> @.task + One(running[s] \cap Tasked # {})]]]
  /\ idle' = [s \in Session |-> idle[s] + One(phase[s] \in {"loop", "compact"})]
  /\ UNCHANGED <<state, log, loopVars, parts, trace, upsets>>

-------------------------------------------------------------------------------
Init ==
  /\ now = 0
  /\ state = [s \in Session |-> NoState]
  /\ log = [s \in Session |-> <<>>]
  /\ phase = [s \in Session |-> "idle"]
  /\ step = [s \in Session |-> 0]
  /\ running = [s \in Session |-> {}]
  /\ parts = [s \in Session |-> <<>>]
  /\ trace = NoTrace
  /\ spent = [s \in Session |-> [k \in Steps |-> Nothing]]
  /\ idle = [s \in Session |-> 0]
  /\ upsets = 0

Next ==
  \/ \E s \in Session :
       \/ QueryBegins(s) \/ TurnBegins(s) \/ StepBegins(s) \/ TextEnds(s) \/ StepEnds(s)
       \/ StreamFinishes(s) \/ TurnEnds(s) \/ QueryEnds(s)
       \/ StreamBreaks(s) \/ LoopFails(s) \/ CompactionBegins(s) \/ CompactionEnds(s)
       \/ \E c \in Call : ToolBegins(s, c) \/ \E ok \in BOOLEAN : ToolEnds(s, c, ok)
  \/ Timeout
  \/ Tick

Spec == Init /\ [][Next]_vars

-------------------------------------------------------------------------------
(* Properties of the profiler *)

Duration == 0..MaxTime

TypeOK ==
  /\ now \in Duration /\ upsets \in 0..MaxUpsets
  /\ phase \in [Session -> {"idle", "loop", "turn", "stream", "settle", "compact"}]
  /\ step \in [Session -> Steps]
  /\ running \in [Session -> SUBSET Call]
  /\ \A s \in Session : \A i \in DOMAIN log[s] :
       LET e == log[s][i] IN
       /\ e.ts \in Duration
       /\ e.ev \in {"turn.end", "tool.end", "query.end"} => e.duration \in Duration
       /\ e.ev = "turn.end" => /\ e.tool \in 0..(MaxTime * Cardinality(Call))
                               /\ e.post \in 0..(2 * MaxTime)
===============================================================================
