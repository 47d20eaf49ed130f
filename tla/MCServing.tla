------------------------------- MODULE MCServing -------------------------------
(* Three workers and the requests of four sessions; and, while none of that has begun, *)
(* the SWE-agent comparison, which has no state in common with it.                     *)
EXTENDS Dcgm, Harness

MCWorkers == <<"p0", "d0", "d1">>
MCRole == [w \in {"p0", "d0", "d1"} |-> IF w = "p0" THEN "prefill" ELSE "decode"]
MCSession == [a1 |-> "a", a2 |-> "a", a3 |-> "a", ta |-> "a", b1 |-> "b", c1 |-> "c"]
MCBefore == [a1 |-> None, a2 |-> "a1", a3 |-> "a2", ta |-> None, b1 |-> None, c1 |-> None]

Open(role) == <<TurnStart, role, Newline>>
Said(role, text) == Open(role) \o text \o <<TurnEnd, Newline>>
Sys == Open("system") \o <<"rules", TurnEnd>>
First(text) == Sys \o Said("user", text) \o Open("assistant")

A1 == First(<<"fix", "the", "bug", "now">>)
A2 == A1 \o <<"<tool_call>", ParamOpen, "code", ParamClose, "</tool_call>", TurnEnd, Newline>>
         \o Said("user", <<"<tool_response>", FileOpen, "line", ParamOpen, "<tool_call>",
                           ParamClose, FileClose, "</tool_response>">>)
         \o Open("assistant") \o <<"<think>">>
MCText ==
  [a1 |-> A1, a2 |-> A2, a3 |-> First(<<"summary", "of", "it">>),
   ta |-> First(<<"title", "fix">>), b1 |-> First(<<"add", "a", "test", "too">>),
   c1 |-> First(<<"hi">>)]

Plan(watching, asked, on, deaths, until) ==
  [observer |-> watching, requests |-> asked, workers |-> on, crashes |-> deaths,
   until |-> until]
MCPlans ==
  {Plan("logs", {"a1", "a2"}, <<"p0", "d0">>, 1, 2),
   Plan("logs", {"a1", "b1"}, <<"p0", "d0">>, 0, 2),
   Plan("scraper", {"a1"}, <<"p0", "d0">>, 1, 2),
   Plan("scraper", {"a1"}, <<"p0", "d0">>, 0, 3),
   Plan("scraper", {"a1", "b1"}, <<"p0", "d0", "d1">>, 0, 1),
   Plan("prompts", {"a1", "ta", "b1"}, <<"p0", "d0">>, 0, 0),
   Plan("prompts", {"a1", "a2", "b1"}, <<"p0", "d0">>, 0, 0),
   Plan("prompts", {"a1", "a2", "c1"}, <<"p0", "d0">>, 0, 0),
   Plan("prompts", {"a1", "a2", "a3"}, <<"p0", "d0">>, 1, 0),
   Plan("gauge", {}, <<>>, 0, 2), Plan("counter", {}, <<>>, 1, 1)}

MCGpuRole == [g \in {0, 1} |-> "decode"]

MCBounds == <<1, 2>>
MCQuantiles == {<<1, 2>>, <<9, 10>>}
MCMinFrac == <<1, 2>>

TestbedInit == ServingInit /\ DcgmInit
TestbedNext ==
  \/ ServingNext /\ UNCHANGED gpuVars
  \/ DcgmNext /\ UNCHANGED servingVars

Symmetry == Permutations(Out)

\* The one initial state of the telemetry next to which the comparison runs.
NothingServed == TestbedInit /\ plan.observer = "gauge"

ReportsInit == TestbedInit /\ HarnessInit
ReportsNext ==
  \/ HarnessInit /\ TestbedNext /\ UNCHANGED harnessVars
  \/ NothingServed /\ HarnessNext /\ UNCHANGED <<servingVars, gpuVars>>
ReportsSpec == ReportsInit /\ [][ReportsNext]_<<servingVars, gpuVars, harnessVars>>
===============================================================================
