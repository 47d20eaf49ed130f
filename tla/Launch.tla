-------------------------------- MODULE Launch --------------------------------
(***************************************************************************)
(* What a vLLM worker is started with.  Three programs read               *)
(* deploy/testbed.yaml and the TESTBED__* environment on their own:        *)
(* spawn_worker (deploy/testbed.sh) turns them into the worker's command   *)
(* line, load (src/testbed/config.py) into the config.json kept with a     *)
(* run's results, and load_workers (scripts/scrape_vllm_metrics.py) into   *)
(* the ports it polls.  This module has the three readings as operators on *)
(* one record, the contents of the file and of the environment:            *)
(*   prefill, decode, agg   the worker lists                               *)
(*   sections               the role sections that are there               *)
(*   untyped                those of them without kv_cache_dtype           *)
(*   lacking                components other than workers whose program or  *)
(*                          essential setting is missing                   *)
(*   nixl, base, toggle, parser   one setting of each kind: a required     *)
(*                          port, an optional port, a tri-state and a      *)
(*                          string, each as [yaml |-> ., env |-> .]        *)
(* toggle stands for enable_prefix_caching, enable_chunked_prefill and     *)
(* enforce_eager, parser for tool_call_parser and reasoning_parser.        *)
(***************************************************************************)
EXTENDS Integers, Sequences, FiniteSets

Role == {"prefill", "decode", "agg"}

\* Integers that stand for what is no number.
Junk == -1000       \* text that is not a number
Absent == -2000     \* the key is missing or null; the variable is not set

\* Values of text settings besides proper ones.
Missing == "missing"    \* the key is null or not there; the variable is not set
Empty == ""

\* What a list of the file is; for the assumptions about constants.
IsSequence(s) == s \in Seq({s[i] : i \in DOMAIN s})

\* A worker's entry; gpus counts the entries of its list, blanks the empty ones
\* a stray comma makes.
Worker(name, gpus, blanks, tp, dp) ==
  [name |-> name, gpus |-> gpus, blanks |-> blanks, tp |-> tp, pp |-> 1, dp |-> dp]

List(c, role) == CASE role = "prefill" -> c.prefill
                   [] role = "decode" -> c.decode
                   [] role = "agg" -> c.agg

\* up_workers: the order of the three loops gives the rank.
Ranked(c) ==
  LET Tag(role) == [i \in DOMAIN List(c, role) |->
                      [role |-> role, worker |-> List(c, role)[i]]]
  IN  Tag("prefill") \o Tag("decode") \o Tag("agg")

-------------------------------------------------------------------------------
(* testbed.sh *)

\* cfg_get_env: a variable that is set but empty counts as not set.
NumberInShell(setting) ==
  IF setting.env \notin {Absent} THEN setting.env ELSE setting.yaml
TextInShell(setting) ==
  IF setting.env \notin {Missing, Empty} THEN setting.env ELSE setting.yaml

\* Fault: a toggle is read with cfg_get.
ToggleFromFile(setting) == IF setting.yaml = "true" THEN "true" ELSE Empty

\* cfg_bool over `.vllm.<toggle> // ""`: the filter's // takes its right side for
\* null and for false.
ToggleInShell(setting) ==
  IF setting.env \notin {Missing, Empty} THEN setting.env
  ELSE IF setting.yaml = "true" THEN "true" ELSE Empty

\* The case arms over a normalised toggle: which of the paired flags is passed.
FlagPassed(text) ==
  IF text \in {"true", "on"} THEN "enable"
  ELSE IF text \in {"false", "off"} THEN "disable" ELSE "neither"

\* spawn_worker returns 2 before it spawns anything.
Refused(c, role, worker) ==
  \/ worker.dp = Junk \/ worker.dp < 1
  \/ worker.gpus + worker.blanks # worker.tp * worker.pp * worker.dp
  \/ role # "agg" /\ NumberInShell(c.nixl) < 0
  \/ role \notin c.sections \/ role \in c.untyped
  \/ NumberInShell(c.base) = Junk

\* system_port_base defaults to -1, and the port is only passed when it is positive.
SystemPort(c, rank) ==
  LET base == NumberInShell(c.base) IN IF base > 0 THEN base + rank ELSE Absent

NixlPort(c, role, rank) ==
  IF role = "agg" THEN Absent ELSE NumberInShell(c.nixl) + rank * 100

\* Only workers that hand their cache over are given a connector.
Transfer(role) ==
  CASE role = "prefill" -> "kv_producer" [] role = "decode" -> "kv_consumer"
    [] role = "agg" -> "none"

\* The frontend-facing parsers of a worker that answers; without a text, no flag.
ParserFlag(c, role) ==
  LET p == TextInShell(c.parser) IN IF role = "prefill" \/ p = Missing THEN Empty ELSE p

\* The environment and the arguments of one `python -m dynamo.vllm`.
CommandLine(c, role, worker, rank) ==
  [mode     |-> role,
   transfer |-> Transfer(role),
   nixl     |-> NixlPort(c, role, rank),
   port     |-> SystemPort(c, rank),
   parallel |-> <<worker.tp, worker.pp, worker.dp>>,
   toggle   |-> FlagPassed(ToggleInShell(c.toggle)),
   parser   |-> ParserFlag(c, role)]

-------------------------------------------------------------------------------
(* config.py *)

\* _apply_env_overrides: a variable that is set wins, an empty one as "".
Override(setting, default) ==
  IF setting.env # Missing THEN setting.env
  ELSE IF setting.yaml # Missing THEN setting.yaml ELSE default
OverrideNumber(setting, default) ==
  IF setting.env # Absent THEN setting.env
  ELSE IF setting.yaml # Absent THEN setting.yaml ELSE default

\* WorkerCfg: _gpus_nonempty and validate_against_parallelism.
WorkerValid(worker) ==
  /\ worker.gpus + worker.blanks > 0
  /\ worker.dp # Junk
  /\ worker.gpus = worker.tp * worker.pp * worker.dp

\* VLLMCfg: its field types and _validate_topology.
Valid(c) ==
  LET disagg == c.prefill # <<>> \/ c.decode # <<>>
      agg == c.agg # <<>>
  IN  /\ \A role \in Role : \A i \in DOMAIN List(c, role) : WorkerValid(List(c, role)[i])
      /\ agg # disagg
      /\ disagg => /\ c.prefill # <<>> /\ c.decode # <<>>
                   /\ {"prefill", "decode"} \subseteq c.sections
      /\ agg => "agg" \in c.sections
      /\ OverrideNumber(c.nixl, 6000) # Junk /\ OverrideNumber(c.base, 21000) # Junk
      /\ Override(c.toggle, Missing) # Empty

\* resolved_snapshot, in the terms of CommandLine; pydantic reads "t" as true.
Recorded(c) ==
  [toggle |-> LET v == Override(c.toggle, Missing)
              IN  IF v = "t" THEN "enable" ELSE FlagPassed(v),
   parser |-> LET v == Override(c.parser, "qwen3_coder") IN v,
   base   |-> OverrideNumber(c.base, 21000)]

-------------------------------------------------------------------------------
(* scrape_vllm_metrics.py *)

\* load_workers exits unless the file itself has a positive base and a worker.
Scrapes(c) == c.base.yaml # Junk /\ c.base.yaml > 0 /\ Ranked(c) # <<>>

\* Fault: the decode workers are ranked before the prefill workers.
TargetsSwapped(c) ==
  LET d == Len(c.decode)
      rank(i) == IF i <= Len(c.prefill) THEN d + i - 1
                 ELSE IF i <= Len(c.prefill) + d THEN i - Len(c.prefill) - 1 ELSE i - 1
  IN  [i \in DOMAIN Ranked(c) |->
        [worker |-> Ranked(c)[i].worker.name, role |-> Ranked(c)[i].role,
         port |-> c.base.yaml + rank(i)]]

Targets(c) ==
  [i \in DOMAIN Ranked(c) |->
    [worker |-> Ranked(c)[i].worker.name, role |-> Ranked(c)[i].role,
     port |-> c.base.yaml + (i - 1)]]
===============================================================================
