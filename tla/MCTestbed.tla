------------------------------- MODULE MCTestbed -------------------------------
(* A testbed with a worker, a service and the monitor, which is started with sudo, *)
(* and two invocations of testbed.sh that may overlap; and, with a single          *)
(* invocation and no faults, configurations that differ in their worker lists and  *)
(* settings.                                                                       *)
EXTENDS Sampler

Known(n) == [yaml |-> n, env |-> Absent]
Text(t) == [yaml |-> t, env |-> Missing]

Standard(prefill, decode, agg) ==
  [prefill |-> prefill, decode |-> decode, agg |-> agg,
   sections |-> Role, untyped |-> {}, nixl |-> Known(6000), base |-> Known(21000),
   toggle |-> Text(Missing), parser |-> Text("qwen25"),
   lacking |-> {}]

P0 == Worker("p0", 2, 0, 2, 1)
D0 == Worker("d0", 1, 0, 1, 1)
W0 == Worker("w0", 1, 0, 1, 1)

Core == Standard(<<>>, <<>>, <<W0>>)
Pair == Standard(<<P0>>, <<D0>>, <<>>)

After == Standard(<<Worker("p1", 1, 0, 1, 1), P0>>, <<D0>>, <<>>)

\* Core, Pair and, after an edit of Pair, After; then refused workers, and one
\* setting at a time.
Odd(n, b, d) == Standard(<<P0>>, <<Worker("d0", n, b, 1, d)>>, <<W0>>)
Toggle(y, e) == [Core EXCEPT !.toggle = [yaml |-> y, env |-> e]]
Parser(y, e) == [Core EXCEPT !.parser = [yaml |-> y, env |-> e]]
Ports(n, b) == [Pair EXCEPT !.nixl = n, !.base = b]

MCConfigs ==
  <<Core, Pair, After,
    Odd(1, 0, 1), Odd(2, 0, 2), Odd(1, 1, 1), Odd(1, 1, 2), Odd(1, 0, 0), Odd(1, 0, Junk),
    Toggle("true", Missing), Toggle("false", Missing), Toggle("true", "off"),
    Toggle("false", "true"), Toggle(Missing, "t"), Toggle("true", Empty),
    Parser(Empty, Missing), Parser("qwen25", "hermes"), Parser("qwen25", Empty),
    Parser(Missing, Missing),
    Ports(Known(Absent), Known(21000)), Ports(Known(6000), Known(Absent)),
    Ports([yaml |-> Absent, env |-> 7000], Known(21000)),
    Ports(Known(6000), [yaml |-> 21000, env |-> 22000]), Ports(Known(6000), Known(Junk)),
    [Pair EXCEPT !.sections = {"prefill"}], [Pair EXCEPT !.untyped = {"decode"}],
    [Core EXCEPT !.lacking = {"opencode", "monitor"}]>>
MCEdits == {<<2, 3>>}

MCServices == <<"opencode">>

\* Configurations other than the first get one undisturbed invocation.  For the first,
\* either two invocations may overlap, or one at a time meets faults; the third is
\* only sampled without them.
FewSteps ==
  /\ edition # 1 => /\ invocations <= (IF edition = 3 THEN 2 ELSE 1) /\ faults = 0
                    /\ \A p \in Pid : signal[p] = 0
  /\ sampler # NoPid =>
       /\ edition = 1 /\ (invocations <= 2 \/ faults = 0)
       /\ \A c \in Component : blemish[c] \subseteq {"crashed", "mistaken"}
       /\ byRoot[sampler] /\ \A c \in ServiceNames : port[c] = NoPid
  /\ pc[2] # "idle" \/ (\E c \in Component : "overlap" \in blemish[c]) =>
       faults = 0 /\ sampler = NoPid /\ invocations <= 2

MCSpec == SamplerSpec /\ \A o \in Script : WF_vars(Step(o))
===============================================================================
