------------------------------- MODULE MCProfile -------------------------------
(* The session of the testbed, with two calls of bash and one of task, and the child *)
(* session that runs.                                                                *)
EXTENDS ProfileAnalysis

MCOf == [c \in Call |-> "main"]
MCTool == [c \in Call |-> IF c \in Tasked THEN "task" ELSE "bash"]
MCChild == [c \in Tasked |-> "child"]
MCShapes == [c \in Call |-> IF c = "serve" THEN {"server"} ELSE {}]

\* Three ticks for one turn with two calls, two with something upset, and one for a
\* second turn, a child, a timeout or text after the call.  Only a server fails.
Few ==
  LET p == parts[Main]
      child == log["child"] # <<>>
      timeout == trace.status = "timeout"
      text == Open(Main) /\ state[Main].lastText # Blank
      second == step[Main] > 1
  IN  /\ \A i \in 1..Len(p) : p[i].status = "error" => p[i].call = "serve"
      /\ Len(p) > 1 => ~text /\ p[1].call # "serve"
      /\ Len(p) < 3
      /\ upsets > 0 => now <= 2
      /\ upsets > 1 => now <= 1 /\ p = <<>> /\ ~child /\ ~second
      /\ second \/ child \/ timeout \/ text => now <= 1
      /\ second \/ upsets > 0 \/ child => Len(p) <= 1 /\ ~timeout
      /\ second \/ timeout => ~text
      /\ child => ~second /\ step["child"] < 2 /\ ~text
===============================================================================
