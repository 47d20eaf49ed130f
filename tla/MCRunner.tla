------------------------------- MODULE MCRunner -------------------------------
(* Model-checking instance of Runner: three tasks over one or two slots, so that *)
(* tasks queue, are handed slots and overtake each other's requests.            *)
EXTENDS Runner
===============================================================================
