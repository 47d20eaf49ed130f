--------------------------- MODULE WorkspaceProofs ---------------------------
(***************************************************************************)
(* The two promises of _pre_clone, for any number of clone attempts: a     *)
(* reset reproduces base_commit, and without a reset nothing is destroyed. *)
(***************************************************************************)
EXTENDS Workspace, TLAPS

USE RetriesAssumption

LEMMA SomeAttempt == Retries \in Nat /\ 0 \in 0..Retries /\ 0 < Retries
  OBVIOUS

\* A call that runs has no outcome yet, and gives up cloning in time.
Progress ==
  /\ pc # "idle" => outcome = "none"
  /\ pc \in {"probe", "reset", "clean", "remove"} => attempts = 0
  /\ pc = "clone" => attempts < Retries

Typed == TypeOK /\ Progress

LEMMA NextKeepsTyped == Typed /\ [Next]_vars => Typed'
  <1> SUFFICES ASSUME Typed, [Next]_vars PROVE Typed'
    OBVIOUS
  <1> USE DEF Typed, TypeOK, Progress, Residue, disk, Becomes, Goto, End
  <1>1. CASE Call
    <2> USE <1>1 DEF Call
    <2>1. attempts' = 0 /\ attempts' \in 0..Retries /\ attempts' < Retries
      BY SomeAttempt
    <2>2. pc' \in {"clone", "probe"} /\ outcome' = "none" /\ touched' = FALSE
      BY Zenon
    <2>3. TypeOK'
      BY <2>1, <2>2
    <2>4. QED
      BY <2>1, <2>2, <2>3
  <1>2. CASE Probe
    BY <1>2 DEF Probe
  <1>3. CASE ResetSucceeds
    BY <1>3 DEF ResetSucceeds
  <1>4. CASE ResetFails
    BY <1>4 DEF ResetFails, InterruptedCheckout
  <1>5. CASE CleanSucceeds
    BY <1>5 DEF CleanSucceeds
  <1>6. CASE CleanFails
    BY <1>6 DEF CleanFails, InterruptedClean
  <1>7. CASE RemoveSucceeds
    BY <1>7 DEF RemoveSucceeds
  <1>8. CASE RemoveRaises
    BY <1>8 DEF RemoveRaises, InterruptedRemoval
  <1>9. CASE CloneSucceeds
    BY <1>9 DEF CloneSucceeds
  <1>10. CASE CloneFails
    <2> USE <1>10 DEF CloneFails
    <2>1. attempts' = attempts + 1 /\ attempts' \in 0..Retries
      OBVIOUS
    <2>2. \/ pc' = "clone" /\ outcome' = outcome /\ attempts' < Retries
          \/ pc' = "idle" /\ outcome' = "error"
      OBVIOUS
    <2>3. /\ dir' \in {"absent", "broken", "hollow", "repo"}
          /\ head' \in {"base", "other"}
          /\ residue' \subseteq Residue
      BY DEF InterruptedClone
    <2>4. reset' = reset /\ agent' = agent /\ touched' = touched
      OBVIOUS
    <2>5. TypeOK'
      BY <2>1, <2>2, <2>3, <2>4
    <2>6. Progress'
      BY <2>1, <2>2
    <2>7. QED
      BY <2>5, <2>6
  <1>11. CASE CheckoutSucceeds
    BY <1>11 DEF CheckoutSucceeds
  <1>12. CASE CheckoutFails
    BY <1>12 DEF CheckoutFails, InterruptedCheckout
  <1>13. CASE Kill
    BY <1>13 DEF Kill, InterruptedCheckout, InterruptedClean, InterruptedRemoval, InterruptedClone
  <1>14. CASE AgentBegins
    BY <1>14 DEF AgentBegins
  <1>15. CASE AgentWrites
    BY <1>15 DEF AgentWrites, Accepted
  <1>16. CASE AgentEnds
    BY <1>16 DEF AgentEnds
  <1>17. CASE UNCHANGED vars
    BY <1>17 DEF vars
  <1>18. QED
    BY <1>1, <1>2, <1>3, <1>4, <1>5, <1>6, <1>7, <1>8, <1>9, <1>10, <1>11, <1>12,
       <1>13, <1>14, <1>15, <1>16, <1>17 DEF Next

LEMMA InitTyped == Init => Typed
  <1> SUFFICES ASSUME Init PROVE Typed
    OBVIOUS
  <1>1. attempts = 0 /\ attempts \in 0..Retries /\ attempts < Retries
    BY SomeAttempt DEF Init
  <1>2. reset \in BOOLEAN /\ agent \in BOOLEAN /\ touched \in BOOLEAN
    BY Zenon DEF Init
  <1>3. TypeOK
    BY <1>1, <1>2 DEF Init, TypeOK
  <1>4. Progress
    BY <1>1 DEF Init, Progress
  <1>5. QED
    BY <1>3, <1>4 DEF Typed

LEMMA TypedInvariant == Spec => []Typed
  BY InitTyped, NextKeepsTyped, PTL DEF Spec

\* Every state of a directory and of a call is well typed; a call makes at most
\* Retries attempts to clone.
THEOREM WorkspaceTypeCorrect == Spec => []TypeOK
  <1>1. Typed => TypeOK
    BY DEF Typed
  <1>2. QED
    BY <1>1, TypedInvariant, PTL

-------------------------------------------------------------------------------
(* The tree behind the calls.                                                *)

\* A directory that git does not accept holds no artifacts, and only a complete
\* clone is cleaned or checked out.
Tree ==
  /\ ~Accepted => residue = {}
  /\ pc \in {"clean", "checkout"} => dir = "repo"

\* Without --reset-workspace a call removes only what git rejects.
Careful == ~reset =>
  /\ pc \notin {"reset", "clean"}
  /\ pc = "remove" => ~Accepted

LEMMA NextKeepsTree == Typed /\ Tree /\ Careful /\ [Next]_vars => Tree' /\ Careful'
  <1> SUFFICES ASSUME Typed, Tree, Careful, [Next]_vars PROVE Tree' /\ Careful'
    OBVIOUS
  <1> USE DEF Typed, TypeOK, Tree, Careful, Accepted, disk, Becomes, Goto, End
  <1>1. CASE Call
    BY <1>1 DEF Call
  <1>2. CASE Probe
    BY <1>2 DEF Probe
  <1>3. CASE ResetSucceeds
    BY <1>3 DEF ResetSucceeds
  <1>4. CASE ResetFails
    BY <1>4 DEF ResetFails, InterruptedCheckout
  <1>5. CASE CleanSucceeds
    BY <1>5 DEF CleanSucceeds
  <1>6. CASE CleanFails
    BY <1>6 DEF CleanFails, InterruptedClean
  <1>7. CASE RemoveSucceeds
    BY <1>7 DEF RemoveSucceeds
  <1>8. CASE RemoveRaises
    BY <1>8 DEF RemoveRaises, InterruptedRemoval
  <1>9. CASE CloneSucceeds
    BY <1>9 DEF CloneSucceeds
  <1>10. CASE CloneFails
    BY <1>10 DEF CloneFails, InterruptedClone
  <1>11. CASE CheckoutSucceeds
    BY <1>11 DEF CheckoutSucceeds
  <1>12. CASE CheckoutFails
    BY <1>12 DEF CheckoutFails, InterruptedCheckout
  <1>13. CASE Kill
    BY <1>13 DEF Kill, InterruptedCheckout, InterruptedClean, InterruptedRemoval, InterruptedClone
  <1>14. CASE AgentBegins
    BY <1>14 DEF AgentBegins
  <1>15. CASE AgentWrites
    BY <1>15 DEF AgentWrites
  <1>16. CASE AgentEnds
    BY <1>16 DEF AgentEnds
  <1>17. CASE UNCHANGED vars
    BY <1>17 DEF vars
  <1>18. QED
    BY <1>1, <1>2, <1>3, <1>4, <1>5, <1>6, <1>7, <1>8, <1>9, <1>10, <1>11, <1>12,
       <1>13, <1>14, <1>15, <1>16, <1>17 DEF Next

\* What a call has already restored when it awaits its last git command.
Restored == ~touched =>
  /\ pc = "clean" => head = "base" /\ residue \subseteq {"files", "nested"}
  /\ pc = "checkout" => residue = {}

LEMMA NextKeepsRestored ==
    Typed /\ Tree /\ Restored /\ ResetReproduces /\ [Next]_vars => Restored' /\ ResetReproduces'
  <1> SUFFICES ASSUME Typed, Tree, Restored, ResetReproduces, [Next]_vars
               PROVE  Restored' /\ ResetReproduces'
    OBVIOUS
  <1> USE DEF Typed, TypeOK, Progress, Tree, Restored, ResetReproduces, Residue, disk,
              Becomes, Goto, End
  <1>1. CASE Call
    BY <1>1 DEF Call
  <1>2. CASE Probe
    BY <1>2 DEF Probe
  <1>3. CASE ResetSucceeds
    BY <1>3 DEF ResetSucceeds
  <1>4. CASE ResetFails
    BY <1>4 DEF ResetFails, InterruptedCheckout
  <1>5. CASE CleanSucceeds
    BY <1>5 DEF CleanSucceeds
  <1>6. CASE CleanFails
    BY <1>6 DEF CleanFails, InterruptedClean
  <1>7. CASE RemoveSucceeds
    BY <1>7 DEF RemoveSucceeds
  <1>8. CASE RemoveRaises
    BY <1>8 DEF RemoveRaises, InterruptedRemoval
  <1>9. CASE CloneSucceeds
    BY <1>9 DEF CloneSucceeds
  <1>10. CASE CloneFails
    BY <1>10 DEF CloneFails, InterruptedClone
  <1>11. CASE CheckoutSucceeds
    BY <1>11 DEF CheckoutSucceeds
  <1>12. CASE CheckoutFails
    BY <1>12 DEF CheckoutFails, InterruptedCheckout
  <1>13. CASE Kill
    BY <1>13 DEF Kill, InterruptedCheckout, InterruptedClean, InterruptedRemoval, InterruptedClone
  <1>14. CASE AgentBegins
    BY <1>14 DEF AgentBegins
  <1>15. CASE AgentWrites
    BY <1>15 DEF AgentWrites
  <1>16. CASE AgentEnds
    BY <1>16 DEF AgentEnds
  <1>17. CASE UNCHANGED vars
    BY <1>17 DEF vars
  <1>18. QED
    BY <1>1, <1>2, <1>3, <1>4, <1>5, <1>6, <1>7, <1>8, <1>9, <1>10, <1>11, <1>12,
       <1>13, <1>14, <1>15, <1>16, <1>17 DEF Next

LEMMA NextPreservesArtifacts ==
    Typed /\ Tree /\ Careful /\ [Next]_vars => [~reset => residue \subseteq residue']_vars
  <1> SUFFICES ASSUME Typed, Tree, Careful, [Next]_vars, ~reset PROVE residue \subseteq residue'
    OBVIOUS
  <1> USE DEF Typed, TypeOK, Tree, Careful, Accepted, disk, Becomes, Goto, End
  <1>1. CASE Call
    BY <1>1 DEF Call
  <1>2. CASE Probe
    BY <1>2 DEF Probe
  <1>3. CASE ResetSucceeds
    BY <1>3 DEF ResetSucceeds
  <1>4. CASE ResetFails
    BY <1>4 DEF ResetFails, InterruptedCheckout
  <1>5. CASE CleanSucceeds
    BY <1>5 DEF CleanSucceeds
  <1>6. CASE CleanFails
    BY <1>6 DEF CleanFails, InterruptedClean
  <1>7. CASE RemoveSucceeds
    BY <1>7 DEF RemoveSucceeds
  <1>8. CASE RemoveRaises
    BY <1>8 DEF RemoveRaises, InterruptedRemoval
  <1>9. CASE CloneSucceeds
    BY <1>9 DEF CloneSucceeds
  <1>10. CASE CloneFails
    BY <1>10 DEF CloneFails, InterruptedClone
  <1>11. CASE CheckoutSucceeds
    BY <1>11 DEF CheckoutSucceeds
  <1>12. CASE CheckoutFails
    BY <1>12 DEF CheckoutFails, InterruptedCheckout
  <1>13. CASE Kill
    BY <1>13 DEF Kill, InterruptedCheckout, InterruptedClean, InterruptedRemoval, InterruptedClone
  <1>14. CASE AgentBegins
    BY <1>14 DEF AgentBegins
  <1>15. CASE AgentWrites
    BY <1>15 DEF AgentWrites
  <1>16. CASE AgentEnds
    BY <1>16 DEF AgentEnds
  <1>17. CASE UNCHANGED vars
    BY <1>17 DEF vars
  <1>18. QED
    BY <1>1, <1>2, <1>3, <1>4, <1>5, <1>6, <1>7, <1>8, <1>9, <1>10, <1>11, <1>12,
       <1>13, <1>14, <1>15, <1>16, <1>17 DEF Next

-------------------------------------------------------------------------------

Sound == Typed /\ Tree /\ Careful /\ Restored /\ ResetReproduces

LEMMA SoundInvariant == Spec => []Sound
  <1>1. Init => Sound
    BY InitTyped DEF Init, Sound, Tree, Careful, Restored, ResetReproduces, Accepted
  <1>2. Sound /\ [Next]_vars => Sound'
    BY NextKeepsTyped, NextKeepsTree, NextKeepsRestored DEF Sound
  <1>3. QED
    BY <1>1, <1>2, PTL DEF Spec

\* A resetting call that returns leaves the repository at base_commit, whatever
\* happened to the directory before.
THEOREM ResetIsReproducible == Spec => []ResetReproduces
  <1>1. Sound => ResetReproduces
    BY DEF Sound
  <1>2. QED
    BY <1>1, SoundInvariant, PTL

\* Without --reset-workspace no step of any call, failure or kill removes what an
\* agent left behind.
THEOREM ReuseDestroysNothing == Spec => ArtifactsPreserved
  <1>1. Sound /\ [Next]_vars => [~reset => residue \subseteq residue']_vars
    BY NextPreservesArtifacts DEF Sound
  <1>2. QED
    BY <1>1, SoundInvariant, PTL DEF Spec, ArtifactsPreserved
===============================================================================
