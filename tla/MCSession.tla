----------------------------- MODULE MCSession -----------------------------
(* Instance of Session: two sessions of one agent, and one kind of input   *)
(* beside the turns in each behaviour.                                     *)
EXTENDS Session, TLC

MCWorlds == {{"agents"}} \cup {{"shutdown", i} : i \in {"turns", "feedback", "personal", "commits"}}
Symmetry == Permutations(Sessions) \cup Permutations(Rules) \cup Permutations(Excerpts)
=============================================================================
