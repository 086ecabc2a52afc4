------------------------------ MODULE MCForks ------------------------------
(* Instance of Forks: two clients whose calls may die half-way. *)
EXTENDS Forks, TLC

\* Clients, forks and atoms are interchangeable.
Interchangeable ==
    Permutations(Clients) \cup Permutations(ForkIds) \cup Permutations(Atoms)
=============================================================================
