----------------------------- MODULE MCToolGate -----------------------------
(* Instances of ToolGate: rules about one tool. *)
EXTENDS ToolGate, TLC

R(name, target, type, action, threshold) ==
    [name |-> name, target |-> target, type |-> type, action |-> action,
     threshold |-> threshold]

CONSTANTS tool

OneLimit == {R("limit", tool, "limit", "block", 1)}

\* The slots of calls in progress are interchangeable.
Alike == Permutations(Slots)
=============================================================================
