------------------------------- MODULE MCConfig -------------------------------
(* An instance of Config for TLC.                                          *)
EXTENDS Config

CONSTANTS t1, t2, a, bad, text, int, float

(* a: 1, B: {a: 2}; a capital letter is not valid.                         *)
MCDocs == {<<[name |-> a, depth |-> 1, text |-> 1],
             [name |-> bad, depth |-> 1, text |-> text],
             [name |-> a, depth |-> 2, text |-> 2]>>}

Symmetry == Permutations({t1, t2}) \cup Permutations({int, float})

=============================================================================
