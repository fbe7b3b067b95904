---------------------------- MODULE MCOrderLedger ----------------------------
(* Instances of OrderLedger for TLC: its sets of ids are interchangeable. *)
EXTENDS OrderLedger, TLC

Symmetry == Permutations(Orders) \cup Permutations(Lines)
                \cup Permutations(Tables) \cup Permutations(Requests)
=============================================================================
