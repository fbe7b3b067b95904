--------------------------- MODULE MCOrderCommands ---------------------------
(* An instance of OrderCommands for TLC: keys and requests are interchangeable. *)
EXTENDS OrderCommands, TLC

KeysAndRequests == Permutations(Keys) \cup Permutations(Requests)
=============================================================================
