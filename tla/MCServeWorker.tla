---------------------------- MODULE MCServeWorker ----------------------------
(***************************************************************************)
(* Instances of ServeWorker for TLC. Chats are alike, and so are lifecycle *)
(* requests: their identities may be permuted where no liveness is         *)
(* checked.                                                                *)
(***************************************************************************)
EXTENDS ServeWorker, TLC

Symmetry == Permutations(Chats) \cup Permutations(Scores) \cup Permutations(Admins)
=============================================================================
