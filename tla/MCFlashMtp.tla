---------------------------- MODULE MCFlashMtp ----------------------------
(* A prompt of single rows, of one native tile, and of both; the budgets   *)
(* let rounds of every extent cross block and page boundaries.             *)
EXTENDS FlashMtp

Prompt(letter, n) == [i \in 1 .. n |-> letter]

MCRequests == {[prompt |-> Prompt("p", 3), budget |-> 8],
               [prompt |-> Prompt("q", 4), budget |-> 6],
               [prompt |-> Prompt("r", 6), budget |-> 3]}
=============================================================================
