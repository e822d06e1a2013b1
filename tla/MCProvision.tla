---------------------------- MODULE MCProvision ----------------------------
(***************************************************************************)
(* Instances of Provision for TLC.                                         *)
(***************************************************************************)
EXTENDS Provision

(* What an earlier call or another client of the cache may have left: no   *)
(* file, a corrupt whole, too long a file.                                 *)
Partials == { << >>, <<1, 0>>, <<1, 2, 0>> }
=============================================================================
