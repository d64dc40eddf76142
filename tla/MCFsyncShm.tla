----------------------------- MODULE MCFsyncShm -----------------------------
(* An instance of FsyncShm: two processes that share objects, in a map of *)
(* words of two bits.                                                      *)
EXTENDS FsyncShm, TLC

CONSTANTS a, b

Shared     == 1 :> 1 @@ 2 :> 1 @@ 3 :> 2
SharedUses == 1 :> {a} @@ 2 :> {a, b}

=============================================================================
