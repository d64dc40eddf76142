--------------------------- MODULE MCFsyncAbandon ---------------------------
(* Instances of FsyncAbandon: a mortal owner, and threads that wait for    *)
(* what it leaves behind.                                                  *)
EXTENDS FsyncAbandon, TLC

CONSTANTS m1, m2

HeirRoles == 1 :> {"any"} @@ 2 :> {"any", "mutex"} @@ 3 :> {"any"}
First     == {<<m1>>}
=============================================================================
