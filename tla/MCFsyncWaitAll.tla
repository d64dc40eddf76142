--------------------------- MODULE MCFsyncWaitAll ---------------------------
(* An instance of FsyncWaitAll: threads that wait for the same objects in  *)
(* different orders, against one that signals and one that dies.           *)
EXTENDS FsyncWaitAll, TLC

CONSTANTS sem, mtx, auto, man

MutexOnly    == {<<mtx>>}
WithEvents   == {<<mtx, sem>>, <<auto, mtx>>}
MixedRoles   == 1 :> {"all"} @@ 2 :> {"all", "mutex"} @@ 3 :> {"set"}
=============================================================================
