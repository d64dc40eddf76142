---------------------------- MODULE MCFsyncWait ----------------------------
(* Instances of FsyncWait for TLC: what each of three threads calls, and   *)
(* the arrays of handles they wait on.                                     *)
EXTENDS FsyncRefinement, TLC

CONSTANTS sem, mtx, auto, man

\* Two may sleep on the event at once, and one that waits for all three may own
\* the mutex already.
ThreeOrOne == {<<man, mtx, sem>>, <<man>>}
Roles == 1 :> {"any", "mutex"} @@ 2 :> {"any", "semaphore"} @@ 3 :> {"pulse"}
=============================================================================
