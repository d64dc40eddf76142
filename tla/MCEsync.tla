------------------------------ MODULE MCEsync -------------------------------
(* Instances of Esync for TLC: four programs of two or three threads.      *)
EXTENDS Esync, TLC

CONSTANTS sem, mtx, auto, man

By(t, calls) == {t} \X calls
\* Owners of a mutex, one of which dies, and one who waits for it or a semaphore.
Owning == By(1, {"any", "release mutex"}) \cup By(2, {"any", "release mutex"})
\* A wait for an event that the server, 2, and another thread set and reset.
Setting == By(1, {"any"}) \cup By(2, {"server set"}) \cup By(3, {"set", "reset"})
\* Two waits for what is there only for a moment.
Pulsing == By(1, {"any"}) \cup By(2, {"any"}) \cup By(3, {"release", "pulse"})
\* A wait for all objects, and others that take them away from it.
Gathering == By(1, {"all"}) \cup By(2, {"any", "release mutex"}) \cup By(3, {"release", "any"})
MCRoles == {Owning, Setting, Pulsing, Gathering}
MCAny == Owning :> {<<mtx, sem>>} @@ Setting :> {<<auto, man>>}
         @@ Pulsing :> {<<auto, sem>>} @@ Gathering :> {<<mtx, sem>>}
MCAll == [r \in MCRoles |-> IF r = Gathering THEN {<<sem, mtx>>} ELSE {}]
=============================================================================
