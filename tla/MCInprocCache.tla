--------------------------- MODULE MCInprocCache ---------------------------
(* Instances of InprocCache: a handle with an entry in the cache and one    *)
(* without, an event and a mutex, a thread that waits for both, one that    *)
(* signals, and closes of the first handle by that thread or another.       *)
EXTENDS InprocCache, TLC

CONSTANTS h1, h2, event, mutant

Kinds == event :> "event" @@ mutant :> "mutex"
Uses  == 1 :> {[handles |-> <<h1, h2>>, type |-> Unknown]}
      @@ 2 :> {[handles |-> <<h1>>, type |-> "event"]}
Names == h1 :> {event, mutant} @@ h2 :> {event}
Ends  == 1 :> {h1} @@ 2 :> {h1}
=============================================================================
