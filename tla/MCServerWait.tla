---------------------------- MODULE MCServerWait ----------------------------
(* An instance of ServerWait: a thread that waits for any and for all of    *)
(* two objects, alertable or not, with and without a deadline, after a      *)
(* signal or not, among others that signal, suspend, edit and kill it.      *)
EXTENDS ServerWait, TLC

CONSTANTS e1, e2

WaitOne(o, d)    == [objs |-> <<o>>, all |-> FALSE, signal |-> Nothing, alertable |-> TRUE, deadline |-> d]
WaitAll(d)       == [objs |-> <<e1, e2>>, all |-> TRUE, signal |-> Nothing, alertable |-> FALSE, deadline |-> d]
Signalling(s, o) == [objs |-> <<o>>, all |-> FALSE, signal |-> s, alertable |-> TRUE, deadline |-> "never"]

Mixed  == 1 :> {WaitOne(e1, "ahead"), WaitAll("never"), Signalling(e1, e1)}
Acts   == 1 :> {"suspend", "set", "apc", "kill"}
=============================================================================
