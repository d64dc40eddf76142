----------------------------- MODULE MCVmViews -----------------------------
(***************************************************************************)
(* The smallest address spaces in which the cases of VmViews happen.       *)
(***************************************************************************)
EXTENDS VmViews

MCPreloaded == {[base |-> 4, end |-> 8]}
MCPreload == [base |-> 2, end |-> 4]
Ask(size, top, kind) ==
  [size |-> size, align |-> 2, top |-> top, low |-> 0, high |-> 12, kind |-> kind]
MCRequests == {Ask(2, TRUE, "memory"), Ask(2, FALSE, "file"), Ask(3, FALSE, "memory")}
MCPlaces == {[base |-> 4, end |-> 8, kind |-> "hole"], [base |-> 8, end |-> 13, kind |-> "hole"],
             [base |-> 6, end |-> 9, kind |-> "file"]}
MCPieces == {[base |-> 7, end |-> 8], [base |-> 8, end |-> 10]}
MCNatives == {[base |-> 5, end |-> 6], [base |-> 8, end |-> 9]}
MCLowAreas == {[base |-> 4, end |-> 6]}

\* A piece that ends inside a granule.
PagePieces == MCPieces \cup {[base |-> 4, end |-> 5], [base |-> 5, end |-> 6]}
============================================================================
