---------------------------- MODULE MCDeviceFeed ----------------------------
(* Instances of DeviceFeed for TLC. *)
EXTENDS DeviceFeed, TLC

CONSTANTS d1, u1, a1, a2, p1, p2

OwnerOne == [d \in Devices |-> u1]

R(x, y) == [f \in Families |-> IF f = "v4" THEN x ELSE y]

\* One family at a time; one family with two addresses; one family that moves
\* while the other is only confirmed along with it.
ReportsSplit == {R(a1, None), R(None, a1)}
ReportsOne == {R(a1, None), R(a2, None)}
ReportsMove == {R(a1, a1), R(None, a1), R(None, a2)}

\* The tables and the actors, without what is only ever written.
TablesView == <<now, tables, req, sw>>

\* The log reduced to the (type, id) pairs in it and its length.
EventsView == <<now, tables, seq, req, sw, lost, notices,
                {<<log[i].type, log[i].id>> : i \in DOMAIN log}, Len(log)>>

SymmetryProcs == Permutations(Procs)
Symmetry == Permutations(Procs) \cup Permutations(Addr)
=============================================================================
