----------------------------- MODULE MCJobStream -----------------------------
(* JobStream with room for every frame, and with so little that frames are   *)
(* lost and the backlog is cut.                                              *)
EXTENDS JobStream

Wide == [queue |-> 5, page |-> 6]
Narrow == [queue |-> 1, page |-> 2]
Either == {Wide, Narrow}
JustWide == {Wide}
=============================================================================
