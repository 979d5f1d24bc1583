--------------------------- MODULE MCConnections ---------------------------
(***************************************************************************)
(* Two connections for three uploads of one user, a delete and a compile   *)
(* task: uploads that wait for each other can take the whole pool.         *)
(***************************************************************************)
EXTENDS Connections

MCRowOf ==
    [t \in Updates |-> IF t = "delete" THEN "clip" ELSE IF t = "reel" THEN NoRow ELSE "user"]
MCSessions == [t \in Updates |-> 2]
=============================================================================
