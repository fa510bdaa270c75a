--------------------------- MODULE MCMeshScheduler ---------------------------
(* A row of chunks: each is the neighbour of the next. *)
EXTENDS MeshScheduler, Integers

Row == [c \in Coords |-> {d \in Coords : d - c \in {-1, 0, 1}}]
=============================================================================
