-------------------------- MODULE MCBackUpFreeSpace --------------------------
(* A corridor of two rows: closed everywhere, or open at one end. *)
EXTENDS BackUpFreeSpace

MCMaps == {Cells, Cells \ {<<Width - 1, 0>>}}
=============================================================================
