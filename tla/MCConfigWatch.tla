--------------------------- MODULE MCConfigWatch ---------------------------
(* Small instances of the change stream and its clients.                   *)
EXTENDS ConfigWatch, TLC

ClientSymmetry == Permutations(Clients)
=============================================================================
