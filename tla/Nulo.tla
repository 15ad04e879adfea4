-------------------------------- MODULE Nulo --------------------------------
(* The null pointer of C, which points to no socket, no timer and no item.  *)
CONSTANT NULL
=============================================================================
