--------------------------- MODULE MCSocketOverlap ---------------------------
(* Three daemons whose starts and stops nobody keeps apart.                *)
EXTENDS SocketOwnership
=============================================================================
