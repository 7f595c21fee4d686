--------------------------- MODULE MCNativeDriver ---------------------------
(* NativeDriver with three process numbers: a driver, a child, and one more *)
(* for an orphan or a process that is nothing to us.                       *)
EXTENDS NativeDriver

CONSTANTS q1, q2, q3
=============================================================================
