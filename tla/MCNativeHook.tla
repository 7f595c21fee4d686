---------------------------- MODULE MCNativeHook ----------------------------
(* NativeHook on a small instance.                                         *)
EXTENDS NativeHookInv

CONSTANTS t1, t2, p1, p2, TERM, INT

=============================================================================
