---------------------------- MODULE MCNativeWatch ----------------------------
(* Two files and two contents.                                            *)
EXTENDS NativeWatch

CONSTANTS one, two, a, b
=============================================================================
