---------------------------- MODULE MCEventLoop -----------------------------
(* EventLoop for TLC: the sources are model values.                        *)
EXTENDS EventLoop

CONSTANTS s1, s2, s3
=============================================================================
