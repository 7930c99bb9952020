----------------------------- MODULE MCRuntime -----------------------------
(* A plain and a streaming run for TLC.                                    *)
EXTENDS Runtime

CONSTANTS r1, r2
=============================================================================
