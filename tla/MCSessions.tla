----------------------------- MODULE MCSessions -----------------------------
(* A small instance of Sessions for TLC.                                    *)
EXTENDS Sessions, TLC

Interchangeable == Permutations(Requests) \cup Permutations(Logouts)
=============================================================================
