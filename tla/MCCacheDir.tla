------------------------------- MODULE MCCacheDir -------------------------------
(* Instances of CacheDir for TLC: two clients and names for four directories,    *)
(* so that the creation of a system can be cut short twice before both clients   *)
(* have one.  Keys are interchangeable, and so are names.                        *)
EXTENDS CacheDir, TLC

Symmetry == Permutations(Key) \cup Permutations(Uuid)
===============================================================================
