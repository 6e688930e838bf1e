------------------------------- MODULE MCRequest -------------------------------
(* Instances of Request for TLC; the statements of a handler are           *)
(* interchangeable.                                                        *)
EXTENDS Request, TLC

QuerySymmetry == Permutations(Query)
===============================================================================
