--------------------------------- MODULE MCDb ---------------------------------
(* Instances of Db for TLC: the queries are interchangeable.               *)
EXTENDS Db, TLC

QuerySymmetry == Permutations(Query)
===============================================================================
