---------------------------- MODULE MCInstances ----------------------------
(* Two services; classes 1 and 2 differ in body only, 3 in its qualified name. *)
EXTENDS Instances

MCNames == <<"s1", "s2">>
MCQualname(v) == IF v = 3 THEN 2 ELSE 1
=============================================================================
