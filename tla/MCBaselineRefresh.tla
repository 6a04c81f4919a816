--------------------------- MODULE MCBaselineRefresh ---------------------------
(***************************************************************************)
(* Two results and two exports: the second contains the first result with  *)
(* the value WCA made of it, which is worse than the one reported live.    *)
(***************************************************************************)
EXTENDS BaselineRefresh

MCResults == {1, 2}

MCContents ==
  {[value |-> 3, fit |-> TRUE], [value |-> 3, fit |-> FALSE]}

MCExports == {1, 2}
MCRecord  == [e \in MCExports |-> IF e = 1 THEN 6 ELSE 4]
MCAbsorbs == [e \in MCExports |-> IF e = 1 THEN {} ELSE {1}]
=============================================================================
