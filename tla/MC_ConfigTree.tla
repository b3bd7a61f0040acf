---------------------------- MODULE MC_ConfigTree ----------------------------
(***************************************************************************)
(* A small project file for ConfigTree:                                    *)
(*   <root>                      r                                         *)
(*     <a k="..">data</a>        a1                                        *)
(*     <a>data</a>               a2, of another type                       *)
(*     <b><a>data</a></b>        b, c                                      *)
(*   </root>                                                               *)
(***************************************************************************)
EXTENDS ConfigTree, TLC

CONSTANTS r, a1, a2, b, c, v1, v2, v3

SmallDocument ==
  [n \in {r, a1, a2, b, c} |->
     CASE n = r -> [a |-> <<a1, a2>>, b |-> <<b>>]
       [] n = b -> [a |-> <<c>>, b |-> << >>]
       [] OTHER -> [a |-> << >>, b |-> << >>]]

OneAttribute == [n \in {r, a1, a2, b, c} |-> IF n = a1 THEN {"k"} ELSE {}]

AnyVariable == Permutations({v1, v2, v3})
=============================================================================
