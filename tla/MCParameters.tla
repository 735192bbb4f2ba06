---------------------------- MODULE MCParameters ----------------------------
EXTENDS Parameters

(* The names "", "a", "a/", "a/b/", "/a". *)
NameSet == {<<Blank>>, <<"a">>, <<"a", Blank>>, <<"a", "b", Blank>>, <<Blank, "a">>}

Symmetry == Permutations(Objects)
=============================================================================
