----------------------------- MODULE MCWString -----------------------------
(* Literals that overlap themselves and each other: removing or replacing  *)
(* one can create another.                                                 *)
EXTENDS WString, TLC

MCLiterals == {<<>>, <<"a">>, <<"a", "_">>, <<"_", "a">>, <<"_", "_", "_">>}

MCSymmetry == Permutations(Strings)
=============================================================================
