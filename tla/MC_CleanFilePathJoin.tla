----------------------- MODULE MC_CleanFilePathJoin -------------------------
(***************************************************************************)
(* Instance of CleanFilePathJoin for TLC: roots with and without a leading *)
(* or trailing "/", and every entry name of up to MaxLen characters over  *)
(* a letter, ".", both separators and ":".                                *)
(***************************************************************************)
EXTENDS CleanFilePathJoin

MCRoots == {<<"r">>, <<"/", "r">>, <<"r", "/", "r">>, <<"r", "/">>, <<"/">>}

MCDestChars == {"a", ".", "/", "\\", ":"}

=============================================================================
