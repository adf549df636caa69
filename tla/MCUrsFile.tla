----------------------------- MODULE MCUrsFile -----------------------------
(* Two URSs; the paths "a", "b" and two paths of one invalid byte (0xFE,  *)
(* 0xFF), which to_string_lossy maps to the same file name; "b" lies in a *)
(* directory that does not exist.                                         *)
EXTENDS UrsFile

CONSTANTS u1, u2

MCUrss == {u1, u2}

MCCPaths == {<<97>>, <<98>>, <<254>>, <<255>>}

MCCreatable == {<<97>>, <<65533>>}

=============================================================================
