----------------------------- MODULE MCVfsTree -----------------------------
(* A small instance of VfsTree for TLC.                                    *)
EXTENDS VfsTree

(* Two directories and a name in each.  The one in the second is that of   *)
(* an O_TMPFILE file, or comes with the first directory when it is renamed.*)
PathSet == {<<"a">>, <<"b">>, <<"a", "x">>, <<"b", "x">>}
NewSet == {<<"a">>, <<"b">>, <<"a", "x">>}
TmpSet == {<<"b", "x">>}
=============================================================================
