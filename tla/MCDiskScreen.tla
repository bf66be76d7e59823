---------------------------- MODULE MCDiskScreen ----------------------------
(* Two files, one and three levels below the home folder's only entry: at    *)
(* two levels the tree of the home folder cuts a/b off, and the list served  *)
(* for a lacks a/b/c, which a walk of a would list.                          *)
EXTENDS DiskScreen

MCFile == {<<"a", "x">>, <<"a", "b", "c", "y">>}
=============================================================================
