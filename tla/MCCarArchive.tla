---------------------------- MODULE MCCarArchive ----------------------------
(* Instances of CarArchive: a directory of two entries, one of which may be *)
(* a directory with an entry, and files of none or two bytes; or one file   *)
(* with bytes that can be taken for a link.                                 *)
EXTENDS CarArchive

SomePaths == {<<97>>, <<98>>, <<97, 97>>}
SomeContents == {<<>>, <<0, 98>>}
OnePath == {<<97>>}
LikeALink == {<<97, 128, 97, 0>>}
=============================================================================
