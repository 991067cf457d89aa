------------------------------- MODULE MCVfs --------------------------------
(* Vfs with buffers of three bytes: paths with and without the slash, one  *)
(* a prefix of another, one that shadows an initramfs file, one too long   *)
(* and an empty one; texts from one byte to one byte too long.             *)
EXTENDS Vfs

MCChars == {"/", " ", "x", "y", "r"}

MCPaths ==
  {<<"/", "x">>, <<"x", "y">>, <<" ", "y">>, <<"x", "y", "x">>, <<>>}

MCTexts == {<<"x">>, <<"y", "x">>, <<"x", "x", "x">>}

MCInitramfs == [p \in {<<"/", "x">>, <<"/", "r">>} |-> <<"r", "x">>]
=============================================================================
