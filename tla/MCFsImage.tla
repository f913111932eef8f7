------------------------------ MODULE MCFsImage ------------------------------
(***************************************************************************)
(* Blocks of four bytes or two entries, two direct and two indirect block  *)
(* numbers: three files fill two blocks of the directory, and the sizes    *)
(* are those around the end of a block and of the direct blocks.           *)
(***************************************************************************)
EXTENDS FsImage

MCPath == {<<>>, <<"a">>, <<"b">>, <<"long">>, <<"a", "b">>, <<"b", "long">>}

=============================================================================
