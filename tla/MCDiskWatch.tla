------------------------------ MODULE MCDiskWatch ------------------------------
(***************************************************************************)
(* Small trees for DiskWatch.                                              *)
(***************************************************************************)
EXTENDS DiskWatch

MCPaths   == {Root, <<"a">>, <<"b">>, <<"i">>, <<"a", "c">>, <<"b", "c">>}
MCIgnored == {<<"i">>}
MCDirs    == 0..2
MCTrees   == {(0 :> Root) @@ tree : tree \in {<<New, New>>, <<<<"a">>, <<"a", "c">>>>}}
================================================================================
