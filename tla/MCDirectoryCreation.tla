------------------------ MODULE MCDirectoryCreation -------------------------
(* One program whose working directory may be removed: see                  *)
(* CreateDirectoryNoParent.cfg.                                              *)
EXTENDS DirectoryCreation

MCPaths == {<<"a">>, <<"a", "b">>}
MCRemovable == {<<>>, <<"a">>}
=============================================================================
