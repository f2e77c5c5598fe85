----------------------------- MODULE MCPathname -----------------------------
(* Two pathnames made from a file, from a file below a directory and from    *)
(* the parent directory: see PathnameOverlap.cfg.                            *)
EXTENDS Pathname

MCStrings == {<<"a">>, <<"a", "/", "a">>, <<".", ".">>}
=============================================================================
