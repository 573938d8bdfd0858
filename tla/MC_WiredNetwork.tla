--------------------------- MODULE MC_WiredNetwork ---------------------------
(* Two network names, the storage suffix and one other suffix, and three  *)
(* file operations: enough for an event on a listed network, a rename     *)
(* from one network file to another, and a file created while readdir and *)
(* l_fswatch_new are apart.                                                *)
EXTENDS WiredNetwork

CONSTANTS a, b, nofile, noname

MCNames == {a, b}
MCFileSuffixes == {".8021x", ".conf"}
MCMaxOps == 3
=============================================================================
