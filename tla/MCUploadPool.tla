---------------------------- MODULE MCUploadPool ----------------------------
(* Two threads, two paths and two uploads: enough for a rewrite of a path, *)
(* an upload behind another one, and a wait that overlaps a second wait.   *)
EXTENDS UploadPool

CONSTANTS t1, t2, a, b

MCThread == {t1, t2}
MCPath == {a, b}
MCDirs == {b}

=============================================================================
