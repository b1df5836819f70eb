------------------------------ MODULE MCLogTee ------------------------------
(* Three lines and two kills: an upload under way while the log grows, one *)
(* that overlaps close(), and a job that comes back on either disk.        *)
EXTENDS LogTee

=============================================================================
