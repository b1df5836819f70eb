----------------------------- MODULE MCStaging -----------------------------
(* Two processes that make three calls, one directory on S3 and one on a   *)
(* mount, each of two files, and room for one of them.                     *)
EXTENDS Staging

Processes == Permutations(Proc)

=============================================================================
