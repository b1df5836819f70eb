---------------------------- MODULE MCDownloads ----------------------------
(***************************************************************************)
(* FileReads and Restore side by side: part says which of the two a        *)
(* behaviour is of; the other stays in one initial state.                  *)
(***************************************************************************)
EXTENDS FileReads, Restore, TLC

VARIABLE part

\* One of the three at a time: a tool that does not see the object, a neighbour
\* of its key, callers that are threads.
OneOddity ==
    /\ threads => near = NoSize /\ blind = {}
    /\ near # NoSize => blind = {} /\ object = Gone

NoReads == object = 0 /\ near = NoSize /\ blind = {} /\ ~threads
NoRestore ==
    /\ locals = 1 /\ caller = "full" /\ saved = 1 /\ written = Whole
    /\ hidden = {} /\ stale = {}

\* Enough of the settings: a tool that does not see the checkpoint is one way to be
\* misled, and the other is there for every caller; a stage directory with some of
\* the files matters to the caller that asks for .metadata; load_accelerate_state
\* reads no sidecars, so one saved rank is enough for it.
FewSettings ==
    /\ hidden # {} => caller = "manager"
    /\ stale = {Shards} => caller = "full"
    /\ caller = "accelerate" => saved = 1 /\ written \in {{}, Whole}

Init ==
    /\ part \in {"files", "dirs"}
    /\ ReadsInit /\ OneOddity /\ (part = "dirs" => NoReads)
    /\ RestoreInit /\ FewSettings /\ (part = "files" => NoRestore)

Next ==
    /\ UNCHANGED part
    /\ \/ part = "files" /\ ReadsNext /\ UNCHANGED restoreVars
       \/ part = "dirs" /\ RestoreNext /\ UNCHANGED readVars

Spec == Init /\ [][Next]_<<readVars, restoreVars, part>>

Symmetric == Permutations(Caller)

\* A load does not end in FileNotFoundError when all that it asks for was there:
\* see FileFoundIfThere for a file, DirFoundIfThere for a checkpoint.
FoundIfThere == FileFoundIfThere /\ DirFoundIfThere

=============================================================================
