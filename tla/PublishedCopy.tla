---------------------------- MODULE PublishedCopy ----------------------------
(***************************************************************************)
(* What every background publisher of arcstore promises, whatever threads, *)
(* queues and retries it is made of: a writer produces versions of each    *)
(* path, and the copy on S3 only ever moves forward to a version that was  *)
(* really written.  The copy of a file is whole, except of one that was    *)
(* opened for writing while its publication was due; a directory may be    *)
(* found half published.  UploadPool implements it (put_async, contents).  *)
(***************************************************************************)
EXTENDS Naturals

CONSTANTS
    Path,        \* the files and directories that are published
    Dirs         \* the directories

VARIABLES
    written,     \* [Path -> Nat]: the last version the program has begun, 0 for none
    published,   \* [Path -> Nat]: the version a reader of S3 finds, 0 for none
    torn,        \* the paths of which a reader finds no whole version
    crossed      \* the paths opened for writing while a publication was due

vars == <<written, published, torn, crossed>>

Init ==
    /\ written = [p \in Path |-> 0]
    /\ published = [p \in Path |-> 0]
    /\ torn = {}
    /\ crossed = {}

\* The program begins the next version of p, a publication of p due or not.
Write(p) ==
    /\ written' = [written EXCEPT ![p] = @ + 1]
    /\ crossed' \in {crossed, crossed \cup {p}}
    /\ UNCHANGED <<published, torn>>

\* S3 is moved to a version of p that is no older than what it held.
Forward(p) ==
    /\ \E v \in published[p] .. written[p] :
            published' = [published EXCEPT ![p] = v]
    /\ UNCHANGED <<written, crossed>>

\* It now holds the whole of it ...
Publish(p) ==
    /\ Forward(p)
    /\ torn' = torn \ {p}

\* ... or a part: some files of a directory, or a file caught in the middle.
PublishPart(p) ==
    /\ p \in Dirs \cup crossed
    /\ Forward(p)
    /\ torn' = torn \cup {p}

Next == \E p \in Path : Write(p) \/ Publish(p) \/ PublishPart(p)

Spec == Init /\ [][Next]_vars

=============================================================================
