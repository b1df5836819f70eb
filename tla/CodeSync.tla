------------------------------ MODULE CodeSync ------------------------------
(***************************************************************************)
(* arcstore-sync (src/src/sync.py): push mirrors a working tree to an S3   *)
(* prefix, deletions included, after a preview by a dry run and a question *)
(* to the user; pull copies the other way and deletes nothing.  Others may *)
(* push to the prefix and the user may edit the tree at any point.         *)
(***************************************************************************)
EXTENDS Integers, FiniteSets

CONSTANTS
    File,       \* paths relative to the root
    Excluded,   \* those that DEFAULT_EXCLUDES matches
    Submodule,  \* those in submodules
    MaxShown,   \* deletions that the preview names: 20
    MaxEdits    \* bound on the changes that others make

ASSUME CodeSyncAssumption ==
    Excluded \subseteq File /\ Submodule \subseteq File \ Excluded /\ {MaxShown, MaxEdits} \subseteq Nat

VARIABLES
    tree,      \* the files of the working tree
    prefix,    \* the objects under the prefix
    edits,     \* the changes of others so far
    cmd,       \* "none", or where a push or a pull is
    args,      \* the options given to push
    counted,   \* the deletions that the preview found: the user is told their number
    shown,     \* those of them that the user was shown by name
    agreed,    \* history: the user said yes to them, or --yes
    dryFailed, \* history: the dry run of this push failed
    changed    \* history: files and objects that changed since its preview

asked == <<counted, shown, agreed, dryFailed>>
syncVars == <<tree, prefix, edits, cmd, args, asked, changed>>

Option == {"yes", "dry_run", "allow_empty_submodules"}

SyncInit ==
    /\ tree \in SUBSET File /\ prefix \in SUBSET File
    /\ edits = 0 /\ cmd = "none" /\ args = {}
    /\ counted = {} /\ shown = {} /\ agreed = FALSE /\ dryFailed = FALSE /\ changed = {}

\* Others: another push to the same prefix, an editor, a checkout.
Edit ==
    /\ edits < MaxEdits /\ edits' = edits + 1
    /\ \E f \in File :
        /\ changed' = changed \cup {f}
        /\ \/ prefix' = (prefix \ {f}) \cup ({f} \ prefix) /\ UNCHANGED tree
           \/ tree' = (tree \ {f}) \cup ({f} \ tree) /\ UNCHANGED prefix
    /\ UNCHANGED <<cmd, args, asked>>

SyncEnd(new) == cmd' = new /\ UNCHANGED <<tree, prefix, edits>>

-----------------------------------------------------------------------------
(* cmd_push                                                                *)

\* empty_submodules
EmptySubmodules == Submodule # {} /\ tree \cap Submodule = {}

\* Exits when a submodule is empty, unless told otherwise, and without s5cmd.
Push(options, installed) ==
    /\ cmd = "none"
    /\ IF installed /\ (EmptySubmodules => "allow_empty_submodules" \in options)
       THEN cmd' = "preview" /\ args' = options
       ELSE UNCHANGED <<cmd, args>>
    /\ counted' = {} /\ shown' = {} /\ agreed' = FALSE /\ dryFailed' = FALSE /\ changed' = {}
    /\ UNCHANGED <<tree, prefix, edits>>

\* What the tree has and is not excluded; what a mirror removes.  (The tool takes
\* excluded objects for stale, or spares them: the same in dry run and sync.)
Sources == tree \ Excluded
Stale == prefix \ Sources

\* The lines of the dry run that begin with "rm ".
Deletions == Stale

\* Bug: the question is put for one deletion, not for more.
AsksForOne(d) == Cardinality(d) = 1 /\ "yes" \notin args

\* deletes and not args.yes
Asks(d) == d # {} /\ "yes" \notin args

\* deletes[:20]: the first ones are named, the others counted ("... and N more").
Names(found) ==
    {named \in SUBSET found :
        Cardinality(named) <= MaxShown /\ (named = found \/ Cardinality(named) = MaxShown)}

\* The exit code of the dry run is not looked at: what one that fails has printed
\* before, some lines or none, is taken for all there is.
Preview ==
    /\ cmd = "preview" /\ changed' = {}
    /\ agreed' = ("yes" \in args)
    /\ \/ counted' = Deletions /\ UNCHANGED dryFailed
       \/ counted' \in SUBSET Deletions /\ dryFailed' = TRUE
    /\ shown' \in Names(counted')
    /\ SyncEnd(IF Asks(counted') THEN "confirm" ELSE "sync")
    /\ UNCHANGED args

\* _confirm: yes, or anything else, or no terminal.
Confirm(answer) ==
    /\ cmd = "confirm" /\ SyncEnd(IF answer THEN "sync" ELSE "none")
    /\ agreed' = answer
    /\ UNCHANGED <<args, counted, shown, dryFailed, changed>>

\* --dry-run ends here.
DryRun ==
    /\ cmd = "sync" /\ "dry_run" \in args /\ SyncEnd("none")
    /\ UNCHANGED <<args, asked, changed>>

\* s5cmd sync --delete: file by file, each as it is now.
MirrorFile(f) ==
    /\ cmd = "sync" /\ "dry_run" \notin args
    /\ \/ f \in Sources \ prefix /\ prefix' = prefix \cup {f}
       \/ f \in Stale /\ prefix' = prefix \ {f}
    /\ UNCHANGED <<tree, edits, cmd, args, asked, changed>>

\* It ends when all is mirrored, and raises when some of it failed.
MirrorEnds(failed) ==
    /\ cmd = "sync" /\ "dry_run" \notin args /\ (failed \/ prefix = Sources)
    /\ SyncEnd("none")
    /\ UNCHANGED <<args, asked, changed>>

-----------------------------------------------------------------------------
(* cmd_pull                                                                *)

Pull(options) ==
    /\ cmd = "none" /\ cmd' = "pull" /\ args' = options
    /\ UNCHANGED <<tree, prefix, edits, asked, changed>>

\* s5cmd sync without --delete.
Fetches(f) == f \in prefix \ tree /\ tree' = tree \cup {f}

PullFile(f) ==
    /\ cmd = "pull" /\ "dry_run" \notin args /\ Fetches(f)
    /\ UNCHANGED <<prefix, edits, cmd, args, asked, changed>>

PullEnds ==
    /\ cmd = "pull" /\ SyncEnd("none")
    /\ UNCHANGED <<args, asked, changed>>

SyncNext ==
    \/ Edit \/ Preview \/ DryRun \/ PullEnds
    \/ \E options \in SUBSET Option, installed \in BOOLEAN : Push(options, installed)
    \/ \E options \in SUBSET {"dry_run"} : Pull(options)
    \/ \E b \in BOOLEAN : Confirm(b) \/ MirrorEnds(b)
    \/ \E f \in File : MirrorFile(f) \/ PullFile(f)

SyncSpec == SyncInit /\ [][SyncNext]_syncVars

-----------------------------------------------------------------------------
(* Properties.                                                             *)

\* A push removes an object only if the preview had found it, and the user was
\* shown its name, or the number of more deletions than the preview names, and
\* said yes (or gave --yes beforehand); unless the dry run failed, or somebody
\* changed this very file or object since: "previews + confirms any deletions".
\* With --dry-run it removes nothing, and pull never does.
Announced(f) == f \in shown \/ (f \in counted /\ Cardinality(shown) = MaxShown)

DeletesConfirmed ==
    [][\A f \in File :
        /\ MirrorFile(f) /\ f \notin prefix' =>
            /\ (Announced(f) /\ agreed) \/ f \in changed \/ dryFailed
            /\ "dry_run" \notin args
        /\ (PullFile(f) \/ PullEnds) => tree \subseteq tree']_syncVars

=============================================================================
