----------------------------- MODULE FileReads -----------------------------
(***************************************************************************)
(* Reading one S3 object through the cache of ensure_local_file            *)
(* (src/src/staging.py), the mirror of ContentsManager.open                *)
(* (src/src/contents.py) or straight into memory (src/src/io.py).  The     *)
(* callers are processes of a node or the threads of one process; the      *)
(* object may be written again while they read, by others or through the   *)
(* same mirror.                                                            *)
(***************************************************************************)
EXTENDS S3Cli

CONSTANTS
    Caller,       \* who reads
    MaxVersion,   \* bound on the versions of the object
    MaxReads      \* bound on the calls of all callers

ASSUME FileReadsAssumption ==
    /\ MaxVersion \in Nat /\ MaxReads \in Nat
    /\ Caller \cap {"cached", "mirror", "tmp"} = {}

\* The files: the cache, the mirror, and the temporary files, one of each process.
Path == {"cached", "mirror", "tmp"} \cup Caller

\* What a file holds: a version, nothing, the beginning of something, or all of
\* what an open for writing wrote.
Gone == 0
CutShort == -1
OwnWrite == -2
Version == 1 .. MaxVersion

\* The second and the third version have the same size.
SizeOf(v) == IF v \in {Gone, CutShort} THEN NoSize ELSE 1 + v \div 2

VARIABLES
    object,    \* the version on S3
    near,      \* the size of another object whose key begins with this one
    blind,     \* the tools that do not see the object
    threads,   \* the callers are threads of one process
    writer,    \* of the mirror: "none", "writing", or "queued" for its upload
    disk,      \* [Path -> what the file holds]
    rpc,       \* [Caller -> where it is]
    rop,       \* [Caller -> what it called]
    head,      \* [Caller -> the size head_object gave]
    reads,     \* the calls so far
    seen,      \* history: [Caller -> versions on S3 during its call]
    unsure,    \* history: the mirror was filled or written by two at once, not to its
               \* end, or while somebody opened it for reading
    misled     \* history: [Caller -> its download was misled]

\* What no step of a reader changes, but for the object.
outside == <<near, blind, threads, writer>>
rcall == <<rop, reads>>
readVars == <<object, outside, disk, rpc, rcall, head, seen, unsure, misled>>

Op == {"ensure", "open", "bytes"}
There == object # Gone

ReadsInit ==
    /\ object \in 0 .. MaxVersion
    /\ near \in {NoSize, SizeOf(MaxVersion)}
    /\ blind \in {{}, {"s5cmd"}} /\ threads \in BOOLEAN
    /\ writer = "none"
    /\ disk \in {[f \in Path |-> IF f = "cached" THEN v ELSE Gone] : v \in 0 .. object}
    /\ rpc = [c \in Caller |-> "idle"] /\ rop = [c \in Caller |-> "none"]
    /\ head = [c \in Caller |-> NoSize] /\ reads = 0
    /\ seen = [c \in Caller |-> {}] /\ unsure = FALSE
    /\ misled = [c \in Caller |-> FALSE]

\* {local_path}.tmp.{pid}
Tmp(c) == IF threads THEN "tmp" ELSE c

\* Where the download of a call goes.
Target(c) == IF rop[c] = "open" THEN "mirror" ELSE Tmp(c)

RGoto(c, l) == rpc' = [rpc EXCEPT ![c] = l]

\* The call is over.
REnd(c) ==
    /\ RGoto(c, "idle") /\ UNCHANGED reads
    /\ rop' = [rop EXCEPT ![c] = "none"] /\ head' = [head EXCEPT ![c] = NoSize]
    /\ seen' = [seen EXCEPT ![c] = {}] /\ misled' = [misled EXCEPT ![c] = FALSE]

\* Bug: a cached file is used whatever its size.
AnyCached(c) == disk["cached"] # Gone

\* The byte-size check of the cache.
SameSize(c) ==
    head[c] # NoSize /\ disk["cached"] # Gone /\ SizeOf(disk["cached"]) = head[c]

-----------------------------------------------------------------------------
\* Somebody else writes the object.
WriteObject ==
    /\ object < MaxVersion /\ object' = object + 1
    /\ seen' = [c \in Caller |-> IF rpc[c] = "idle" THEN {} ELSE seen[c] \cup {object + 1}]
    /\ UNCHANGED <<outside, disk, rpc, rcall, head, unsure, misled>>

-----------------------------------------------------------------------------
(* ContentsManager.open for writing: the caller writes the mirror in       *)
(* place.  One such write at a time; of two see UploadPool.                *)

\* Somebody is between the open of the mirror for reading and its path.
Reading == \E d \in Caller : rop[d] = "open"

MirrorStep == UNCHANGED <<near, blind, threads, rpc, rcall, head, misled>>

MirrorBegin ==
    /\ writer = "none" /\ writer' = "writing"
    /\ disk' = [disk EXCEPT !["mirror"] = CutShort]
    /\ unsure' = (unsure \/ Reading)
    /\ UNCHANGED <<object, seen>> /\ MirrorStep

\* The with-block is left: the file is queued for its upload ...
MirrorEnd ==
    /\ writer = "writing" /\ writer' = "queued"
    /\ disk' = [disk EXCEPT !["mirror"] = OwnWrite]
    /\ UNCHANGED <<object, seen, unsure>> /\ MirrorStep

\* ... or it raised: the file stays as it is, and nothing is queued.
MirrorRaises ==
    /\ writer = "writing" /\ writer' = "none"
    /\ unsure' = TRUE
    /\ UNCHANGED <<object, seen, disk>> /\ MirrorStep

\* The upload fails ...
MirrorUploadFails ==
    /\ writer = "queued" /\ writer' = "none"
    /\ UNCHANGED <<object, seen, disk, unsure>> /\ MirrorStep

\* ... or is done, and the file is removed unless keep_local.
MirrorUploaded ==
    /\ writer = "queued" /\ writer' = "none"
    /\ object < MaxVersion /\ object' = object + 1
    /\ seen' = [c \in Caller |-> IF rpc[c] = "idle" THEN {} ELSE seen[c] \cup {object + 1}]
    /\ \/ UNCHANGED <<disk, unsure>>
       \/ /\ disk' = [disk EXCEPT !["mirror"] = Gone]
          /\ unsure' = (unsure \/ Reading)
    /\ MirrorStep

-----------------------------------------------------------------------------

\* A call is filling the mirror.
Filling == \E d \in Caller : rop[d] = "open" /\ rpc[d] \in {"cli", "boto", "missing"}

\* A mirror that is there is used as it is (ContentsManager.open); the other two
\* take what the mount shows first.
FirstStep(op, mounted) ==
    CASE op = "open" -> IF disk["mirror"] # Gone THEN "found" ELSE "cli"
      [] op = "ensure" -> IF mounted THEN "found" ELSE "head"
      [] op = "bytes" -> IF mounted THEN "found" ELSE "cli"

ReadCall(c, op, mounted) ==
    /\ rpc[c] = "idle" /\ reads < MaxReads
    /\ reads' = reads + 1 /\ rop' = [rop EXCEPT ![c] = op]
    /\ seen' = [seen EXCEPT ![c] = {object}]
    /\ RGoto(c, FirstStep(op, mounted))
    /\ unsure' = (unsure \/ (op = "open" /\ (Filling \/ writer = "writing")))
    /\ UNCHANGED <<object, outside, disk, head, misled>>

\* The path of the mount or of the mirror is handed out, or the bytes are.
Found(c) ==
    /\ rpc[c] = "found" /\ REnd(c)
    /\ UNCHANGED <<object, outside, disk, unsure>>

HeadObject(c) ==
    /\ rpc[c] = "head"
    /\ \E size \in Heads(SizeOf(object), near, blind) : head' = [head EXCEPT ![c] = size]
    /\ RGoto(c, "check")
    /\ UNCHANGED <<object, outside, disk, rcall, seen, unsure, misled>>

CacheHit(c) ==
    /\ rpc[c] = "check" /\ SameSize(c)
    /\ REnd(c)
    /\ UNCHANGED <<object, outside, disk, unsure>>

CacheMiss(c) ==
    /\ rpc[c] = "check" /\ ~SameSize(c)
    /\ RGoto(c, "cli")
    /\ UNCHANGED <<object, outside, disk, rcall, head, seen, unsure, misled>>

-----------------------------------------------------------------------------
(* download_file and read_object_bytes.                                    *)

\* A tool that writes in place.
StartFile(c) ==
    /\ rpc[c] = "cli" /\ rop[c] # "bytes" /\ There
    /\ disk[Target(c)] # CutShort
    /\ disk' = [disk EXCEPT ![Target(c)] = CutShort]
    /\ UNCHANGED <<object, outside, rpc, rcall, head, seen, unsure, misled>>

Downloaded(c) ==
    /\ RGoto(c, IF rop[c] = "bytes" THEN "found" ELSE "replace")
    /\ disk' = IF rop[c] = "bytes" THEN disk ELSE [disk EXCEPT ![Target(c)] = object]

\* ensure_local_file unlinks its temporary file, open leaves what there is.
Raises(c) ==
    /\ REnd(c)
    /\ disk' = IF rop[c] = "ensure" THEN [disk EXCEPT ![Tmp(c)] = Gone] ELSE disk
    /\ unsure' = (unsure \/ (rop[c] = "open" /\ disk["mirror"] = CutShort))

CliEnds(c) ==
    /\ rpc[c] = "cli"
    /\ \E r \in CliResults(There, blind) :
        \/ r[1] = "done" /\ Downloaded(c) /\ UNCHANGED misled
        \/ r[1] \in {"failed", "none"} /\ RGoto(c, "boto") /\ UNCHANGED <<disk, misled>>
        \/ /\ r[1] = "absent" /\ RGoto(c, "missing")
           /\ misled' = [misled EXCEPT ![c] = r[2]] /\ UNCHANGED disk
    /\ UNCHANGED <<object, outside, rcall, head, seen, unsure>>

BotoEnds(c) ==
    /\ rpc[c] = "boto"
    /\ \E b \in BotoAnswers(There) :
        \/ b = "done" /\ Downloaded(c) /\ UNCHANGED <<head, rcall, seen, unsure, misled>>
        \/ b = "absent" /\ RGoto(c, "missing")
           /\ UNCHANGED <<disk, head, rcall, seen, unsure, misled>>
        \/ b = "error" /\ Raises(c)
    /\ UNCHANGED <<object, outside>>

\* FileNotFoundError.
RaisesNotFound(c) ==
    /\ rpc[c] = "missing" /\ Raises(c)
    /\ UNCHANGED <<object, outside>>

\* os.replace, unless another thread has taken the temporary file away.
Replace(c) ==
    /\ rpc[c] = "replace" /\ (rop[c] = "ensure" => disk[Tmp(c)] # Gone)
    /\ disk' = IF rop[c] = "ensure"
               THEN [disk EXCEPT !["cached"] = disk[Target(c)], ![Tmp(c)] = Gone]
               ELSE disk
    /\ REnd(c)
    /\ UNCHANGED <<object, outside, unsure>>

ReplaceFails(c) ==
    /\ rpc[c] = "replace" /\ rop[c] = "ensure" /\ disk[Tmp(c)] = Gone
    /\ Raises(c)
    /\ UNCHANGED <<object, outside>>

\* The process dies.  What it downloaded stays; nobody looks for a temporary
\* file of a process that is gone.
ReaderDies(c) ==
    /\ ~threads /\ rpc[c] # "idle" /\ REnd(c)
    /\ disk' = [disk EXCEPT ![Tmp(c)] = Gone]
    /\ unsure' = (unsure \/ (rop[c] = "open" /\ disk["mirror"] = CutShort))
    /\ UNCHANGED <<object, outside>>

ReadsNext ==
    \/ WriteObject
    \/ MirrorBegin \/ MirrorEnd \/ MirrorRaises \/ MirrorUploadFails \/ MirrorUploaded
    \/ \E c \in Caller :
        \/ \E op \in Op, mounted \in BOOLEAN : ReadCall(c, op, mounted)
        \/ Found(c) \/ HeadObject(c) \/ CacheHit(c) \/ CacheMiss(c)
        \/ StartFile(c) \/ CliEnds(c) \/ BotoEnds(c) \/ RaisesNotFound(c)
        \/ Replace(c) \/ ReplaceFails(c) \/ ReaderDies(c)

-----------------------------------------------------------------------------
(* Properties.                                                             *)

\* The sizes a head_object of this call may have given.
Sizes(c) == {SizeOf(v) : v \in seen[c]} \cup (IF Gone \in seen[c] THEN {near} ELSE {})

\* The calls that hand out the file in the cache.
FromCache(c) == CacheHit(c) \/ (rop[c] = "ensure" /\ Replace(c))
FromMirror(c) == rop[c] = "open" /\ (Found(c) \/ Replace(c))

\* What ensure_local_file hands out was on S3 during the call, or has the size
\* of what was (or of an object that its listing takes for it): the check is of
\* the size alone, but it is a check at every call.  So it is never cut short:
\* "atomic tmp+rename so concurrent workers never observe a half-written file",
\* for processes, not for the threads of one, which share the temporary name.
\* The mirror of ContentsManager has no such care: its files are whole unless two
\* calls filled one at once, or one was opened for reading while it was written or
\* removed, or a fill or a write that failed or died had begun.
ReadsCurrent ==
    [][\A c \in Caller :
        /\ FromCache(c) /\ ~threads =>
            \/ disk'["cached"] \in seen[c]
            \/ SizeOf(disk'["cached"]) \in Sizes(c) \ {NoSize}
        /\ FromMirror(c) /\ ~unsure => disk["mirror"] # CutShort]_readVars

\* FileNotFoundError is not raised for an object that was there all through the
\* call, whatever the mount shows and whichever tools fail, unless the output that
\* ended the search came from a tool that does not see the object, or was that of
\* another failure with the words of a missing object in it.
FileFoundIfThere ==
    [][\A c \in Caller : RaisesNotFound(c) => Gone \in seen[c] \/ misled[c]]_readVars

=============================================================================
