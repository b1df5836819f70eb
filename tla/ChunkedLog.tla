---------------------------- MODULE ChunkedLog ----------------------------
(***************************************************************************)
(* The chunked log tee (_main_chunked of src/src/logtee.py): lines go to   *)
(* stdout and to numbered chunk files, the current chunk is uploaded every *)
(* few seconds, and a last time when it is full or the input ends.  An     *)
(* upload that fails ends the tee; it may be killed and started again, on  *)
(* the same disk or on a new one.                                          *)
(***************************************************************************)
EXTENDS Integers, Sequences, SequencesExt

CONSTANTS
    MaxLines,    \* bound on the lines of the job
    MaxSize,     \* bound on the size of a line
    ChunkBytes,  \* --chunk-bytes
    MaxStarts    \* bound on the starts of the tee

ASSUME ChunkedLogAssumption ==
    /\ MaxLines \in Nat /\ MaxSize \in Nat \ {0}
    /\ ChunkBytes \in Nat \ {0} /\ MaxStarts \in Nat \ {0}

Chunk == 0 .. MaxLines
Line == 1 .. MaxLines

VARIABLES
    arrived,   \* lines that came so far
    local,     \* [Chunk -> the lines in its file]
    remote,    \* [Chunk -> the lines in its object]
    idx,       \* chunk_idx
    size,      \* chunk_size
    tee,       \* "read", "written", "full", "closing", "ended" or "killed"
    starts,    \* starts so far
    sinceStart, \* history: the lines that came since this start
    clean,     \* history: the last upload went through
    diskLost   \* history: the tee was started on an empty disk again

chunkVars == <<arrived, local, remote, idx, size, tee, starts, sinceStart, clean, diskLost>>

ChunksInit ==
    /\ arrived = 0 /\ idx = 0 /\ size = 0
    /\ local = [k \in Chunk |-> <<>>] /\ remote = [k \in Chunk |-> <<>>]
    /\ tee = "read" /\ starts = 1 /\ sinceStart = <<>>
    /\ clean = FALSE /\ diskLost = FALSE

\* A line is written to stdout and to the file.
TeeLine(n) ==
    /\ tee = "read" /\ arrived < MaxLines
    /\ arrived' = arrived + 1
    /\ local' = [local EXCEPT ![idx] = Append(@, arrived + 1)]
    /\ sinceStart' = Append(sinceStart, arrived + 1)
    /\ size' = size + n /\ tee' = "written"
    /\ UNCHANGED <<remote, idx, starts, clean, diskLost>>

\* _upload_current: nothing is done about an empty file.
UploadCurrent == remote' = IF local[idx] = <<>> THEN remote ELSE [remote EXCEPT ![idx] = local[idx]]

AfterUpload == IF size >= ChunkBytes THEN "full" ELSE "read"

\* The interval is over, or not.
IntervalUpload ==
    /\ tee = "written"
    /\ \/ UploadCurrent /\ tee' = AfterUpload
       \/ UNCHANGED remote /\ tee' = AfterUpload
       \/ UNCHANGED remote /\ tee' = "closing"
    /\ UNCHANGED <<arrived, local, idx, size, starts, sinceStart, clean, diskLost>>

\* Bug: a chunk that is full is left as its last interval found it.
NoUpload == UNCHANGED remote

\* A chunk is full: upload, then on to the next one.
FullUpload == UploadCurrent

Rotate ==
    /\ tee = "full"
    /\ \/ /\ FullUpload
          /\ idx' = idx + 1 /\ size' = 0 /\ tee' = "read"
       \/ UNCHANGED <<remote, idx, size>> /\ tee' = "closing"
    /\ UNCHANGED <<arrived, local, starts, sinceStart, clean, diskLost>>

EndOfInput ==
    /\ tee = "read" /\ tee' = "closing"
    /\ UNCHANGED <<arrived, local, remote, idx, size, starts, sinceStart, clean, diskLost>>

\* The finally block.
LastUpload ==
    /\ tee = "closing" /\ tee' = "ended"
    /\ \/ UploadCurrent /\ clean' = TRUE
       \/ UNCHANGED remote /\ clean' = FALSE
    /\ UNCHANGED <<arrived, local, idx, size, starts, sinceStart, diskLost>>

TeeKilled ==
    /\ tee \in {"read", "written", "full", "closing"} /\ tee' = "killed"
    /\ UNCHANGED <<arrived, local, remote, idx, size, starts, sinceStart, clean, diskLost>>

\* The tee is started again: it appends to what its files have.
TeeStarts(newDisk) ==
    /\ tee \in {"ended", "killed"} /\ starts < MaxStarts
    /\ starts' = starts + 1 /\ tee' = "read" /\ idx' = 0 /\ size' = 0
    /\ local' = IF newDisk THEN [k \in Chunk |-> <<>>] ELSE local
    /\ diskLost' = (diskLost \/ newDisk)
    /\ sinceStart' = <<>> /\ clean' = FALSE
    /\ UNCHANGED <<arrived, remote>>

ChunksNext ==
    \/ \E n \in 1 .. MaxSize : TeeLine(n)
    \/ IntervalUpload \/ Rotate \/ EndOfInput \/ LastUpload \/ TeeKilled
    \/ \E newDisk \in BOOLEAN : TeeStarts(newDisk)

ChunksSpec == ChunksInit /\ [][ChunksNext]_chunkVars

-----------------------------------------------------------------------------
(* Properties.                                                             *)

Sent == UNION {ToSet(remote[k]) : k \in Chunk}

\* A chunk that the tee has gone on from is on S3 as it is in its file, the lines
\* that one start was given are all on S3 when it has ended and its last upload
\* went through, even if an earlier upload failed, and no line that was on S3
\* goes from it unless the tee was started on a new disk, where it writes its
\* first chunks over those of before.
ChunksOnS3 ==
    /\ [](/\ \A k \in Chunk : k < idx => remote[k] = local[k]
          /\ tee = "ended" /\ clean => ToSet(sinceStart) \subseteq Sent)
    /\ [][\A k \in Chunk : IsPrefix(remote[k], remote'[k]) \/ diskLost]_chunkVars

=============================================================================
