-------------------------- MODULE DownloadsProofs --------------------------
(***************************************************************************)
(* Proofs about FileReads and Restore, which share what S3Cli says of the  *)
(* tools: for every set of callers and number of versions and reads, every *)
(* number of ranks, of saved ranks, and of attempts.                       *)
(***************************************************************************)
EXTENDS FileReads, Restore, TLAPS

-----------------------------------------------------------------------------
(* What an access may come to.                                             *)

\* What decided was about the object, unless the access was misled.
LEMMA Decided ==
    ASSUME NEW there \in BOOLEAN, NEW hides, NEW r \in CliResults(there, hides)
    PROVE  /\ r[1] \in {"done", "absent", "failed", "none"}
           /\ r[1] = "done" => there
           /\ r[1] = "absent" => ~there \/ r[2]
<1>1. PICK a \in Answers(there, hides) : r = <<RunCli(a), Misled(a, hides)>>
  BY DEF CliResults
<1>2. /\ DOMAIN a = 1 .. 2
      /\ \A i \in 1 .. 2 : (a[i] = "done" => there) /\ (a[i] = "absent" => ~there \/ Tools[i] \in hides)
  BY DEF Answers, Tools
<1> DEFINE Final == {i \in DOMAIN a : a[i] \in {"done"} \cup LooksNotFound}
<1>3. CASE Final = {}
  <2>1. RunCli(a) \in {"none", "failed"}
    BY <1>3 DEF RunCli
  <2> QED BY <1>1, <2>1
<1>4. CASE Final # {}
  <2>1. PICK i \in Final : \A j \in Final : i <= j
    <3>1. CASE 1 \in Final
      BY <1>2, <3>1
    <3>2. CASE 1 \notin Final
      BY <1>2, <1>4, <3>2
    <3> QED BY <3>1, <3>2
  <2>2. PICK m : m = Min(Final)
    OBVIOUS
  <2>3. m \in Final /\ \A j \in Final : m <= j
    BY <2>1, <2>2 DEF Min
  <2>4. /\ RunCli(a) = IF a[m] = "done" THEN "done" ELSE "absent"
        /\ a[m] \in {"done", "absent", "alike"} /\ m \in 1 .. 2
    BY <1>2, <1>4, <2>2, <2>3 DEF RunCli, LooksNotFound
  <2>5. ASSUME a[m] # "done", there PROVE Misled(a, hides)
    <3>1. a[m] = "alike" \/ (a[m] = "absent" /\ Tools[m] \in hides)
      BY <1>2, <2>4, <2>5
    <3>2. \A j \in 1 .. m - 1 : a[j] \notin {"done"} \cup LooksNotFound
      BY <1>2, <2>3, <2>4
    <3> QED BY <1>2, <2>4, <3>1, <3>2 DEF Misled
  <2> QED BY <1>1, <1>2, <2>4, <2>5
<1> QED BY <1>3, <1>4

\* head_object gives the size of the object, or nothing, or the size of another
\* object when this one is not there.
LEMMA HeadIs ==
    ASSUME NEW size, NEW other, NEW hides, NEW h \in Heads(size, other, hides)
    PROVE  h \in {size, NoSize} \/ (size = NoSize /\ h = other)
  BY DEF Heads

-----------------------------------------------------------------------------
(* FileReads                                                               *)

ReadsSpec == ReadsInit /\ [][ReadsNext]_readVars

Held == {Gone, CutShort, OwnWrite} \cup Version

ReadsType ==
    /\ object \in 0 .. MaxVersion
    /\ disk \in [Path -> Held]
    /\ rpc \in [Caller -> {"idle", "found", "head", "check", "cli", "boto", "missing", "replace"}]
    /\ rop \in [Caller -> Op \cup {"none"}]
    /\ DOMAIN head = Caller /\ DOMAIN seen = Caller /\ DOMAIN misled = Caller

\* What a call has seen: the object, while the call lasts; a size, of what it has
\* seen; nothing, if it is to raise FileNotFoundError; and what it has downloaded.
Seen ==
    \A c \in Caller :
        /\ rpc[c] = "idle" => head[c] = NoSize
        /\ rpc[c] # "idle" => rop[c] \in Op /\ object \in seen[c]
        /\ head[c] = NoSize \/ head[c] \in Sizes(c)
        /\ rpc[c] = "missing" => Gone \in seen[c] \/ misled[c]
        /\ rpc[c] = "replace" /\ rop[c] = "ensure" /\ ~threads => disk[c] \in seen[c]

Fills(c) == rop[c] = "open" /\ rpc[c] \in {"cli", "boto", "missing"}

\* The mirror: as long as nothing went wrong, whoever fills or writes it is alone
\* with it, it is cut short only meanwhile, and it is there for whoever found it or
\* has filled it.
Mirror ==
    /\ \A c \in Caller : rop[c] = "open" => rpc[c] \in {"found", "cli", "boto", "missing", "replace"}
    /\ ~unsure => \A c \in Caller :
        rop[c] = "open" /\ rpc[c] \in {"found", "replace"} => disk["mirror"] # Gone
    /\ ~unsure => \A c, d \in Caller : Fills(c) /\ rop[d] = "open" => c = d
    /\ ~unsure /\ writer = "writing" => ~Reading
    /\ ~unsure /\ disk["mirror"] = CutShort /\ writer # "writing" => \E c \in Caller : Fills(c)

ReadsInv == ReadsType /\ Seen /\ Mirror

LEMMA ReadsInitInv == ReadsInit => ReadsInv
<1> SUFFICES ASSUME ReadsInit PROVE ReadsInv
  OBVIOUS
<1> USE FileReadsAssumption DEF ReadsInit
<1>1. ReadsType
  <2>1. PICK v \in 0 .. object : disk = [f \in Path |-> IF f = "cached" THEN v ELSE Gone]
    OBVIOUS
  <2>2. v \in Held /\ Gone \in Held
    BY DEF Held, Version, Gone
  <2>3. disk \in [Path -> Held]
    BY <2>1, <2>2
  <2> QED BY <2>3 DEF ReadsType
<1>2. Seen
  BY DEF Seen
<1>3. Mirror
  BY DEF Mirror, Fills, Gone, CutShort, Path
<1> QED BY <1>1, <1>2, <1>3 DEF ReadsInv

\* No caller's temporary file is the mirror or the file of the cache, and
\* without threads no two callers have the same.
LEMMA Apart ==
    ASSUME NEW c \in Caller
    PROVE  /\ Tmp(c) \in Path /\ Tmp(c) \notin {"cached", "mirror"}
           /\ ~threads => Tmp(c) = c
           /\ Target(c) \in Path /\ Target(c) # "cached"
           /\ rop[c] # "open" => Target(c) = Tmp(c)
           /\ rop[c] = "open" => Target(c) = "mirror"
  BY FileReadsAssumption DEF Tmp, Target, Path

\* An end of a call leaves the call of nobody else changed.
LEMMA EndsCall ==
    ASSUME ReadsType, NEW c \in Caller, REnd(c)
    PROVE  /\ rpc'[c] = "idle" /\ rop'[c] = "none" /\ head'[c] = NoSize /\ seen'[c] = {}
           /\ \A d \in Caller \ {c} :
                /\ rpc'[d] = rpc[d] /\ rop'[d] = rop[d] /\ head'[d] = head[d]
                /\ seen'[d] = seen[d] /\ misled'[d] = misled[d]
           /\ rpc' \in [Caller -> {"idle", "found", "head", "check", "cli", "boto", "missing", "replace"}]
           /\ rop' \in [Caller -> Op \cup {"none"}]
           /\ DOMAIN head' = Caller /\ DOMAIN seen' = Caller /\ DOMAIN misled' = Caller
  BY DEF ReadsType, REnd, RGoto

\* What a call has seen stays true when it ends and the object stays, if nobody
\* else's temporary file is touched.
LEMMA EndSeen ==
    ASSUME ReadsInv, NEW c \in Caller, REnd(c), UNCHANGED <<object, outside>>,
           ~threads => \A d \in Caller \ {c} : disk'[d] = disk[d]
    PROVE  Seen'
<1>1. ASSUME NEW d \in Caller, d # c
      PROVE  /\ rpc'[d] = "idle" => head'[d] = NoSize
             /\ rpc'[d] # "idle" => rop'[d] \in Op /\ object' \in seen'[d]
             /\ head'[d] = NoSize \/ head'[d] \in Sizes(d)'
             /\ rpc'[d] = "missing" => Gone \in seen'[d] \/ misled'[d]
             /\ rpc'[d] = "replace" /\ rop'[d] = "ensure" /\ ~threads' => disk'[d] \in seen'[d]
  BY <1>1, EndsCall DEF ReadsInv, Seen, Sizes, outside
<1>2. /\ rpc'[c] = "idle" /\ head'[c] = NoSize
  BY EndsCall DEF ReadsInv
<1> QED BY <1>1, <1>2 DEF Seen

\* The mirror stays as it has to be when a call ends that leaves it as it is, or
\* owns up to what it has left.
LEMMA EndMirror ==
    ASSUME ReadsInv, NEW c \in Caller, REnd(c), disk'["mirror"] = disk["mirror"],
           unsure => unsure', writer' = writer,
           rop[c] = "open" /\ disk["mirror"] = CutShort /\ Fills(c) => unsure'
    PROVE  Mirror'
<1>1. /\ rop'[c] = "none"
      /\ \A d \in Caller \ {c} : rpc'[d] = rpc[d] /\ rop'[d] = rop[d]
  BY EndsCall DEF ReadsInv
<1>2. \A d \in Caller : rop'[d] = "open" => d # c /\ rop[d] = "open" /\ rpc'[d] = rpc[d]
  BY <1>1
<1>3. \A d \in Caller : Fills(d)' => d # c /\ Fills(d)
  BY <1>1 DEF Fills
<1>4. \A d \in Caller \ {c} : Fills(d) => Fills(d)'
  BY <1>1 DEF Fills
<1>5. ASSUME ~unsure', disk'["mirror"] = CutShort, writer # "writing" PROVE \E d \in Caller : Fills(d)'
  <2>1. PICK d \in Caller : Fills(d)
    BY <1>5 DEF ReadsInv, Mirror
  <2>2. d # c
    BY <1>5, <2>1 DEF Fills
  <2> QED BY <1>4, <2>1, <2>2
<1>6. Reading' => Reading
  BY <1>1 DEF Reading
<1> QED BY <1>2, <1>3, <1>5, <1>6 DEF ReadsInv, Mirror

\* A step that leaves the mirror and the calls about it as they are.
LEMMA CalmMirror ==
    ASSUME ReadsInv, disk'["mirror"] = disk["mirror"], writer' = writer, unsure' <=> unsure,
           \A d \in Caller : rop'[d] = "open" <=> rop[d] = "open",
           \A d \in Caller : rop[d] = "open" =>
                /\ rpc'[d] \in {"found", "cli", "boto", "missing", "replace"}
                /\ rpc'[d] \in {"found", "replace"} <=> rpc[d] \in {"found", "replace"}
    PROVE  Mirror'
<1>1. \A d \in Caller : Fills(d)' <=> Fills(d)
  BY DEF Fills, ReadsInv, Mirror
<1>2. Reading' <=> Reading
  BY DEF Reading
<1> QED BY <1>1, <1>2 DEF ReadsInv, Mirror

\* A step of the writer of the mirror that is not alone with it, or has left it cut
\* short, says so.
LEMMA WriterMirror ==
    ASSUME ReadsInv, MirrorStep, disk' = [disk EXCEPT !["mirror"] = disk'["mirror"]],
           disk'["mirror"] \in Held, unsure => unsure',
           ~unsure' => /\ disk'["mirror"] = CutShort =>
                            \/ writer' = "writing"
                            \/ disk'["mirror"] = disk["mirror"] /\ writer # "writing"
                       /\ Reading => disk'["mirror"] = disk["mirror"] /\ writer' # "writing"
    PROVE  /\ disk' \in [Path -> Held] /\ Mirror'
           /\ \A d \in Caller : disk'[d] = disk[d]
<1>1. disk' \in [Path -> Held] /\ \A d \in Caller : disk'[d] = disk[d]
  BY FileReadsAssumption DEF ReadsInv, ReadsType, Path
<1>2. rpc' = rpc /\ rop' = rop
  BY DEF MirrorStep, rcall
<1>3. (Reading' <=> Reading) /\ \A d \in Caller : Fills(d)' <=> Fills(d)
  BY <1>2 DEF Reading, Fills
<1>4. \A d \in Caller : rop[d] = "open" => Reading
  BY DEF Reading
<1>5. ~unsure' => \A d \in Caller :
        rop'[d] = "open" /\ rpc'[d] \in {"found", "replace"} => disk'["mirror"] # Gone
  BY <1>2, <1>4 DEF ReadsInv, Mirror
<1>6. \A d \in Caller : Fills(d) => Reading
  BY <1>4 DEF Fills
<1>7. ~unsure' => ~unsure
  OBVIOUS
<1>8. Mirror'
  BY <1>2, <1>3, <1>5, <1>7 DEF ReadsInv, Mirror
<1> QED BY <1>1, <1>8

LEMMA ReadsNextInv == ReadsInv /\ [ReadsNext]_readVars => ReadsInv'
<1> SUFFICES ASSUME ReadsInv, [ReadsNext]_readVars PROVE ReadsInv'
  OBVIOUS
<1>1. CASE WriteObject
  <2> USE <1>1 DEF WriteObject
  <2>1. ReadsType'
    BY FileReadsAssumption DEF ReadsInv, ReadsType, rcall
  <2>2. \A c \in Caller : seen'[c] = IF rpc[c] = "idle" THEN {} ELSE seen[c] \cup {object'}
    BY DEF ReadsInv, ReadsType
  <2>3. \A c \in Caller : rpc[c] # "idle" /\ head[c] # NoSize => head[c] \in Sizes(c)'
    BY <2>2 DEF ReadsInv, Seen, Sizes, outside
  <2>4. Seen'
    BY <2>2, <2>3 DEF ReadsInv, Seen, rcall, outside
  <2>5. Mirror'
    BY CalmMirror DEF ReadsInv, Mirror, rcall, outside
  <2> QED BY <2>1, <2>4, <2>5 DEF ReadsInv
<1>2. ASSUME NEW c \in Caller, NEW op \in Op, NEW mounted \in BOOLEAN, ReadCall(c, op, mounted)
      PROVE  ReadsInv'
  <2> USE <1>2 DEF ReadCall
  <2>1. /\ FirstStep(op, mounted) \in {"found", "head", "cli"}
        /\ op = "open" => FirstStep(op, mounted) = IF disk["mirror"] # Gone THEN "found" ELSE "cli"
    BY DEF FirstStep, Op
  <2>2. /\ rpc'[c] = FirstStep(op, mounted) /\ rop'[c] = op /\ seen'[c] = {object}
        /\ \A d \in Caller \ {c} : rpc'[d] = rpc[d] /\ rop'[d] = rop[d] /\ seen'[d] = seen[d]
    BY DEF ReadsInv, ReadsType, RGoto
  <2>3. ReadsType'
    BY <2>1 DEF ReadsInv, ReadsType, RGoto, Op
  <2>4. Seen'
    <3>1. ASSUME NEW d \in Caller, d # c
          PROVE  /\ rpc'[d] = "idle" => head'[d] = NoSize
                 /\ rpc'[d] # "idle" => rop'[d] \in Op /\ object' \in seen'[d]
                 /\ head'[d] = NoSize \/ head'[d] \in Sizes(d)'
                 /\ rpc'[d] = "missing" => Gone \in seen'[d] \/ misled'[d]
                 /\ rpc'[d] = "replace" /\ rop'[d] = "ensure" /\ ~threads' => disk'[d] \in seen'[d]
      BY <3>1, <2>2 DEF ReadsInv, Seen, Sizes, outside
    <3>2. head'[c] = NoSize /\ rop'[c] \in Op /\ object' \in seen'[c] /\ rpc'[c] \in {"found", "head", "cli"}
      BY <2>1, <2>2 DEF ReadsInv, Seen
    <3> QED BY <3>1, <3>2 DEF Seen
  <2>5. Mirror'
    <3>1. \A d \in Caller : Fills(d) => d # c /\ Fills(d)'
      BY <2>2 DEF Fills
    <3>2. \A d \in Caller \ {c} : Fills(d)' => Fills(d)
      BY <2>2 DEF Fills
    <3>3. CASE op # "open"
      <4>1. ~Fills(c)'
        BY <2>2, <3>3 DEF Fills
      <4>2. \A d \in Caller : rop'[d] = "open" => d # c /\ rop[d] = "open" /\ rpc'[d] = rpc[d]
        BY <2>2, <3>3
      <4>3. \A d \in Caller : rop[d] = "open" => d # c
        BY DEF ReadsInv, Mirror
      <4>4. \A d \in Caller : rop'[d] = "open" <=> rop[d] = "open"
        BY <2>2, <3>3, <4>3
      <4>5. (unsure' <=> unsure) /\ writer' = writer /\ disk' = disk
        BY <3>3 DEF ReadsInv, outside
      <4> QED BY <4>2, <4>4, <4>5, CalmMirror DEF ReadsInv, Mirror
    <3>4. CASE op = "open"
      <4>1. ~unsure' => ~unsure /\ writer # "writing" /\ \A d \in Caller : ~Fills(d)
        BY <3>4 DEF Filling, Fills
      <4>2. Fills(c)' => disk["mirror"] = Gone
        BY <2>1, <2>2, <3>4 DEF Fills
      <4>3. ASSUME ~unsure', Fills(c)', NEW d \in Caller, rop'[d] = "open" PROVE d = c
        BY <2>2, <4>1, <4>2, <4>3 DEF ReadsInv, Mirror, Fills
      <4>4. ~unsure' => disk["mirror"] # CutShort
        BY <4>1 DEF ReadsInv, Mirror
      <4>5. \A d \in Caller : rop'[d] = "open" => rpc'[d] \in {"found", "cli", "boto", "missing", "replace"}
        BY <2>1, <2>2 DEF ReadsInv, Mirror
      <4>6. ~unsure' => \A d \in Caller :
                rop'[d] = "open" /\ rpc'[d] \in {"found", "replace"} => disk'["mirror"] # Gone
        BY <2>1, <2>2, <4>1 DEF ReadsInv, Mirror
      <4>7. ~unsure' => \A d, e \in Caller : Fills(d)' /\ rop'[e] = "open" => d = e
        BY <3>2, <4>1, <4>3
      <4>8. writer' = writer /\ disk' = disk
        BY DEF outside
      <4> QED BY <4>1, <4>4, <4>5, <4>6, <4>7, <4>8 DEF Mirror
    <3> QED BY <3>3, <3>4
  <2> QED BY <2>3, <2>4, <2>5 DEF ReadsInv
<1>3. ASSUME NEW c \in Caller, Found(c) \/ CacheHit(c) PROVE ReadsInv'
  <2>1. REnd(c) /\ UNCHANGED <<object, outside, disk, unsure>> /\ ~Fills(c)
    BY <1>3 DEF Found, CacheHit, Fills
  <2>2. ReadsType'
    BY <2>1, EndsCall DEF ReadsInv, ReadsType
  <2>3. Seen' /\ Mirror'
    BY <2>1, EndSeen, EndMirror DEF outside
  <2> QED BY <2>2, <2>3 DEF ReadsInv
<1>4. ASSUME NEW c \in Caller, HeadObject(c) PROVE ReadsInv'
  <2> USE <1>4 DEF HeadObject
  <2>1. ReadsType'
    BY DEF ReadsInv, ReadsType, RGoto, rcall
  <2>2. PICK size \in Heads(SizeOf(object), near, blind) : head' = [head EXCEPT ![c] = size]
    OBVIOUS
  <2>3. object \in seen[c] /\ rop[c] \in Op /\ rop[c] # "open"
    BY DEF ReadsInv, Seen, Mirror
  <2>4. SizeOf(object) = NoSize => object = Gone
    <3>1. object \in Nat /\ object # CutShort
      BY FileReadsAssumption DEF ReadsInv, ReadsType, CutShort
    <3>2. object # Gone => SizeOf(object) = 1 + object \div 2
      BY <3>1 DEF SizeOf
    <3>3. \A n \in Nat : 1 + n \div 2 # 0
      OBVIOUS
    <3> QED BY <3>1, <3>2, <3>3 DEF NoSize
  <2>5. size = NoSize \/ size \in Sizes(c)
    BY <2>3, <2>4, HeadIs DEF Sizes
  <2>6. Seen'
    BY <2>2, <2>3, <2>5 DEF ReadsInv, ReadsType, Seen, RGoto, Sizes, outside, rcall
  <2>7. Mirror'
    BY <2>3, CalmMirror DEF ReadsInv, ReadsType, Mirror, RGoto, rcall, outside
  <2> QED BY <2>1, <2>6, <2>7 DEF ReadsInv
<1>5. ASSUME NEW c \in Caller, CacheMiss(c) PROVE ReadsInv'
  <2> USE <1>5 DEF CacheMiss
  <2>1. ReadsType'
    BY DEF ReadsInv, ReadsType, RGoto, rcall
  <2>2. rop[c] # "open"
    BY DEF ReadsInv, Mirror
  <2>3. Seen'
    BY DEF ReadsInv, ReadsType, Seen, RGoto, Sizes, outside, rcall
  <2>4. Mirror'
    BY <2>2, CalmMirror DEF ReadsInv, ReadsType, Mirror, RGoto, rcall, outside
  <2> QED BY <2>1, <2>3, <2>4 DEF ReadsInv
<1>6. ASSUME NEW c \in Caller, StartFile(c) PROVE ReadsInv'
  <2> USE <1>6 DEF StartFile
  <2>1. ReadsType'
    BY Apart DEF ReadsInv, ReadsType, Held, rcall
  <2>2. ~threads => \A d \in Caller \ {c} : disk'[d] = disk[d]
    BY Apart, FileReadsAssumption DEF ReadsInv, ReadsType, Path
  <2>3. Seen'
    BY <2>2 DEF ReadsInv, Seen, Sizes, outside, rcall
  <2>4. CASE rop[c] = "open"
    <3>1. Fills(c) /\ disk'["mirror"] = CutShort
      BY <2>4, Apart DEF Fills, ReadsInv, ReadsType
    <3>2. Fills(c)' /\ Reading /\ Reading' /\ writer' = writer /\ unsure' = unsure
      BY <2>4, <3>1 DEF Fills, Reading, rcall, outside
    <3>3. \A d \in Caller : (Fills(d)' <=> Fills(d)) /\ rop'[d] = rop[d] /\ rpc'[d] = rpc[d]
      BY DEF Fills, rcall
    <3>4. Mirror'
      BY <3>1, <3>2, <3>3 DEF ReadsInv, Mirror, CutShort, Gone
    <3> QED BY <2>1, <2>3, <3>4 DEF ReadsInv
  <2>5. CASE rop[c] # "open"
    <3>1. disk'["mirror"] = disk["mirror"]
      BY <2>5, Apart DEF ReadsInv, ReadsType
    <3>2. Mirror'
      BY <3>1, CalmMirror DEF ReadsInv, Mirror, rcall, outside
    <3> QED BY <2>1, <2>3, <3>2 DEF ReadsInv
  <2> QED BY <2>4, <2>5
<1>7. ASSUME NEW c \in Caller, Downloaded(c), There, rpc[c] \in {"cli", "boto"},
             UNCHANGED <<object, outside, rcall, head, seen, unsure, misled>>
      PROVE  ReadsInv'
  <2> USE <1>7 DEF Downloaded
  <2>1. /\ rpc'[c] = IF rop[c] = "bytes" THEN "found" ELSE "replace"
        /\ \A d \in Caller \ {c} : rpc'[d] = rpc[d]
        /\ rop' = rop
    BY DEF ReadsInv, ReadsType, RGoto, rcall
  <2>2. object \in Version /\ object \notin {Gone, CutShort} /\ object \in Held
    BY FileReadsAssumption DEF There, ReadsInv, ReadsType, Held, Version, Gone, CutShort
  <2>3. ReadsType'
    BY <2>2, Apart DEF ReadsInv, ReadsType, RGoto, rcall
  <2>4. ~threads => \A d \in Caller \ {c} : disk'[d] = disk[d]
    BY Apart, FileReadsAssumption DEF ReadsInv, ReadsType, Path
  <2>5. rop[c] = "ensure" /\ ~threads => disk'[c] = object
    BY Apart DEF ReadsInv, ReadsType
  <2>6. Seen'
    <3>1. ASSUME NEW d \in Caller, d # c
          PROVE  /\ rpc'[d] = "idle" => head'[d] = NoSize
                 /\ rpc'[d] # "idle" => rop'[d] \in Op /\ object' \in seen'[d]
                 /\ head'[d] = NoSize \/ head'[d] \in Sizes(d)'
                 /\ rpc'[d] = "missing" => Gone \in seen'[d] \/ misled'[d]
                 /\ rpc'[d] = "replace" /\ rop'[d] = "ensure" /\ ~threads' => disk'[d] \in seen'[d]
      BY <2>1, <2>4, <3>1 DEF ReadsInv, Seen, Sizes, outside
    <3>2. /\ rpc'[c] \notin {"idle", "missing"} /\ rop'[c] \in Op /\ object' \in seen'[c]
          /\ head'[c] = NoSize \/ head'[c] \in Sizes(c)'
          /\ rop'[c] = "ensure" /\ ~threads' => disk'[c] \in seen'[c]
      BY <2>1, <2>5 DEF ReadsInv, Seen, Sizes, outside
    <3> QED BY <3>1, <3>2 DEF Seen
  <2>7. CASE rop[c] = "open"
    <3>1. disk'["mirror"] = object /\ rpc'[c] = "replace" /\ Fills(c)
      BY <2>1, <2>7, Apart DEF ReadsInv, ReadsType, Fills
    <3>2. \A d \in Caller : rop[d] = "open" => rpc'[d] \in {"found", "cli", "boto", "missing", "replace"}
      BY <2>1, <3>1 DEF ReadsInv, Mirror
    <3>3. \A d \in Caller : Fills(d)' => d # c /\ Fills(d)
      BY <2>1, <3>1 DEF Fills
    <3>4. ~unsure => \A d, e \in Caller : Fills(d)' /\ rop'[e] = "open" => d = e
      BY <2>1, <3>3 DEF ReadsInv, Mirror
    <3>5. Reading /\ writer' = writer /\ unsure' = unsure
      BY <2>7 DEF Reading, outside
    <3>6. Mirror'
      BY <2>1, <2>2, <3>1, <3>2, <3>4, <3>5 DEF ReadsInv, Mirror
    <3> QED BY <2>3, <2>6, <3>6 DEF ReadsInv
  <2>8. CASE rop[c] # "open"
    <3>1. disk'["mirror"] = disk["mirror"]
      BY <2>8, Apart DEF ReadsInv, ReadsType
    <3>2. \A d \in Caller : Fills(d)' <=> Fills(d)
      BY <2>1, <2>8 DEF Fills
    <3>3. \A d \in Caller : rop[d] = "open" => rpc'[d] = rpc[d]
      BY <2>1, <2>8
    <3>4. Mirror'
      BY <2>1, <3>1, <3>3, CalmMirror DEF ReadsInv, Mirror, outside
    <3> QED BY <2>3, <2>6, <3>4 DEF ReadsInv
  <2> QED BY <2>7, <2>8
<1>8. ASSUME NEW c \in Caller, NEW l \in {"boto", "missing"}, rpc[c] \in {"cli", "boto"}, RGoto(c, l),
             l = "missing" => ~There \/ misled'[c],
             DOMAIN misled' = Caller, \A d \in Caller \ {c} : misled'[d] = misled[d],
             UNCHANGED <<object, outside, disk, rcall, head, seen, unsure>>
      PROVE  ReadsInv'
  <2> USE <1>8
  <2>1. rpc'[c] = l /\ (\A d \in Caller \ {c} : rpc'[d] = rpc[d]) /\ rop' = rop
    BY DEF ReadsInv, ReadsType, RGoto, rcall
  <2>2. ReadsType'
    BY DEF ReadsInv, ReadsType, RGoto, rcall
  <2>3. rop[c] \in Op /\ object \in seen[c] /\ (~There => Gone \in seen[c])
    BY DEF ReadsInv, Seen, There
  <2>4. Seen'
    BY <2>1, <2>3 DEF ReadsInv, Seen, Sizes, outside
  <2>5. Mirror'
    BY <2>1, CalmMirror DEF ReadsInv, Mirror, outside
  <2> QED BY <2>2, <2>4, <2>5 DEF ReadsInv
<1>9. ASSUME NEW c \in Caller, Raises(c), UNCHANGED <<object, outside>> PROVE ReadsInv'
  <2> USE <1>9 DEF Raises
  <2>1. /\ disk' \in [Path -> Held]
        /\ disk'["mirror"] = disk["mirror"]
        /\ ~threads => \A d \in Caller \ {c} : disk'[d] = disk[d]
    BY Apart, FileReadsAssumption DEF ReadsInv, ReadsType, Held, Path
  <2>2. ReadsType'
    BY <2>1, EndsCall DEF ReadsInv, ReadsType
  <2>3. Seen' /\ Mirror'
    BY <2>1, EndSeen, EndMirror DEF outside
  <2> QED BY <2>2, <2>3 DEF ReadsInv
<1>10. ASSUME NEW c \in Caller, CliEnds(c) PROVE ReadsInv'
  <2>1. PICK r \in CliResults(There, blind) :
        \/ r[1] = "done" /\ Downloaded(c) /\ UNCHANGED misled
        \/ r[1] \in {"failed", "none"} /\ RGoto(c, "boto") /\ UNCHANGED <<disk, misled>>
        \/ /\ r[1] = "absent" /\ RGoto(c, "missing")
           /\ misled' = [misled EXCEPT ![c] = r[2]] /\ UNCHANGED disk
    BY <1>10 DEF CliEnds
  <2>2. There \in BOOLEAN
    BY DEF There
  <2>3. (r[1] = "done" => There) /\ (r[1] = "absent" => ~There \/ r[2])
    BY <2>2, Decided
  <2>4. rpc[c] = "cli" /\ UNCHANGED <<object, outside, rcall, head, seen, unsure>>
    BY <1>10 DEF CliEnds
  <2>5. CASE r[1] = "done" /\ Downloaded(c) /\ UNCHANGED misled
    BY <1>7, <2>3, <2>4, <2>5
  <2>6. CASE r[1] \in {"failed", "none"} /\ RGoto(c, "boto") /\ UNCHANGED <<disk, misled>>
    BY <1>8, <2>4, <2>6 DEF ReadsInv, ReadsType
  <2>7. CASE r[1] = "absent" /\ RGoto(c, "missing")
             /\ misled' = [misled EXCEPT ![c] = r[2]] /\ UNCHANGED disk
    <3>1. /\ DOMAIN misled' = Caller /\ misled'[c] = r[2]
          /\ \A d \in Caller \ {c} : misled'[d] = misled[d]
      BY <2>7 DEF ReadsInv, ReadsType
    <3>2. ~There \/ misled'[c]
      BY <2>3, <2>7, <3>1
    <3> QED BY <1>8, <2>4, <2>7, <3>1, <3>2
  <2> QED BY <2>1, <2>5, <2>6, <2>7
<1>11. ASSUME NEW c \in Caller, BotoEnds(c) PROVE ReadsInv'
  <2>1. PICK b \in BotoAnswers(There) :
        \/ b = "done" /\ Downloaded(c) /\ UNCHANGED <<head, rcall, seen, unsure, misled>>
        \/ b = "absent" /\ RGoto(c, "missing")
           /\ UNCHANGED <<disk, head, rcall, seen, unsure, misled>>
        \/ b = "error" /\ Raises(c)
    BY <1>11 DEF BotoEnds
  <2>2. (b = "done" => There) /\ (b = "absent" => ~There)
    BY DEF BotoAnswers
  <2>3. rpc[c] = "boto" /\ UNCHANGED <<object, outside>>
    BY <1>11 DEF BotoEnds
  <2>4. CASE b = "done" /\ Downloaded(c) /\ UNCHANGED <<head, rcall, seen, unsure, misled>>
    BY <1>7, <2>2, <2>3, <2>4
  <2>5. CASE b = "absent" /\ RGoto(c, "missing")
             /\ UNCHANGED <<disk, head, rcall, seen, unsure, misled>>
    BY <1>8, <2>2, <2>3, <2>5 DEF ReadsInv, ReadsType
  <2>6. CASE b = "error" /\ Raises(c)
    BY <1>9, <2>3, <2>6
  <2> QED BY <2>1, <2>4, <2>5, <2>6
<1>12. ASSUME NEW c \in Caller, RaisesNotFound(c) \/ ReplaceFails(c) PROVE ReadsInv'
  BY <1>9, <1>12 DEF RaisesNotFound, ReplaceFails
<1>13. ASSUME NEW c \in Caller, Replace(c) PROVE ReadsInv'
  <2> USE <1>13 DEF Replace
  <2>1. /\ disk' \in [Path -> Held]
        /\ disk'["mirror"] = disk["mirror"]
        /\ ~threads => \A d \in Caller \ {c} : disk'[d] = disk[d]
    <3>1. "cached" \in Path /\ "mirror" \in Path /\ Caller \subseteq Path \ {"cached", "mirror"}
      BY FileReadsAssumption DEF Path
    <3>2. disk[Target(c)] \in Held /\ Gone \in Held
      BY Apart DEF ReadsInv, ReadsType, Held
    <3>3. disk \in [Path -> Held]
      BY DEF ReadsInv, ReadsType
    <3>4. CASE rop[c] = "ensure"
      <4>1. disk' = [disk EXCEPT !["cached"] = disk[Target(c)], ![Tmp(c)] = Gone]
        BY <3>4
      <4>2. \A f \in Path \ {"cached", Tmp(c)} : disk'[f] = disk[f]
        BY <3>3, <4>1
      <4>3. disk' \in [Path -> Held]
        BY <3>2, <3>3, <4>1
      <4> QED BY <3>1, <4>2, <4>3, Apart
    <3> QED BY <3>3, <3>4
  <2>2. ~Fills(c)
    BY DEF Fills
  <2>3. ReadsType'
    BY <2>1, EndsCall DEF ReadsInv, ReadsType
  <2>4. Seen' /\ Mirror'
    BY <2>1, <2>2, EndSeen, EndMirror DEF outside
  <2> QED BY <2>3, <2>4 DEF ReadsInv
<1>14. ASSUME NEW c \in Caller, ReaderDies(c) PROVE ReadsInv'
  <2> USE <1>14 DEF ReaderDies
  <2>1. /\ disk' \in [Path -> Held]
        /\ disk'["mirror"] = disk["mirror"]
        /\ ~threads => \A d \in Caller \ {c} : disk'[d] = disk[d]
    BY Apart, FileReadsAssumption DEF ReadsInv, ReadsType, Held, Path
  <2>2. ReadsType'
    BY <2>1, EndsCall DEF ReadsInv, ReadsType
  <2>3. Seen' /\ Mirror'
    BY <2>1, EndSeen, EndMirror DEF outside
  <2> QED BY <2>2, <2>3 DEF ReadsInv
<1>15. CASE UNCHANGED readVars
  <2>1. ReadsType' /\ Seen'
    BY <1>15 DEF ReadsInv, ReadsType, Seen, Sizes, readVars, rcall, outside
  <2>2. Mirror'
    BY <1>15, CalmMirror DEF ReadsInv, Mirror, readVars, rcall, outside
  <2> QED BY <2>1, <2>2 DEF ReadsInv
<1>16. CASE MirrorBegin \/ MirrorEnd \/ MirrorRaises \/ MirrorUploadFails
  <2>0. unsure => unsure'
    <3>1. CASE MirrorBegin
      BY <3>1 DEF MirrorBegin
    <3>2. CASE MirrorEnd \/ MirrorUploadFails
      BY <3>2 DEF MirrorEnd, MirrorUploadFails
    <3>3. CASE MirrorRaises
      BY <3>3 DEF MirrorRaises
    <3> QED BY <1>16, <3>1, <3>2, <3>3
  <2>1. /\ MirrorStep /\ UNCHANGED <<object, seen>>
        /\ UNCHANGED disk \/ disk' = [disk EXCEPT !["mirror"] = CutShort]
                          \/ disk' = [disk EXCEPT !["mirror"] = OwnWrite]
    BY <1>16, Zenon DEF MirrorBegin, MirrorEnd, MirrorRaises, MirrorUploadFails
  <2>5. disk' = [disk EXCEPT !["mirror"] = disk'["mirror"]] /\ disk'["mirror"] \in Held
    BY <2>1 DEF ReadsInv, ReadsType, Held, Path
  <2>2. ~unsure' => /\ disk'["mirror"] = CutShort =>
                        \/ writer' = "writing"
                        \/ disk'["mirror"] = disk["mirror"] /\ writer # "writing"
                    /\ Reading => disk'["mirror"] = disk["mirror"] /\ writer' # "writing"
    <3>1. CASE MirrorBegin
      BY <3>1 DEF MirrorBegin
    <3>2. CASE MirrorEnd
      BY <3>2 DEF MirrorEnd, ReadsInv, ReadsType, Mirror, OwnWrite, CutShort, Path
    <3>3. CASE MirrorRaises
      BY <3>3 DEF MirrorRaises
    <3>4. CASE MirrorUploadFails
      BY <3>4 DEF MirrorUploadFails
    <3> QED BY <1>16, <3>1, <3>2, <3>3, <3>4
  <2>3. disk' \in [Path -> Held] /\ Mirror' /\ \A d \in Caller : disk'[d] = disk[d]
    BY <2>0, <2>1, <2>2, <2>5, WriterMirror
  <2>4. ReadsType' /\ Seen'
    BY <2>1, <2>3 DEF ReadsInv, ReadsType, Seen, Sizes, MirrorStep, rcall
  <2> QED BY <2>3, <2>4 DEF ReadsInv
<1>17. CASE MirrorUploaded
  <2> USE <1>17 DEF MirrorUploaded
  <2>1. MirrorStep /\ UNCHANGED <<near, threads, rpc, rop, head, misled>>
    BY DEF MirrorStep, rcall
  <2>2. /\ unsure => unsure'
        /\ disk' = [disk EXCEPT !["mirror"] = disk'["mirror"]] /\ disk'["mirror"] \in Held
        /\ ~unsure' => /\ disk'["mirror"] = CutShort =>
                            \/ writer' = "writing"
                            \/ disk'["mirror"] = disk["mirror"] /\ writer # "writing"
                       /\ Reading => disk'["mirror"] = disk["mirror"] /\ writer' # "writing"
    <3>1. CASE UNCHANGED <<disk, unsure>>
      BY <3>1 DEF ReadsInv, ReadsType, Path
    <3>2. CASE disk' = [disk EXCEPT !["mirror"] = Gone] /\ unsure' = (unsure \/ Reading)
      <4>1. (unsure => unsure') /\ (~unsure' => ~Reading)
        BY <3>2
      <4>2. disk'["mirror"] = Gone /\ disk' = [disk EXCEPT !["mirror"] = disk'["mirror"]]
        BY <3>2 DEF ReadsInv, ReadsType, Path
      <4> QED BY <4>1, <4>2 DEF Held, Gone, CutShort
    <3> QED BY <3>1, <3>2
  <2>3. disk' \in [Path -> Held] /\ Mirror' /\ \A d \in Caller : disk'[d] = disk[d]
    BY <2>1, <2>2, WriterMirror
  <2>4. \A c \in Caller : seen'[c] = IF rpc[c] = "idle" THEN {} ELSE seen[c] \cup {object'}
    BY DEF ReadsInv, ReadsType
  <2>5. \A c \in Caller : rpc[c] # "idle" /\ head[c] # NoSize => head[c] \in Sizes(c)'
    BY <2>1, <2>4 DEF ReadsInv, Seen, Sizes
  <2>6. ReadsType'
    BY <2>1, <2>3, FileReadsAssumption DEF ReadsInv, ReadsType
  <2>7. Seen'
    BY <2>1, <2>3, <2>4, <2>5 DEF ReadsInv, Seen
  <2> QED BY <2>3, <2>6, <2>7 DEF ReadsInv
<1> QED BY <1>1, <1>2, <1>3, <1>4, <1>5, <1>6, <1>10, <1>11, <1>12, <1>13, <1>14, <1>15, <1>16, <1>17
     DEF ReadsNext

LEMMA ReadsInvariance == ReadsSpec => []ReadsInv
BY ReadsInitInv, ReadsNextInv, PTL DEF ReadsSpec

\* What a reader is handed out of the cache was on S3 during its call, or has the
\* size of what was; out of the mirror it is whole, unless two filled or wrote it at
\* once, or it was left cut short: for every number of callers, versions and calls.
THEOREM CurrentReads == ReadsSpec => ReadsCurrent
<1>1. ASSUME ReadsInv, [ReadsNext]_readVars
      PROVE  [\A c \in Caller :
                /\ FromCache(c) /\ ~threads =>
                    \/ disk'["cached"] \in seen[c]
                    \/ SizeOf(disk'["cached"]) \in Sizes(c) \ {NoSize}
                /\ FromMirror(c) /\ ~unsure => disk["mirror"] # CutShort]_readVars
  <2> SUFFICES ASSUME NEW c \in Caller
               PROVE  /\ FromCache(c) /\ ~threads =>
                            \/ disk'["cached"] \in seen[c]
                            \/ SizeOf(disk'["cached"]) \in Sizes(c) \ {NoSize}
                      /\ FromMirror(c) /\ ~unsure => disk["mirror"] # CutShort
    OBVIOUS
  <2>1. ASSUME CacheHit(c) PROVE SizeOf(disk'["cached"]) \in Sizes(c) \ {NoSize}
    BY <1>1, <2>1 DEF ReadsInv, Seen, CacheHit, SameSize
  <2>2. ASSUME rop[c] = "ensure", Replace(c), ~threads PROVE disk'["cached"] \in seen[c]
    <3>1. rpc[c] = "replace" /\ Tmp(c) = c /\ Target(c) = c /\ c \in Path /\ "cached" \in Path
      BY <2>2, Apart DEF Replace, Path
    <3>2. disk' = [disk EXCEPT !["cached"] = disk[c], ![c] = Gone]
      BY <2>2, <3>1 DEF Replace
    <3>3. disk'["cached"] = disk[c]
      BY <1>1, <3>1, <3>2, FileReadsAssumption DEF ReadsInv, ReadsType
    <3> QED BY <1>1, <2>2, <3>1, <3>3 DEF ReadsInv, Seen
  <2>3. ASSUME FromMirror(c), ~unsure PROVE disk["mirror"] # CutShort
    <3>1. rop[c] = "open" /\ ~Fills(c)
      BY <2>3 DEF FromMirror, Found, Replace, Fills
    <3>2. Reading
      BY <3>1 DEF Reading
    <3> QED BY <1>1, <2>3, <3>1, <3>2 DEF ReadsInv, Mirror
  <2> QED BY <2>1, <2>2, <2>3 DEF FromCache
<1> QED BY <1>1, ReadsInvariance, PTL DEF ReadsSpec, ReadsCurrent

\* A call for a file that is there all the time does not end in
\* FileNotFoundError, unless a tool that does not see it, or whose failure reads
\* like "not found", has the last word.
THEOREM FileFound == ReadsSpec => FileFoundIfThere
<1>1. ASSUME ReadsInv, [ReadsNext]_readVars
      PROVE  [\A c \in Caller : RaisesNotFound(c) => Gone \in seen[c] \/ misled[c]]_readVars
  BY <1>1 DEF ReadsInv, Seen, RaisesNotFound
<1> QED BY <1>1, ReadsInvariance, PTL DEF ReadsSpec, FileFoundIfThere

-----------------------------------------------------------------------------
(* Restore                                                                 *)

RestoreSpec == RestoreInit /\ [][RestoreNext]_restoreVars

Step == {"start", "cli", "boto", "notfound", "barrier", "load", "extras", "done", "failed"}

RestoreType ==
    /\ locals \in 1 .. Ranks /\ caller \in Loader /\ saved \in 1 .. MaxSaved
    /\ written \subseteq Whole /\ Writable(written)
    /\ stale \subseteq Object /\ early \in BOOLEAN /\ lagged \in BOOLEAN
    /\ written # Whole => early /\ caller # "manager"
    /\ DOMAIN stage = Node /\ \A n \in Node : DOMAIN stage[n] = Object
    /\ pc \in [Rank -> Step]
    /\ DOMAIN verifyErr = Node /\ DOMAIN loaded = Rank /\ DOMAIN extras = Rank

\* Only a local main process downloads, and what it has downloaded was written.
Copies ==
    /\ \A r \in Rank : pc[r] \in {"cli", "boto", "notfound"} => IsLocalMain(r)
    /\ \A n \in Node : \A o \in Object :
        /\ stage[n][o] \in {"none", "stale", "cut", "new"}
        /\ stage[n][o] \in {"cut", "new"} => o \in written
        /\ stage[n][o] = "stale" => o \in stale

\* .metadata is the last that comes: with it everything is there, and until the
\* download is over it is not the new one; past the download it is not an old one.
Last ==
    /\ \A n \in Node : caller # "accelerate" /\ stage[n][Metadata] = "new" =>
        \A o \in Whole : stage[n][o] = "new"
    /\ \A r \in Rank : IsLocalMain(r) =>
        /\ pc[r] \in {"start", "cli", "boto"} => stage[NodeOf(r)][Metadata] # "new"
        /\ NotFooled /\ pc[r] \in {"barrier", "load"} => stage[NodeOf(r)][Metadata] # "stale"

\* Whoever reads its extras, or has, has passed the load with all others, and what
\* is on its node is the checkpoint.
Together ==
    \A r \in Rank :
        /\ pc[r] \in {"extras", "done"} => \A q \in Rank : pc[q] \in {"extras", "done", "failed"}
        /\ pc[r] = "extras" => caller # "accelerate"
        /\ pc[r] = "extras" /\ NotFooled => stage[NodeOf(r)][Metadata] = "new"

\* A directory is complete when its download begins, or lacked knows.
Reached ==
    \A r \in Rank :
        /\ pc[r] \in {"cli", "boto"} => NodeOf(r) \in lacked \/ Complete(written)
        /\ pc[r] = "notfound" => NodeOf(r) \in lacked \cup blinded \/ verifyErr[NodeOf(r)]

RestoreInv ==
    RestoreType /\ Copies /\ Last /\ Together /\ Reached
    /\ LoadsOneCheckpoint /\ ExtrasOfTheCheckpoint

\* The objects are different ones, and those of the checkpoint are among them.
LEMMA Names ==
    /\ \A k, i \in Nat : Extras(k) = Extras(i) => k = i
    /\ \A k \in Nat : Extras(k) # Metadata /\ Extras(k) # Shards
    /\ Shards # Metadata
  BY DEF Extras, Shards, Metadata

\* What a checkpoint consists of.
LEMMA Parts ==
    ASSUME saved \in 1 .. MaxSaved
    PROVE  /\ Whole \subseteq Object /\ WholeOf(MaxSaved) \subseteq Object
           /\ {Shards, Metadata} \subseteq Whole
           /\ \A k \in Nat : Extras(k) \in Whole <=> k < saved
  BY Names, RestoreAssumption DEF Whole, WholeOf, Object

\* A rank is on a node, and every node with a rank has one local main process.
LEMMA Nodes ==
    ASSUME locals \in 1 .. Ranks, NEW r \in Rank
    PROVE  /\ NodeOf(r) \in Node
           /\ \E h \in Rank : IsLocalMain(h) /\ NodeOf(h) = NodeOf(r)
           /\ \A q \in Rank : IsLocalMain(q) /\ IsLocalMain(r) /\ NodeOf(q) = NodeOf(r) => q = r
<1>1. locals \in Nat \ {0} /\ r \in Nat
  BY RestoreAssumption DEF Rank
<1>2. NodeOf(r) \in Node
  BY RestoreAssumption DEF Rank, Node, NodeOf
<1>3. \A q \in Rank : IsLocalMain(q) /\ IsLocalMain(r) /\ NodeOf(q) = NodeOf(r) => q = r
  BY RestoreAssumption DEF Rank, Node, NodeOf, IsLocalMain
<1>4. PICK n \in Nat : n = r \div locals
  BY <1>1
<1>5. locals * n \in 0 .. r
  BY <1>1, <1>4
<1>6. (locals * n) % locals = 0 /\ (locals * n) \div locals = n
  BY <1>1
<1>7. locals * n \in Rank /\ IsLocalMain(locals * n) /\ NodeOf(locals * n) = NodeOf(r)
  BY RestoreAssumption, <1>4, <1>5, <1>6 DEF Rank, IsLocalMain, NodeOf
<1> QED BY <1>2, <1>3, <1>7

LEMMA RestoreInitInv == RestoreInit => RestoreInv
<1> SUFFICES ASSUME RestoreInit PROVE RestoreInv
  OBVIOUS
<1>1. locals \in 1 .. Ranks /\ caller \in Loader /\ saved \in 1 .. MaxSaved
  BY DEF RestoreInit
<1>2. written \in SUBSET Whole /\ Writable(written) /\ (caller = "manager" => written = Whole)
  BY DEF RestoreInit
<1>3. \A r \in Rank : pc[r] = "start" /\ loaded[r] = {}
  BY DEF RestoreInit
<1>4. /\ stage = [n \in Node |-> [o \in Object |-> IF o \in stale THEN "stale" ELSE "none"]]
      /\ stale \in {{}, {Shards}, WholeOf(MaxSaved)}
  BY DEF RestoreInit
<1>5. Metadata \in Object /\ stale \subseteq Object
  BY <1>1, <1>4, Parts
<1>6. RestoreType
  <2>1. early \in BOOLEAN /\ lagged \in BOOLEAN /\ (written # Whole => early)
    BY DEF RestoreInit
  <2>2. pc \in [Rank -> Step]
    BY DEF RestoreInit, Step
  <2>3. DOMAIN verifyErr = Node /\ DOMAIN loaded = Rank /\ DOMAIN extras = Rank
    BY DEF RestoreInit
  <2>4. DOMAIN stage = Node /\ \A n \in Node : DOMAIN stage[n] = Object
    BY <1>4
  <2> QED BY <1>1, <1>2, <1>5, <2>1, <2>2, <2>3, <2>4 DEF RestoreType
<1>7. Copies
  BY <1>3, <1>4 DEF Copies
<1>8. Last
  <2>1. \A n \in Node : stage[n][Metadata] # "new"
    BY <1>4, <1>5
  <2> QED BY <1>1, <1>3, <2>1, Nodes DEF Last
<1>9. Together /\ Reached /\ LoadsOneCheckpoint /\ ExtrasOfTheCheckpoint
  BY <1>3 DEF Together, Reached, LoadsOneCheckpoint, ExtrasOfTheCheckpoint
<1> QED BY <1>6, <1>7, <1>8, <1>9 DEF RestoreInv

\* What a download writes over the files of a node.
LEMMA Written ==
    ASSUME RestoreType, NEW n \in Node, NEW O \in SUBSET written, NEW v, NEW s,
           s = [stage EXCEPT ![n] = With(n, O, v)]
    PROVE  /\ DOMAIN s = Node
           /\ \A m \in Node : DOMAIN s[m] = Object
           /\ \A m \in Node \ {n} : s[m] = stage[m]
           /\ s[n] = With(n, O, v)
           /\ \A o \in Object : s[n][o] = IF o \in O THEN v ELSE stage[n][o]
<1>1. s[n] = With(n, O, v) /\ DOMAIN s = Node /\ \A m \in Node \ {n} : s[m] = stage[m]
  BY DEF RestoreType
<1>2. DOMAIN With(n, O, v) = Object /\ \A o \in Object : With(n, O, v)[o] = IF o \in O THEN v ELSE stage[n][o]
  BY DEF With
<1> QED BY <1>1, <1>2 DEF RestoreType

\* Once a tool has fooled the load, it has.
LEMMA FooledStays ==
    ASSUME UNCHANGED <<stale, early>>, lagged => lagged', NotFooled'
    PROVE  NotFooled
  BY DEF NotFooled

\* A step of one rank that is not past the barrier: if what it writes and where it
\* goes fit together, all is well.
LEMMA OfOneRank ==
    ASSUME RestoreInv, NEW r \in Rank, NEW O \in SUBSET written, NEW v \in {"cut", "new"},
           NEW l \in {"cli", "boto", "notfound", "barrier", "failed"},
           pc[r] \in {"start", "cli", "boto", "notfound"}, RankGoto(r, l),
           UNCHANGED <<ckpt, stale, early, result>>,
           lagged => lagged', lagged' \in BOOLEAN,
           lacked \subseteq lacked', blinded \subseteq blinded',
           DOMAIN verifyErr' = Node, \A n \in Node : verifyErr[n] => verifyErr'[n],
           DOMAIN stage' = Node, \A n \in Node : DOMAIN stage'[n] = Object,
           \A n \in Node \ {NodeOf(r)} : stage'[n] = stage[n],
           \A o \in Object : stage'[NodeOf(r)][o] = IF o \in O THEN v ELSE stage[NodeOf(r)][o],
           O # {} => pc[r] \in {"cli", "boto"},
           v = "new" => O = written \/ O = {},
           l \in {"cli", "boto", "notfound"} => IsLocalMain(r),
           l \in {"cli", "boto"} =>
                /\ pc[r] \in {"start", "cli"} /\ (v = "cut" \/ Metadata \notin O)
                /\ NodeOf(r) \in lacked' \/ Complete(written),
           l = "barrier" /\ NotFooled' /\ IsLocalMain(r) => stage'[NodeOf(r)][Metadata] # "stale",
           l = "notfound" => NodeOf(r) \in lacked' \cup blinded' \/ verifyErr'[NodeOf(r)]
    PROVE  RestoreInv'
<1> USE DEF RestoreInv
<1>1. /\ pc' \in [Rank -> Step] /\ pc'[r] = l
      /\ \A q \in Rank \ {r} : pc'[q] = pc[q]
  BY DEF RestoreType, RankGoto, Step
<1>2. NotFooled' => NotFooled
  BY FooledStays
<1>3. NodeOf(r) \in Node /\ Metadata \in Object /\ Whole \subseteq Object
      /\ \A q \in Rank : NodeOf(q) \in Node
  BY Nodes, Parts DEF RestoreType
<1>4. locals' = locals /\ caller' = caller /\ saved' = saved /\ written' = written /\ Whole' = Whole
  BY DEF ckpt, Whole
<1>5. \A q \in Rank : NodeOf(q)' = NodeOf(q) /\ (IsLocalMain(q)' <=> IsLocalMain(q))
  BY <1>4 DEF NodeOf, IsLocalMain
<1>6. RestoreType'
  BY <1>1, <1>4 DEF RestoreType, Writable, AnyOrder, result
<1>7. Copies'
  <2>1. ASSUME NEW q \in Rank, pc'[q] \in {"cli", "boto", "notfound"} PROVE IsLocalMain(q)'
    BY <1>1, <1>5, <2>1 DEF Copies
  <2>2. ASSUME NEW n \in Node, NEW o \in Object
        PROVE  /\ stage'[n][o] \in {"none", "stale", "cut", "new"}
               /\ stage'[n][o] \in {"cut", "new"} => o \in written'
               /\ stage'[n][o] = "stale" => o \in stale'
    <3>1. CASE n = NodeOf(r) /\ o \in O
      BY <1>4, <3>1
    <3>2. CASE ~(n = NodeOf(r) /\ o \in O)
      <4>1. stage'[n][o] = stage[n][o]
        BY <3>2
      <4> QED BY <1>4, <4>1 DEF Copies
    <3> QED BY <3>1, <3>2
  <2> QED BY <2>1, <2>2 DEF Copies
<1>8. O # {} => IsLocalMain(r) /\ stage[NodeOf(r)][Metadata] # "new"
  BY DEF Copies, Last
<1>9. Last'
  <2>1. ASSUME NEW n \in Node, caller # "accelerate", stage'[n][Metadata] = "new", NEW o \in Whole
        PROVE  stage'[n][o] = "new"
    <3>1. CASE n # NodeOf(r) \/ O = {}
      <4>1. \A x \in Object : stage'[n][x] = stage[n][x]
        BY <3>1
      <4> QED BY <1>3, <2>1, <4>1 DEF Last
    <3>2. CASE n = NodeOf(r) /\ O # {}
      <4>1. Metadata \in O /\ v = "new"
        BY <1>3, <1>8, <2>1, <3>2
      <4>2. O = written /\ Metadata \in written
        BY <3>2, <4>1
      <4>3. written = Whole
        BY <2>1, <4>2 DEF RestoreType, Writable, AnyOrder
      <4> QED BY <1>3, <3>2, <4>1, <4>2, <4>3
    <3> QED BY <3>1, <3>2
  <2>2. ASSUME NEW q \in Rank, IsLocalMain(q)
        PROVE  /\ pc'[q] \in {"start", "cli", "boto"} => stage'[NodeOf(q)][Metadata] # "new"
               /\ NotFooled' /\ pc'[q] \in {"barrier", "load"} => stage'[NodeOf(q)][Metadata] # "stale"
    <3>1. CASE q = r
      <4>1. ASSUME l \in {"cli", "boto"} PROVE stage'[NodeOf(r)][Metadata] # "new"
        <5>1. stage[NodeOf(r)][Metadata] # "new"
          BY <2>2, <3>1, <4>1 DEF Last
        <5> QED BY <1>3, <4>1, <5>1
      <4> QED BY <1>1, <2>2, <3>1, <4>1
    <3>2. CASE q # r
      <4>1. pc'[q] = pc[q]
        BY <1>1, <3>2
      <4>2. CASE IsLocalMain(r)
        <5>1. NodeOf(q) # NodeOf(r)
          BY <2>2, <3>2, <4>2, Nodes DEF RestoreType
        <5>2. stage'[NodeOf(q)] = stage[NodeOf(q)]
          BY <1>3, <5>1
        <5> QED BY <1>2, <2>2, <4>1, <5>2 DEF Last
      <4>3. CASE ~IsLocalMain(r)
        <5>1. O = {}
          BY <1>8, <4>3
        <5>2. stage'[NodeOf(q)][Metadata] = stage[NodeOf(q)][Metadata]
          BY <1>3, <5>1
        <5> QED BY <1>2, <2>2, <4>1, <5>2 DEF Last
      <4> QED BY <4>2, <4>3
    <3> QED BY <3>1, <3>2
  <2> QED BY <1>4, <1>5, <2>1, <2>2 DEF Last
<1>10. \A q \in Rank : pc[q] \notin {"extras", "done"} /\ pc'[q] \notin {"extras", "done"}
  <2>1. \A q \in Rank : pc[q] \notin {"extras", "done"}
    BY DEF Together
  <2> QED BY <1>1, <2>1
<1>11. Together' /\ ExtrasOfTheCheckpoint'
  BY <1>10 DEF Together, ExtrasOfTheCheckpoint
<1>12. Reached'
  <2>1. ASSUME NEW q \in Rank
        PROVE  /\ pc'[q] \in {"cli", "boto"} => NodeOf(q) \in lacked' \/ Complete(written)
               /\ pc'[q] = "notfound" => NodeOf(q) \in lacked' \cup blinded' \/ verifyErr'[NodeOf(q)]
    BY <1>1, <1>3, <2>1 DEF Reached
  <2>2. Complete(written)' <=> Complete(written)
    BY <1>4 DEF Complete, Required
  <2> QED BY <1>5, <2>1, <2>2 DEF Reached
<1>13. LoadsOneCheckpoint'
  BY <1>2, <1>4 DEF LoadsOneCheckpoint, result
<1> QED BY <1>6, <1>7, <1>9, <1>11, <1>12, <1>13

\* A download that leaves no old .metadata where the load is to take it: it has
\* brought what is written, or nothing with nothing old there.
LEMMA NothingOld ==
    ASSUME RestoreInv, NEW n \in Node, NEW O \in {written, {}},
           UNCHANGED <<stale, early>>, lagged' <=> lagged \/ O # written,
           \A o \in Object : stage'[n][o] = IF o \in O THEN "new" ELSE stage[n][o],
           NotFooled'
    PROVE  stage'[n][Metadata] # "stale"
<1>1. SUFFICES ASSUME stage'[n][Metadata] = "stale" PROVE FALSE
  OBVIOUS
<1>2. Metadata \in Whole /\ Metadata \in Object
  BY Parts DEF RestoreInv, RestoreType
<1>3. stage[n][Metadata] = "stale" /\ Metadata \notin O
  BY <1>1, <1>2
<1>4. Metadata \in stale
  BY <1>2, <1>3 DEF RestoreInv, Copies
<1>5. ~early /\ ~lagged'
  BY <1>4 DEF NotFooled
<1>6. written = Whole /\ O = written
  BY <1>5 DEF RestoreInv, RestoreType
<1> QED BY <1>2, <1>3, <1>6

LEMMA SaverWritesInv == ASSUME RestoreInv, SaverWrites PROVE RestoreInv'
<1> USE DEF RestoreInv
<1>1. PICK o \in Whole \ written : Writable(written \cup {o}) /\ written' = written \cup {o}
  BY DEF SaverWrites
<1>2. UNCHANGED <<locals, caller, saved, hidden, past, stage, pc, attempt, result>>
  BY DEF SaverWrites
<1>3. Whole' = Whole /\ Required' = Required
  BY <1>2 DEF Whole, Required
<1>4. \A q \in Rank : NodeOf(q)' = NodeOf(q) /\ (IsLocalMain(q)' <=> IsLocalMain(q))
  BY <1>2 DEF NodeOf, IsLocalMain
<1>5. RestoreType'
  <2>1. Writable(written)'
    BY <1>1, <1>2, <1>3 DEF Writable, AnyOrder
  <2>2. written' \subseteq Whole' /\ (written' # Whole' => early' /\ caller' # "manager")
    BY <1>1, <1>2, <1>3, <2>1 DEF RestoreType, past
  <2> QED BY <1>2, <2>1, <2>2 DEF RestoreType, past, attempt, result
<1>6. Copies'
  BY <1>1, <1>2, <1>4 DEF Copies, past
<1>7. Last'
  BY <1>2, <1>3, <1>4 DEF Last, NotFooled, past, attempt
<1>8. Together'
  BY <1>2, <1>4 DEF Together, NotFooled, past, attempt
<1>9. Complete(written) => Complete(written)'
  BY <1>1, <1>3 DEF Complete
<1>10. Reached'
  BY <1>2, <1>4, <1>9 DEF Reached, past, attempt
<1>11. LoadsOneCheckpoint' /\ ExtrasOfTheCheckpoint'
  BY <1>2 DEF LoadsOneCheckpoint, ExtrasOfTheCheckpoint, NotFooled, past, attempt, result
<1> QED BY <1>5, <1>6, <1>7, <1>8, <1>10, <1>11

LEMMA EnterInv == ASSUME RestoreInv, NEW r \in Rank, Enter(r) PROVE RestoreInv'
<1> USE DEF RestoreInv
<1> DEFINE l == IF IsLocalMain(r) THEN "cli" ELSE "barrier"
<1>1. /\ pc[r] = "start" /\ RankGoto(r, l) /\ UNCHANGED <<ckpt, stale, early, stage, attempt, result>>
      /\ lacked \subseteq lacked'
      /\ IsLocalMain(r) => NodeOf(r) \in lacked' \/ Complete(written)
  BY DEF Enter
<1>2. /\ DOMAIN verifyErr' = Node /\ (\A n \in Node : verifyErr'[n] = verifyErr[n])
      /\ lagged' = lagged /\ lagged' \in BOOLEAN /\ blinded' = blinded
      /\ DOMAIN stage' = Node /\ (\A n \in Node : DOMAIN stage'[n] = Object)
  BY <1>1 DEF RestoreType, attempt
<1>3. /\ l \in {"cli", "barrier"} /\ (l = "cli" <=> IsLocalMain(r))
  OBVIOUS
<1> HIDE DEF l
<1>4. {} \in SUBSET written /\ "cut" \in {"cut", "new"} /\ stage' = stage
  BY <1>1
<1> QED BY <1>1, <1>2, <1>3, <1>4, OfOneRank

LEMMA CliDownloadInv == ASSUME RestoreInv, NEW r \in Rank, CliDownload(r) PROVE RestoreInv'
<1> USE DEF RestoreInv
<1> DEFINE n == NodeOf(r)
<1>1. pc[r] = "cli" /\ UNCHANGED <<ckpt, past, result>>
  BY DEF CliDownload
<1>2. IsLocalMain(r) /\ n \in Node /\ (n \in lacked \/ Complete(written)) /\ NodeOf(r) \in Node
  BY <1>1, Nodes DEF RestoreType, Copies, Reached
<1>3. /\ lacked' = lacked /\ UNCHANGED <<stale, early>>
  BY <1>1 DEF past
<1>4. pc = [pc EXCEPT ![r] = "cli"]
  BY <1>1 DEF RestoreType
<1>5. PICK a \in CliResults(written # {}, hidden) \cup {<<"done", FALSE>>} :
        \/ a[1] = "done" /\ CliDone(r) /\ UNCHANGED blinded
        \/ a[1] = "failed" /\ CliFails(r) /\ UNCHANGED <<blinded, lagged>>
        \/ a[1] = "none" /\ RankGoto(r, "boto")
           /\ UNCHANGED <<stage, tries, verifyErr, blinded, lagged>>
        \/ /\ a[1] = "absent" /\ RankGoto(r, "notfound")
           /\ blinded' = IF a[2] THEN blinded \cup {NodeOf(r)} ELSE blinded
           /\ UNCHANGED <<stage, tries, verifyErr, lagged>>
  BY DEF CliDownload
<1>6. CASE CliDone(r) /\ UNCHANGED blinded
  <2>1. PICK O \in {written, {}} :
            LET got == With(n, O, "new")
            IN  /\ stage' = [stage EXCEPT ![n] = got]
                /\ lagged' = (lagged \/ O # written)
                /\ IF Taken(got)
                   THEN RankGoto(r, "barrier") /\ UNCHANGED <<tries, verifyErr>>
                   ELSE /\ tries' = [tries EXCEPT ![n] = @ + 1]
                        /\ verifyErr' = [verifyErr EXCEPT ![n] = TRUE]
                        /\ UNCHANGED pc
    BY <1>6 DEF CliDone
  <2> DEFINE got == With(n, O, "new")
  <2>2. stage' = [stage EXCEPT ![n] = got] /\ lagged' = (lagged \/ O # written) /\ O \in SUBSET written
    BY <2>1
  <2>3. /\ DOMAIN stage' = Node
        /\ \A m \in Node : DOMAIN stage'[m] = Object
        /\ \A m \in Node \ {n} : stage'[m] = stage[m]
        /\ stage'[n] = got
        /\ \A o \in Object : stage'[n][o] = IF o \in O THEN "new" ELSE stage[n][o]
    BY <1>2, <2>2, Written
  <2>4. NotFooled' => stage'[n][Metadata] # "stale"
    BY <1>2, <1>3, <2>1, <2>2, <2>3, NothingOld
  <2>5. lagged' \in BOOLEAN /\ (lagged => lagged') /\ blinded' = blinded
    BY <1>6, <2>2
  <2> HIDE DEF n
  <2>6. CASE Taken(got)
    <3>1. RankGoto(r, "barrier") /\ verifyErr' = verifyErr
      BY <2>1, <2>6
    <3> QED BY <1>1, <1>2, <1>3, <2>2, <2>3, <2>4, <2>5, <3>1, OfOneRank DEF RestoreType, n
  <2>7. CASE ~Taken(got)
    <3>1. RankGoto(r, "cli") /\ verifyErr' = [verifyErr EXCEPT ![n] = TRUE]
      BY <1>4, <2>1, <2>7 DEF RankGoto
    <3>2. DOMAIN verifyErr' = Node /\ \A m \in Node : verifyErr[m] => verifyErr'[m]
      BY <3>1 DEF RestoreType
    <3>3. ASSUME Metadata \in O PROVE FALSE
      <4>1. O = written /\ Metadata \in Object /\ written \subseteq Object
        BY <2>1, <3>3, Parts DEF RestoreType
      <4>2. \A o \in O : got[o] = "new"
        BY <2>3, <4>1
      <4>3. O \subseteq {o \in Object : got[o] # "none"}
        BY <4>1, <4>2
      <4>4. Required \subseteq O /\ O # {}
        BY <3>3 DEF Required
      <4> QED BY <2>7, <4>3, <4>4 DEF Taken, Verified, Complete
    <3> QED BY <1>1, <1>2, <1>3, <2>2, <2>3, <2>5, <2>1, <3>1, <3>2, <3>3, OfOneRank DEF n
  <2> QED BY <2>6, <2>7
<1>7. CASE CliFails(r) /\ UNCHANGED <<blinded, lagged>>
  <2>1. PICK O \in {{}} \cup {{o} : o \in written} : stage' = [stage EXCEPT ![n] = With(n, O, "cut")]
    BY <1>7 DEF CliFails
  <2>2. O \in SUBSET written
    BY <2>1
  <2>3. /\ DOMAIN stage' = Node
        /\ \A m \in Node : DOMAIN stage'[m] = Object
        /\ \A m \in Node \ {n} : stage'[m] = stage[m]
        /\ \A o \in Object : stage'[n][o] = IF o \in O THEN "cut" ELSE stage[n][o]
    BY <1>2, <2>1, <2>2, Written
  <2>4. RankGoto(r, "cli") /\ verifyErr' = verifyErr /\ lagged' = lagged /\ blinded' = blinded
    BY <1>4, <1>7 DEF RankGoto, CliFails
  <2> QED BY <1>1, <1>2, <1>3, <2>2, <2>3, <2>4, OfOneRank DEF RestoreType
<1>8. CASE a[1] = "none" /\ RankGoto(r, "boto")
           /\ UNCHANGED <<stage, tries, verifyErr, blinded, lagged>>
  <2>1. {} \in SUBSET written /\ "cut" \in {"cut", "new"}
    OBVIOUS
  <2> QED BY <1>1, <1>2, <1>3, <1>8, <2>1, OfOneRank DEF RestoreType
<1>9. CASE /\ a[1] = "absent" /\ RankGoto(r, "notfound")
           /\ blinded' = IF a[2] THEN blinded \cup {NodeOf(r)} ELSE blinded
           /\ UNCHANGED <<stage, tries, verifyErr, lagged>>
  <2>1. {} \in SUBSET written /\ "cut" \in {"cut", "new"}
    OBVIOUS
  <2>2. a \in CliResults(written # {}, hidden) /\ (written # {}) \in BOOLEAN
    <3>1. <<"done", FALSE>>[1] # "absent"
      OBVIOUS
    <3>2. a # <<"done", FALSE>>
      BY <1>9, <3>1
    <3> QED BY <1>5, <3>2
  <2>3. written = {} \/ a[2]
    BY <1>9, <2>2, Decided
  <2>4. NodeOf(r) \in lacked' \cup blinded' /\ blinded \subseteq blinded'
    BY <1>2, <1>3, <1>9, <2>3 DEF Complete
  <2> QED BY <1>1, <1>2, <1>3, <1>9, <2>1, <2>4, OfOneRank DEF RestoreType
<1> QED BY <1>5, <1>6, <1>7, <1>8, <1>9

LEMMA CliExhaustedInv == ASSUME RestoreInv, NEW r \in Rank, CliExhausted(r) PROVE RestoreInv'
<1>1. /\ pc[r] = "cli" /\ RankGoto(r, "boto")
      /\ UNCHANGED <<ckpt, past, stage, attempt, result>>
  BY DEF CliExhausted
<1>2. IsLocalMain(r) /\ (NodeOf(r) \in lacked \/ Complete(written))
  BY <1>1 DEF RestoreInv, Copies, Reached
<1>3. {} \in SUBSET written /\ "cut" \in {"cut", "new"}
  OBVIOUS
<1> QED BY <1>1, <1>2, <1>3, OfOneRank DEF RestoreInv, RestoreType, attempt, past

LEMMA DirNotFoundInv == ASSUME RestoreInv, NEW r \in Rank, DirNotFound(r) PROVE RestoreInv'
<1>1. /\ pc[r] = "notfound" /\ RankGoto(r, "failed")
      /\ UNCHANGED <<ckpt, past, stage, attempt, result>>
  BY DEF DirNotFound
<1>2. {} \in SUBSET written /\ "cut" \in {"cut", "new"}
  OBVIOUS
<1> QED BY <1>1, <1>2, OfOneRank DEF RestoreInv, RestoreType, attempt, past

LEMMA BotoDownloadInv == ASSUME RestoreInv, NEW r \in Rank, BotoDownload(r) PROVE RestoreInv'
<1> USE DEF RestoreInv
<1> DEFINE n == NodeOf(r)
<1>1. pc[r] = "boto" /\ UNCHANGED <<ckpt, past, attempt, result>>
  BY DEF BotoDownload
<1>2. IsLocalMain(r) /\ n \in Node /\ (n \in lacked \/ Complete(written)) /\ NodeOf(r) \in Node
  BY <1>1, Nodes DEF RestoreType, Copies, Reached
<1>3. /\ lacked' = lacked /\ UNCHANGED <<stale, early>> /\ verifyErr' = verifyErr
      /\ lagged' = lagged /\ blinded' = blinded
  BY <1>1 DEF past, attempt
<1>4. {} \in SUBSET written /\ "cut" \in {"cut", "new"}
  OBVIOUS
<1>5. PICK b \in BotoAnswers(written # {}) :
        \/ /\ b = "error" /\ UNCHANGED stage
           /\ RankGoto(r, IF verifyErr[NodeOf(r)] THEN "notfound" ELSE "failed")
        \/ b = "absent" /\ UNCHANGED stage /\ RankGoto(r, "notfound")
        \/ LET got == With(NodeOf(r), written, "new")
           IN  /\ b = "done" /\ stage' = [stage EXCEPT ![NodeOf(r)] = got]
               /\ RankGoto(r, IF Verified(got) THEN "barrier" ELSE "notfound")
  BY DEF BotoDownload
<1>6. CASE UNCHANGED stage /\ RankGoto(r, IF verifyErr[NodeOf(r)] THEN "notfound" ELSE "failed")
  <2>1. CASE verifyErr[NodeOf(r)]
    BY <1>1, <1>2, <1>3, <1>4, <1>6, <2>1, OfOneRank DEF RestoreType
  <2>2. CASE ~verifyErr[NodeOf(r)]
    BY <1>1, <1>2, <1>3, <1>4, <1>6, <2>2, OfOneRank DEF RestoreType
  <2> QED BY <2>1, <2>2
<1>7. CASE b = "absent" /\ UNCHANGED stage /\ RankGoto(r, "notfound")
  <2>1. n \in lacked
    BY <1>2, <1>7 DEF BotoAnswers, Complete
  <2> QED BY <1>1, <1>2, <1>3, <1>4, <1>7, <2>1, OfOneRank DEF RestoreType
<1>8. CASE LET got == With(NodeOf(r), written, "new")
           IN  /\ b = "done" /\ stage' = [stage EXCEPT ![NodeOf(r)] = got]
               /\ RankGoto(r, IF Verified(got) THEN "barrier" ELSE "notfound")
  <2> DEFINE got == With(NodeOf(r), written, "new")
  <2>1. /\ DOMAIN stage' = Node
        /\ \A m \in Node : DOMAIN stage'[m] = Object
        /\ \A m \in Node \ {n} : stage'[m] = stage[m]
        /\ stage'[n] = got
        /\ \A o \in Object : stage'[n][o] = IF o \in written THEN "new" ELSE stage[n][o]
    BY <1>2, <1>8, Written
  <2>2. NotFooled' => stage'[n][Metadata] # "stale"
    BY <1>2, <1>3, <2>1, NothingOld
  <2>3. Verified(got) \/ n \in lacked
    <3>1. written \subseteq Object
      BY Parts DEF RestoreType
    <3>2. written \subseteq {o \in Object : got[o] # "none"}
      BY <2>1, <3>1
    <3> QED BY <1>2, <3>2 DEF Verified, Complete
  <2>4. RankGoto(r, IF Verified(got) THEN "barrier" ELSE "notfound")
    BY <1>8
  <2> HIDE DEF got
  <2>5. CASE Verified(got)
    BY <1>1, <1>2, <1>3, <2>1, <2>2, <2>4, <2>5, OfOneRank DEF RestoreType
  <2>6. CASE ~Verified(got)
    BY <1>1, <1>2, <1>3, <2>1, <2>3, <2>4, <2>6, OfOneRank DEF RestoreType
  <2> QED BY <2>5, <2>6
<1> QED BY <1>5, <1>6, <1>7, <1>8

LEMMA BarrierInv == ASSUME RestoreInv, Barrier PROVE RestoreInv'
<1> USE DEF RestoreInv
<1>1. /\ \A r \in Rank : pc[r] = "barrier" /\ pc'[r] = "load"
      /\ pc' = [r \in Rank |-> IF pc[r] = "barrier" THEN "load" ELSE pc[r]]
      /\ UNCHANGED <<ckpt, past, stage, attempt, result>>
  BY DEF Barrier, AllArrived
<1>2. UNCHANGED <<locals, caller, saved, written, stale, early, lacked, blinded, lagged, verifyErr, loaded, extras>>
  BY <1>1 DEF ckpt, past, attempt, result
<1>3. Whole' = Whole /\ (NotFooled' <=> NotFooled)
  BY <1>2 DEF Whole, NotFooled
<1>4. \A q \in Rank : NodeOf(q)' = NodeOf(q) /\ (IsLocalMain(q)' <=> IsLocalMain(q))
  BY <1>2 DEF NodeOf, IsLocalMain
<1>5. RestoreType'
  <2>1. pc' \in [Rank -> Step]
    BY <1>1 DEF Step
  <2> QED BY <1>1, <1>2, <1>3, <2>1 DEF RestoreType, Writable, AnyOrder
<1>6. Copies'
  BY <1>1, <1>2 DEF Copies
<1>7. Last'
  BY <1>1, <1>2, <1>3, <1>4 DEF Last
<1>8. Together' /\ Reached' /\ ExtrasOfTheCheckpoint'
  BY <1>1 DEF Together, Reached, ExtrasOfTheCheckpoint
<1>9. LoadsOneCheckpoint'
  BY <1>2, <1>3 DEF LoadsOneCheckpoint
<1> QED BY <1>5, <1>6, <1>7, <1>8, <1>9

LEMMA LoadStateInv == ASSUME RestoreInv, LoadState PROVE RestoreInv'
<1> USE DEF RestoreInv
<1>1. /\ \A r \in Rank : pc[r] = "load"
      /\ UNCHANGED <<ckpt, past, stage, attempt, extras>>
  BY DEF LoadState
<1>2. UNCHANGED <<locals, caller, saved, written, stale, early, lacked, blinded, lagged, verifyErr, extras, stage>>
  BY <1>1 DEF ckpt, past, attempt
<1>3. Whole' = Whole /\ (NotFooled' <=> NotFooled)
  BY <1>2 DEF Whole, NotFooled
<1>4. \A q \in Rank : NodeOf(q)' = NodeOf(q) /\ (IsLocalMain(q)' <=> IsLocalMain(q))
  BY <1>2 DEF NodeOf, IsLocalMain
<1>5. CASE \E r \in Rank : {"none", "cut"} \cap Tensors(r) # {}
  <2>1. pc' = [r \in Rank |-> "failed"] /\ loaded' = loaded
    BY <1>5 DEF LoadState
  <2>2. pc' \in [Rank -> Step] /\ \A r \in Rank : pc'[r] = "failed"
    BY <2>1 DEF Step
  <2>3. RestoreType' /\ Copies'
    BY <1>2, <1>3, <2>1, <2>2 DEF RestoreType, Copies, Writable, AnyOrder
  <2>4. Last' /\ Together' /\ Reached' /\ ExtrasOfTheCheckpoint' /\ LoadsOneCheckpoint'
    BY <1>2, <1>3, <2>1, <2>2 DEF Last, Together, Reached, ExtrasOfTheCheckpoint, LoadsOneCheckpoint
  <2> QED BY <2>3, <2>4
<1>6. CASE ~\E r \in Rank : {"none", "cut"} \cap Tensors(r) # {}
  <2>1. /\ loaded' = [r \in Rank |-> Tensors(r)]
        /\ pc' = [r \in Rank |-> IF caller = "accelerate" THEN "done" ELSE "extras"]
    BY <1>6 DEF LoadState
  <2>2. /\ pc' \in [Rank -> Step]
        /\ \A r \in Rank : /\ pc'[r] = IF caller = "accelerate" THEN "done" ELSE "extras"
                           /\ loaded'[r] = Tensors(r)
    BY <2>1 DEF Step
  <2>3. RestoreType' /\ Copies'
    BY <1>2, <1>3, <2>1, <2>2 DEF RestoreType, Copies, Writable, AnyOrder
  <2>4. ASSUME NotFooled, NEW r \in Rank PROVE stage[NodeOf(r)][Metadata] = "new"
    <3>1. PICK h \in Rank : IsLocalMain(h) /\ NodeOf(h) = NodeOf(r)
      BY Nodes DEF RestoreType
    <3>2. stage[NodeOf(r)][Metadata] # "stale"
      BY <1>1, <2>4, <3>1 DEF Last
    <3>3. stage[NodeOf(r)][Metadata] \notin {"none", "cut"}
      BY <1>6 DEF Tensors
    <3>4. stage[NodeOf(r)][Metadata] \in {"none", "stale", "cut", "new"}
      BY Nodes, Parts DEF RestoreType, Copies
    <3> QED BY <3>2, <3>3, <3>4
  <2>5. ASSUME NotFooled, caller # "accelerate", NEW r \in Rank PROVE Tensors(r) \subseteq {"new"}
    <3>1. \A o \in Whole : stage[NodeOf(r)][o] = "new"
      BY <2>4, <2>5, Nodes DEF RestoreType, Last
    <3> QED BY <3>1, Parts DEF RestoreType, Tensors
  <2>6. LoadsOneCheckpoint'
    BY <1>2, <1>3, <2>2, <2>5 DEF LoadsOneCheckpoint
  <2>7. Last' /\ Reached'
    BY <1>2, <1>3, <2>2 DEF Last, Reached
  <2>8. Together'
    BY <1>2, <1>3, <1>4, <2>2, <2>4 DEF Together
  <2>9. ExtrasOfTheCheckpoint'
    BY <1>2, <2>2 DEF ExtrasOfTheCheckpoint
  <2> QED BY <2>3, <2>6, <2>7, <2>8, <2>9
<1> QED BY <1>5, <1>6

LEMMA ReadExtrasInv == ASSUME RestoreInv, NEW r \in Rank, ReadExtras(r) PROVE RestoreInv'
<1> USE DEF RestoreInv
<1> DEFINE n == NodeOf(r)
           from == Sidecar(r)
<1>1. /\ pc[r] = "extras"
      /\ UNCHANGED <<ckpt, past, stage, attempt, loaded>>
      /\ extras' = [extras EXCEPT ![r] =
            IF from = {} THEN "name"
            ELSE LET o == CHOOSE o \in from : TRUE
                 IN  IF stage[n][o] = "new" /\ o # Extras(r) THEN "zero" ELSE stage[n][o]]
      /\ RankGoto(r, IF extras'[r] = "cut" THEN "failed" ELSE "done")
  BY DEF ReadExtras
<1>2. UNCHANGED <<locals, caller, saved, written, stale, early, lacked, blinded, lagged, verifyErr, loaded, stage>>
  BY <1>1 DEF ckpt, past, attempt
<1>3. Whole' = Whole /\ (NotFooled' <=> NotFooled)
  BY <1>2 DEF Whole, NotFooled
<1>4. \A q \in Rank : NodeOf(q)' = NodeOf(q) /\ (IsLocalMain(q)' <=> IsLocalMain(q))
  BY <1>2 DEF NodeOf, IsLocalMain
<1>5. /\ pc' \in [Rank -> Step]
      /\ pc'[r] = IF extras'[r] = "cut" THEN "failed" ELSE "done"
      /\ \A q \in Rank \ {r} : pc'[q] = pc[q] /\ extras'[q] = extras[q]
      /\ DOMAIN extras' = Rank
  BY <1>1 DEF RestoreType, RankGoto, Step
<1>6. \A q \in Rank : pc[q] \in {"extras", "done", "failed"} /\ pc'[q] \in {"extras", "done", "failed"}
  BY <1>1, <1>5 DEF Together
<1>7. RestoreType' /\ Copies'
  BY <1>2, <1>3, <1>5, <1>6 DEF RestoreType, Copies, Writable, AnyOrder
<1>8. Last' /\ Reached'
  BY <1>2, <1>3, <1>6 DEF Last, Reached
<1>9. Together'
  <2>1. \A q \in Rank : pc'[q] = "extras" => pc[q] = "extras"
    BY <1>5
  <2> QED BY <1>2, <1>3, <1>4, <1>6, <2>1 DEF Together
<1>10. LoadsOneCheckpoint'
  BY <1>2, <1>3 DEF LoadsOneCheckpoint
<1>11. ASSUME NotFooled
       PROVE  \/ extras'[r] = IF r < saved THEN "new" ELSE "zero"
              \/ extras'[r] = "stale" /\ r >= saved /\ Extras(r) \in stale
  <2>1. \A o \in Whole : stage[n][o] = "new"
    BY <1>1, <1>11, Nodes DEF RestoreType, Together, Last
  <2>2. r \in Nat /\ saved \in Nat /\ saved > 0
    BY RestoreAssumption DEF RestoreType, Rank
  <2>3. extras'[r] = IF from = {} THEN "name"
                     ELSE LET o == CHOOSE o \in from : TRUE
                          IN  IF stage[n][o] = "new" /\ o # Extras(r) THEN "zero" ELSE stage[n][o]
    BY <1>1 DEF RestoreType
  <2>4. \A k \in Nat : Extras(k) \in Whole <=> k < saved
    BY Parts DEF RestoreType
  <2>5. Whole \subseteq Object
    BY Parts DEF RestoreType
  <2>6. \A o : (CHOOSE x \in {o} : TRUE) = o
    OBVIOUS
  <2> HIDE DEF n, from
  <2>7. CASE Staged(r, Extras(r))
    <3>1. from = {Extras(r)}
      BY <2>7 DEF from, Sidecar
    <3>2. extras'[r] = stage[n][Extras(r)]
      BY <2>3, <2>6, <3>1
    <3>3. CASE r < saved
      BY <2>1, <2>2, <2>4, <3>2, <3>3
    <3>4. CASE r >= saved
      <4>1. Extras(r) \in Object /\ Extras(r) \notin written
        BY <2>2, <2>4, <2>7, <3>4 DEF RestoreType, Staged
      <4>2. stage[n][Extras(r)] # "none" /\ n \in Node
        BY <2>7, Nodes DEF Staged, n, RestoreType
      <4>3. stage[n][Extras(r)] = "stale" /\ Extras(r) \in stale
        BY <4>1, <4>2 DEF Copies
      <4> QED BY <3>2, <3>4, <4>3
    <3> QED BY <2>2, <3>3, <3>4
  <2>8. CASE ~Staged(r, Extras(r))
    <3>1. r >= saved
      BY <2>1, <2>2, <2>4, <2>5, <2>8 DEF Staged, n
    <3>2. Extras(0) \in Whole /\ Extras(0) \in Object /\ stage[n][Extras(0)] = "new"
      BY <2>1, <2>2, <2>4, <2>5
    <3>3. from = {Extras(0)}
      BY <2>8, <3>2 DEF from, Sidecar, Staged, n
    <3>4. Extras(0) # Extras(r)
      BY <2>2, <3>1, Names
    <3> QED BY <2>2, <2>3, <2>6, <3>1, <3>2, <3>3, <3>4
  <2> QED BY <2>7, <2>8
<1>12. ExtrasOfTheCheckpoint'
  BY <1>2, <1>3, <1>5, <1>11 DEF ExtrasOfTheCheckpoint
<1> QED BY <1>7, <1>8, <1>9, <1>10, <1>12

LEMMA RestoreNextInv == RestoreInv /\ [RestoreNext]_restoreVars => RestoreInv'
<1> SUFFICES ASSUME RestoreInv, [RestoreNext]_restoreVars PROVE RestoreInv'
  OBVIOUS
<1>1. CASE UNCHANGED restoreVars
  <2>1. UNCHANGED <<locals, caller, saved, written, stale, early, stage, pc, lacked, blinded,
                    lagged, verifyErr, loaded, extras>>
    BY <1>1 DEF restoreVars, ckpt, past, attempt, result
  <2>2. RestoreType' /\ Copies' /\ Last' /\ Together' /\ Reached'
    BY <2>1 DEF RestoreInv, RestoreType, Copies, Last, Together, Reached, NotFooled, Whole, Writable,
                AnyOrder, NodeOf, IsLocalMain, Complete, Required
  <2>3. LoadsOneCheckpoint' /\ ExtrasOfTheCheckpoint'
    BY <2>1 DEF RestoreInv, LoadsOneCheckpoint, ExtrasOfTheCheckpoint, NotFooled
  <2> QED BY <2>2, <2>3 DEF RestoreInv
<1>2. CASE SaverWrites \/ Barrier \/ LoadState
  BY <1>2, SaverWritesInv, BarrierInv, LoadStateInv
<1>3. ASSUME NEW r \in Rank, Enter(r) \/ CliDownload(r) \/ CliExhausted(r) PROVE RestoreInv'
  BY <1>3, EnterInv, CliDownloadInv, CliExhaustedInv
<1>4. ASSUME NEW r \in Rank, BotoDownload(r) \/ DirNotFound(r) \/ ReadExtras(r) PROVE RestoreInv'
  BY <1>4, BotoDownloadInv, DirNotFoundInv, ReadExtrasInv
<1> QED BY <1>1, <1>2, <1>3, <1>4 DEF RestoreNext

LEMMA RestoreInvariance == RestoreSpec => []RestoreInv
BY RestoreInitInv, RestoreNextInv, PTL DEF RestoreSpec

\* The weights a rank loads are those of the checkpoint, whatever lay in the stage
\* directory and however the tools failed, unless the old files pass for the new:
\* for every number of ranks, of ranks per node, of saved ranks and of attempts.
THEOREM OneCheckpoint == RestoreSpec => []LoadsOneCheckpoint
BY RestoreInvariance, PTL DEF RestoreInv

\* The step and the extras of a rank are of the checkpoint it loads: its own, or
\* else rank 0's, unless a sidecar of it from an earlier load is left.
THEOREM RightExtras == RestoreSpec => []ExtrasOfTheCheckpoint
BY RestoreInvariance, PTL DEF RestoreInv

\* The load of a checkpoint that was there does not end in FileNotFoundError, unless
\* a tool that does not see it, or whose failure reads like "not found", decided,
\* or one reported an empty success.
THEOREM DirFound == RestoreSpec => DirFoundIfThere
<1>1. ASSUME RestoreInv, [RestoreNext]_restoreVars
      PROVE  [\A r \in Rank : DirNotFound(r) =>
                NodeOf(r) \in lacked \cup blinded \/ verifyErr[NodeOf(r)]]_restoreVars
  BY <1>1 DEF RestoreInv, Reached, DirNotFound
<1> QED BY <1>1, RestoreInvariance, PTL DEF RestoreSpec, DirFoundIfThere

=============================================================================
