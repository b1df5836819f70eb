---------------------------- MODULE LogTeeProofs ----------------------------
(***************************************************************************)
(* Proofs about LogTee, for every number of lines and of crashes.          *)
(***************************************************************************)
EXTENDS LogTee, TLAPS

Uploading == {"check", "send", "put", "note"}

\* The thread has ended when the closer uploads.
Alone == pc["closer"] \in Uploading \cup {"closed"} => pc["flusher"] = "ended"

\* The two actors are at places of their own.
Places ==
    /\ pc["flusher"] \in Uploading \cup {"waiting", "ended"}
    /\ pc["closer"] \in Uploading \cup {"up", "joining", "closed"}

\* Nothing measured or read is more than the log, and an upload reads at least
\* what was measured.
Measures ==
    /\ due <= local
    /\ \A a \in Actor :
        /\ size[a] <= local /\ read[a] <= local
        /\ pc[a] = "put" => size[a] <= read[a]

\* On an empty disk nothing is uploaded yet; otherwise the log has what S3 has.
Disk ==
    /\ fresh => sent = NotSent /\ \A a \in Actor : pc[a] # "note"
    /\ ~fresh => remote <= local

\* What holds as long as close() waits for the thread.
InTurn ==
    ~late =>
        /\ Alone
        /\ sent <= remote
        /\ \A a \in Actor :
            /\ pc[a] = "put" /\ ~fresh => remote <= read[a]
            /\ pc[a] = "note" => size[a] <= remote
        /\ pc["closer"] \in {"send", "put", "note"} => due <= size["closer"]
        /\ pc["closer"] = "closed" /\ ~failed => due <= remote

Inv == TypeOK /\ Places /\ Measures /\ Disk /\ InTurn

-----------------------------------------------------------------------------

\* One step per action; the parts of the invariant are small enough to be
\* expanded together.
LEMMA NextInv == Inv /\ [Next]_vars => Inv'
<1> SUFFICES ASSUME Inv, [Next]_vars PROVE Inv'
  OBVIOUS
<1> USE LogTeeAssumption
    DEF Inv, TypeOK, Places, Measures, Disk, InTurn, Alone, Uploading, Lines, Actor,
        NotSent, NoObject, Goto, log
<1>1. CASE Write
  BY <1>1 DEF Write
<1>2. CASE Close
  BY <1>2 DEF Close
<1>3. CASE JoinEnds
  BY <1>3 DEF JoinEnds, Joined
<1>4. CASE JoinTimesOut
  BY <1>4 DEF JoinTimesOut
<1>5. CASE Wake
  BY <1>5 DEF Wake
<1>6. ASSUME NEW a \in Actor, Upload(a) PROVE Inv'
  <2>1. CASE CheckClean(a)
    BY <1>6, <2>1 DEF CheckClean, Dirty, After
  <2>2. CASE CheckDirty(a)
    BY <1>6, <2>2 DEF CheckDirty
  <2>3. CASE Read(a)
    BY <1>6, <2>3 DEF Read
  <2>4. CASE Land(a)
    <3>1. TypeOK' /\ Places' /\ Measures' /\ Disk'
      BY <1>6, <2>4 DEF Land
    <3>2. ASSUME ~late PROVE Alone' /\ sent' <= remote'
      BY <1>6, <2>4, <3>2 DEF Land
    <3>3. ASSUME ~late, NEW b \in Actor PROVE pc'[b] = "put" /\ ~fresh' => remote' <= read'[b]
      BY <1>6, <2>4, <3>3 DEF Land
    <3>4. ASSUME ~late, NEW b \in Actor PROVE pc'[b] = "note" => size'[b] <= remote'
      BY <1>6, <2>4, <3>4 DEF Land
    <3>5. ASSUME ~late
          PROVE  /\ pc'["closer"] \in {"send", "put", "note"} => due' <= size'["closer"]
                 /\ pc'["closer"] = "closed" /\ ~failed' => due' <= remote'
      BY <1>6, <2>4, <3>5 DEF Land
    <3> QED
      BY <2>4, <3>1, <3>2, <3>3, <3>4, <3>5 DEF Land
  <2>5. CASE Note(a)
    BY <1>6, <2>5 DEF Note, Measured, After
  <2>6. CASE Fails(a)
    BY <1>6, <2>6 DEF Fails, AfterFailure, After
  <2> QED
    BY <1>6, <2>1, <2>2, <2>3, <2>4, <2>5, <2>6 DEF Upload
<1>7. ASSUME NEW kept \in BOOLEAN, Crash(kept) PROVE Inv'
  <2>1. pc' \in [Actor -> {"waiting", "ended", "up", "joining", "closed",
                         "check", "send", "put", "note"}]
        /\ pc'["flusher"] = "waiting" /\ pc'["closer"] = "up"
    BY <1>7 DEF Crash
  <2>2. TypeOK'
    <3>1. size' \in [Actor -> Lines] /\ read' \in [Actor -> Lines]
      BY <1>7 DEF Crash
    <3>2. local' \in Lines /\ due' \in Lines /\ crashes' \in 0 .. MaxCrashes /\ -1 <= local'
      BY <1>7 DEF Crash
    <3> QED
      BY <1>7, <2>1, <3>1, <3>2 DEF Crash, SentAfterCrash
  <2>3. Places' /\ Measures'
    BY <1>7, <2>1, <2>2 DEF Crash
  <2>4. Disk'
    BY <1>7, <2>1, <2>2 DEF Crash, SentAfterCrash
  <2>5. InTurn'
    BY <1>7, <2>1, <2>2 DEF Crash, SentAfterCrash
  <2> QED
    BY <2>2, <2>3, <2>4, <2>5
<1>8. CASE UNCHANGED vars
  BY <1>8 DEF vars
<1> QED
  BY <1>1, <1>2, <1>3, <1>4, <1>5, <1>6, <1>7, <1>8 DEF Next

\* The invariant on which everything below rests.
THEOREM Invariance == Spec => []Inv
<1>1. Init => Inv
  <2> SUFFICES ASSUME Init PROVE Inv
    OBVIOUS
  <2>1. pc["flusher"] = "waiting" /\ pc["closer"] = "up"
    BY DEF Init, Actor
  <2>2. TypeOK
    <3>1. pc \in [Actor -> {"waiting", "ended", "up", "joining", "closed",
                          "check", "send", "put", "note"}]
      BY DEF Init
    <3>2. size \in [Actor -> Lines] /\ read \in [Actor -> Lines] /\ 0 \in Lines
      BY LogTeeAssumption DEF Init, Lines
    <3>3. local = 0 /\ sent = -1 /\ remote = -1 /\ due = 0 /\ sent <= local
      BY DEF Init, NotSent, NoObject
    <3>4. stop = FALSE /\ failed = FALSE /\ late = FALSE /\ fresh = FALSE /\ crashes = 0
      BY DEF Init
    <3>5. crashes \in 0 .. MaxCrashes
      BY <3>4, LogTeeAssumption
    <3> QED
      BY <3>1, <3>2, <3>3, <3>4, <3>5 DEF TypeOK, NotSent, NoObject
  <2>3. Places /\ Alone
    BY <2>1 DEF Places, Alone, Uploading
  <2>4. Measures /\ Disk
    BY <2>1 DEF Init, Measures, Disk, Actor, NoObject
  <2>5. InTurn
    BY <2>1, <2>3 DEF Init, InTurn, Actor, NotSent, NoObject
  <2> QED
    BY <2>2, <2>3, <2>4, <2>5 DEF Inv
<1> QED
  BY <1>1, NextInv, PTL DEF Spec

\* Every variable keeps its type, and the size noted is one the log has reached.
THEOREM TypeCorrect == Spec => []TypeOK
<1>1. Inv => TypeOK
  BY DEF Inv
<1> QED
  BY <1>1, Invariance, PTL

\* A log that is found clean is on S3.
THEOREM CleanIsPublished == Spec => []SentIsPublished
<1>1. Inv => SentIsPublished
  BY DEF Inv, InTurn, SentIsPublished
<1> QED
  BY <1>1, Invariance, PTL

\* close() leaves every line written before it on S3.
THEOREM CloseIsFinal == Spec => []CloseUploadsAll
<1>1. Inv => CloseUploadsAll
  BY DEF Inv, InTurn, CloseUploadsAll
<1> QED
  BY <1>1, Invariance, PTL

\* The object on S3 does not lose lines: only Land changes it.
THEOREM ObjectGrows == Spec => NeverBack
<1>1. Inv /\ [Next]_vars => [late \/ fresh \/ remote' >= remote]_vars
  <2> SUFFICES ASSUME Inv, Next PROVE late \/ fresh \/ remote' >= remote
    OBVIOUS
  <2>1. ASSUME NEW a \in Actor, Land(a) PROVE late \/ fresh \/ remote' >= remote
    BY <2>1 DEF Land, Inv, TypeOK, InTurn, Lines, NoObject
  <2>2. CASE UNCHANGED remote
    BY <2>2, LogTeeAssumption DEF Inv, TypeOK, Lines, NoObject
  <2>3. UNCHANGED remote \/ \E a \in Actor : Land(a)
    BY DEF Next, Write, Close, JoinEnds, JoinTimesOut, Wake, Upload, CheckClean, CheckDirty, Read, Note, Fails, Crash
  <2> QED
    BY <2>1, <2>2, <2>3
<1> QED
  BY <1>1, Invariance, PTL DEF Spec, NeverBack

=============================================================================
