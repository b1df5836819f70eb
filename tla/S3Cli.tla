------------------------------- MODULE S3Cli -------------------------------
(***************************************************************************)
(* The tools behind every S3 access of src/src/s3cli.py: s5cmd, then the   *)
(* aws command line, then boto3.  One access is one choice of what each    *)
(* tool answers; the operators say what the layer makes of the answers.    *)
(***************************************************************************)
EXTENDS Integers, Sequences, FiniteSets, FiniteSetsExt

Tools == <<"s5cmd", "aws">>

\* Not installed; OSError; exit code 0; the object is not found; another failure,
\* whose output has one of the _NOT_FOUND_MARKERS in it (a "404" in a time or in
\* the key itself, a local "no such file or directory"); any other failure.
Answer == {"missing", "unstarted", "done", "absent", "alike", "error"}

\* _looks_not_found: it goes by the words of the output.
LooksNotFound == {"absent", "alike"}

\* Bug: any failure counts as not found.
RunCliAllAbsent(a) == IF \E i \in DOMAIN a : a[i] = "done" THEN "done" ELSE "absent"

\* run_cli_candidates: the first tool that succeeds or whose output looks like
\* "not found" decides, the ones after it are not asked.
RunCli(a) ==
    LET Final == {i \in DOMAIN a : a[i] \in {"done"} \cup LooksNotFound}
    IN  IF Final # {} THEN IF a[Min(Final)] = "done" THEN "done" ELSE "absent"
        ELSE IF \A i \in DOMAIN a : a[i] = "missing" THEN "none"
        ELSE "failed"

\* What the tools may answer about something that is there or not.  A blind
\* tool (another endpoint, other credentials) does not see it.
Answers(there, blind) ==
    {a \in [DOMAIN Tools -> Answer] : \A i \in DOMAIN Tools :
        /\ a[i] = "done" => there /\ Tools[i] \notin blind
        /\ a[i] = "absent" => ~there \/ Tools[i] \in blind}

\* The tool whose answer decides does not see the object, or failed for another
\* reason and was misread.
Misled(a, blind) ==
    \E i \in DOMAIN a :
        /\ a[i] = "alike" \/ (a[i] = "absent" /\ Tools[i] \in blind)
        /\ \A j \in 1 .. i - 1 : a[j] \notin {"done"} \cup LooksNotFound

\* What an access can come to, and whether it was misled.
CliResults(there, blind) == {<<RunCli(a), Misled(a, blind)>> : a \in Answers(there, blind)}

\* boto3 fails, or tells the truth.
BotoAnswers(there) == {"error", IF there THEN "done" ELSE "absent"}

NoSize == 0

\* head_object: ls_prefix_exact when there is a tool, the first object listed;
\* boto3 when no tool works.  A tool's listing is by prefix: without the object
\* it may show another key that begins with this one, of size near.
Heads(size, near, blind) ==
    LET there == size # NoSize
        Listed == {RunCli(a) : a \in Answers(there \/ near # NoSize, blind)}
    IN  (IF "done" \in Listed THEN {IF there THEN size ELSE near} ELSE {})
        \cup (IF "absent" \in Listed \/ ("done" \in Listed /\ ~there) THEN {NoSize} ELSE {})
        \cup (IF {"failed", "none"} \cap Listed # {} THEN {size, NoSize} ELSE {})

=============================================================================
