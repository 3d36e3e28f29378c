----------------------------- MODULE TestResults -----------------------------
(***************************************************************************)
(* What the test stage of deploy/build.py promises about its results, with *)
(* the scheduling left out: within one run of the script every test ends   *)
(* at most once, each test is classified at most once, either by how its   *)
(* own execution in this run ended or by a passing record carried over     *)
(* from mdsplus-test.json, and the results file is only ever truncated or  *)
(* replaced as a whole by the classification of a run whose loop is over.  *)
(* TestScheduler is shown to implement this specification.                *)
(***************************************************************************)
EXTENDS Naturals

CONSTANTS
    Tests,           \* the tests of the ctest catalog
    MaxInvocations,  \* bound: number of times the script is run
    NoRecord,        \* model value: the test is not classified
    Missing,         \* model value: mdsplus-test.json does not exist
    Corrupt          \* model value: mdsplus-test.json does not parse

\* A classification: whether the test passed, and in which run.
Rec == [passed : BOOLEAN, inv : 1..MaxInvocations]

VARIABLES
    inv,      \* the current run of the script
    open,     \* this run may still classify tests
    results,  \* test -> Rec or NoRecord: this run's classification
    file,     \* the contents of mdsplus-test.json
    ran       \* set of <<run, test, ended well>> of every test execution

vars == <<inv, open, results, file, ran>>

Unclassified == [t \in Tests |-> NoRecord]

Init ==
    /\ inv = 1
    /\ open = TRUE
    /\ results = Unclassified
    /\ file \in {Missing, Corrupt}
    /\ ran = {}

Ended(t) == \E ok \in BOOLEAN : <<inv, t, ok>> \in ran

\* Executions of the tests in S end, all well or all badly; a test runs at
\* most once per run of the script.
End(S, ok) ==
    /\ \A t \in S : ~Ended(t)
    /\ ran' = ran \cup {<<inv, t, ok>> : t \in S}
    /\ UNCHANGED <<inv, open, results, file>>

\* A test that passed in the file is classified as passed without running.
Seed(t) ==
    /\ open
    /\ results[t] = NoRecord
    /\ file \notin {Missing, Corrupt}
    /\ file[t] # NoRecord /\ file[t].passed
    /\ results' = [results EXCEPT ![t] = file[t]]
    /\ UNCHANGED <<inv, open, file, ran>>

\* A test is classified by how its execution in this run ended.
Classify(t) ==
    /\ open
    /\ results[t] = NoRecord
    /\ \E ok \in BOOLEAN :
         /\ <<inv, t, ok>> \in ran
         /\ results' = [results EXCEPT ![t] = [passed |-> ok, inv |-> inv]]
    /\ UNCHANGED <<inv, open, file, ran>>

\* The run stops classifying: its loop is over, or the script died.
Close ==
    /\ open
    /\ open' = FALSE
    /\ UNCHANGED <<inv, results, file, ran>>

Truncate ==
    /\ ~open
    /\ file' = Corrupt
    /\ UNCHANGED <<inv, open, results, ran>>

\* The truncated file is replaced by the whole classification.
Persist ==
    /\ ~open
    /\ file = Corrupt
    /\ file' = results
    /\ UNCHANGED <<inv, open, results, ran>>

\* The script is run again; only the file and the executions remain.
Restart ==
    /\ ~open
    /\ inv < MaxInvocations
    /\ inv' = inv + 1
    /\ open' = TRUE
    /\ results' = Unclassified
    /\ UNCHANGED <<file, ran>>

Next ==
    \/ \E S \in SUBSET Tests, ok \in BOOLEAN : End(S, ok)
    \/ \E t \in Tests : Seed(t) \/ Classify(t)
    \/ Close \/ Truncate \/ Persist \/ Restart

\* A run of the script does not classify for ever: its loop ends, or the
\* script dies, so every run closes.
Spec == Init /\ [][Next]_vars /\ WF_vars(Close)

TypeOK ==
    /\ inv \in 1..MaxInvocations
    /\ open \in BOOLEAN
    /\ results \in [Tests -> Rec \cup {NoRecord}]
    /\ file \in {Missing, Corrupt} \cup [Tests -> Rec \cup {NoRecord}]
    /\ ran \subseteq (1..MaxInvocations) \X Tests \X BOOLEAN
=============================================================================
