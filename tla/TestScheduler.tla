---------------------------- MODULE TestScheduler ----------------------------
(***************************************************************************)
(* The test stage of deploy/build.py: do_test().  One coordinating thread  *)
(* enumerates the ctest catalog, optionally pre-passes the tests that      *)
(* passed in the persisted mdsplus-test.json (--rerun-failed), then polls  *)
(* running child processes and starts queued ones until both lists are     *)
(* empty, and finally overwrites mdsplus-test.json.  The SIGINT handler    *)
(* stop_testing runs in the same thread between any two bytecodes, so it   *)
(* is an action that may interleave with every step of the coordinator.   *)
(* Several invocations of the script are modelled in a row, so that the   *)
(* persisted file links one run to the next.                              *)
(***************************************************************************)
EXTENDS Integers, Sequences, SequencesExt, FiniteSets

CONSTANTS
    Catalog,         \* the ctest listing, in order: a sequence of distinct tests
    P,               \* int(args.parallel)
    Filters,         \* for each possible --test-regex, the set of names it matches
    MaxInvocations,  \* bound: number of times the script is run
    MaxSigints,      \* bound: number of SIGINTs the user sends in total
    NoRecord,        \* model value: the name is not a key of the dict
    NoTest,          \* model value: the local variable `test` holds nothing
    Missing,         \* model value: mdsplus-test.json does not exist
    Corrupt          \* model value: mdsplus-test.json does not parse as JSON

Tests == Range(Catalog)

ASSUME /\ IsInjective(Catalog)
       /\ P \in Nat
       /\ Filters \subseteq SUBSET Tests /\ Filters # {}
       /\ MaxInvocations \in Nat \ {0}
       /\ MaxSigints \in Nat

\* A RunRecord: the fields of test_record that the properties tell apart.
\* `inv` is the invocation whose poll produced it; it stands for the
\* log path and the duration, which differ between invocations.
Rec == [passed : BOOLEAN, inv : 1..MaxInvocations]

\* Where the coordinator is in do_test().
Terminal == {"finished", "crashed", "aborted"}

\* Process states: "idle" (not started this invocation), "live", or an
\* exit status seen by Popen.poll(): zero, nonzero, or -9 after kill().
Exited == {"exit0", "exitF", "killed"}

VARIABLES
    inv,            \* which invocation of the script is running
    rerun_failed,   \* args.rerun_failed of this invocation
    test_regex,     \* names matched by args.test_regex of this invocation
    output_junit,   \* args.output_junit of this invocation
    pc,             \* the coordinator's position in do_test()
    test_queue,     \* list of tests still to start
    running_tests,  \* list of started, not yet reaped tests
    it,             \* index of the Python list iterator of the current for loop
    queue_copy,     \* test_queue.copy() iterated by the rerun filter
    old_tests,      \* the dict loaded from mdsplus-test.json, or NoRecord
    test,           \* the test popped by the dequeue loop
    proc,           \* the OS state of each test's child process
    log_open,       \* tests whose log file is open
    logs,           \* test -> the run that last opened <name>.log, 0 if none
    passed_tests,   \* dict name -> RunRecord (or NoRecord)
    failed_tests,   \* dict name -> RunRecord (or NoRecord)
    handler,        \* the SIGINT disposition: "default" or "stop_testing"
    sigints,        \* SIGINTs sent so far, all invocations
    persisted,      \* contents of mdsplus-test.json on disk
    junit,          \* mdsplus-junit.xml: NoRecord, or test -> its testcase
    \* history variables, not state of the program:
    sig_inv,        \* SIGINTs delivered during this invocation
    cancelled,      \* stop_testing has run during this invocation
    skipped,        \* tests skipped for not matching --test-regex
    killed,         \* tests whose process stop_testing killed
    executed        \* set of <<invocation, test, exit was zero>> of every process

args_vars   == <<inv, rerun_failed, test_regex, output_junit>>
filter_vars == <<queue_copy, old_tests>>
job_vars    == <<proc, log_open, logs>>
result_vars == <<passed_tests, failed_tests>>
signal_vars == <<handler, sigints, sig_inv, cancelled, killed>>
vars == <<args_vars, pc, test_queue, running_tests, it, test, filter_vars,
          job_vars, result_vars, signal_vars, persisted, junit, skipped,
          executed>>

NoResults == [t \in Tests |-> NoRecord]

\* The locals of one fresh run of the script, up to do_test().
InvocationInit ==
    /\ rerun_failed \in BOOLEAN
    /\ test_regex \in Filters
    /\ output_junit \in BOOLEAN
    /\ pc = "list"
    /\ test_queue = <<>>
    /\ running_tests = <<>>
    /\ it = 1
    /\ queue_copy = <<>>
    /\ old_tests = NoRecord
    /\ test = NoTest
    /\ proc = [t \in Tests |-> "idle"]
    /\ log_open = {}
    /\ passed_tests = NoResults
    /\ failed_tests = NoResults
    /\ handler = "default"
    /\ sig_inv = 0
    /\ cancelled = FALSE
    /\ skipped = {}
    /\ killed = {}

\* Before the first run the results file is absent, or left unparsable by
\* an earlier run interrupted while writing it.
Init ==
    /\ inv = 1
    /\ InvocationInit
    /\ sigints = 0
    /\ persisted \in {Missing, Corrupt}
    /\ logs = [t \in Tests |-> 0]
    /\ junit = NoRecord
    /\ executed = {}

-----------------------------------------------------------------------------
(* The coordinator.                                                        *)

\* Lines 794-831: `ctest -N --show-only=json-v1`; a nonzero exit ends the
\* script; otherwise the queue is built and stop_testing installed.
Enumerate ==
    /\ pc = "list"
    /\ \/ /\ pc' = "aborted"
          /\ UNCHANGED <<test_queue, handler>>
       \/ /\ test_queue' = Catalog
          /\ handler' = "stop_testing"
          /\ pc' = "rerun"
    /\ UNCHANGED <<args_vars, running_tests, it, test, filter_vars, job_vars,
                   result_vars, sigints, sig_inv, cancelled, killed,
                   persisted, junit, skipped, executed>>

\* Lines 833-848 when no test is pre-passed: no --rerun-failed, or the
\* file is missing or unparsable (the bare except prints and carries on).
RerunSkip ==
    /\ pc = "rerun"
    /\ ~rerun_failed \/ persisted \in {Missing, Corrupt}
    /\ pc' = "loop"
    /\ UNCHANGED <<args_vars, test_queue, running_tests, it, test,
                   filter_vars, job_vars, result_vars, signal_vars,
                   persisted, junit, skipped, executed>>

\* Lines 838-841: load old_tests and iterate over test_queue.copy().
RerunLoad ==
    /\ pc = "rerun"
    /\ rerun_failed
    /\ persisted \notin {Missing, Corrupt}
    /\ old_tests' = persisted
    /\ queue_copy' = test_queue
    /\ it' = 1
    /\ pc' = "rerun_filter"
    /\ UNCHANGED <<args_vars, test_queue, running_tests, test, job_vars,
                   result_vars, signal_vars, persisted, junit, skipped, executed>>

\* Lines 842-846 for one element of the copy: a test that passed last time
\* is removed from the queue and its old record seeded into passed_tests.
\* Mutation: any old record, passed or failed, spares the test.
PrevRecorded(t) == old_tests[t] # NoRecord

PrevPassed(t) == old_tests[t] # NoRecord /\ old_tests[t].passed

\* Mutation: the old record is seeded but the test stays queued.
RerunFilterStepKeepQueued ==
    /\ pc = "rerun_filter"
    /\ it <= Len(queue_copy)
    /\ LET t == queue_copy[it] IN
         \/ /\ ~PrevPassed(t)
            /\ UNCHANGED <<test_queue, passed_tests>>
         \/ /\ PrevPassed(t)
            /\ t \in Range(test_queue)
            /\ passed_tests' = [passed_tests EXCEPT ![t] = old_tests[t]]
            /\ UNCHANGED test_queue
    /\ it' = it + 1
    /\ UNCHANGED <<args_vars, pc, running_tests, test, filter_vars, job_vars,
                   failed_tests, signal_vars, persisted, junit, skipped, executed>>

\* Mutation: the test leaves the queue but its old record is not seeded.
RerunFilterStepNoSeed ==
    /\ pc = "rerun_filter"
    /\ it <= Len(queue_copy)
    /\ LET t == queue_copy[it] IN
         \/ /\ ~PrevPassed(t)
            /\ UNCHANGED test_queue
         \/ /\ PrevPassed(t)
            /\ t \in Range(test_queue)
            /\ test_queue' = RemoveFirst(test_queue, t)
    /\ it' = it + 1
    /\ UNCHANGED <<args_vars, pc, running_tests, test, filter_vars, job_vars,
                   result_vars, signal_vars, persisted, junit, skipped, executed>>

RerunFilterStep ==
    /\ pc = "rerun_filter"
    /\ it <= Len(queue_copy)
    /\ LET t == queue_copy[it] IN
         \/ /\ ~PrevPassed(t)
            /\ UNCHANGED <<test_queue, passed_tests>>
         \/ /\ PrevPassed(t)
            /\ t \in Range(test_queue)
            /\ test_queue' = RemoveFirst(test_queue, t)
            /\ passed_tests' = [passed_tests EXCEPT ![t] = old_tests[t]]
    /\ it' = it + 1
    /\ UNCHANGED <<args_vars, pc, running_tests, test, filter_vars, job_vars,
                   failed_tests, signal_vars, persisted, junit, skipped, executed>>

\* Line 845: list.remove raises ValueError when stop_testing has cleared
\* the queue meanwhile; the bare except at 847 ends the filter.
RerunFilterRaise ==
    /\ pc = "rerun_filter"
    /\ it <= Len(queue_copy)
    /\ PrevPassed(queue_copy[it])
    /\ queue_copy[it] \notin Range(test_queue)
    /\ pc' = "loop"
    /\ UNCHANGED <<args_vars, test_queue, running_tests, it, test,
                   filter_vars, job_vars, result_vars, signal_vars,
                   persisted, junit, skipped, executed>>

RerunFilterDone ==
    /\ pc = "rerun_filter"
    /\ it > Len(queue_copy)
    /\ pc' = "loop"
    /\ UNCHANGED <<args_vars, test_queue, running_tests, it, test,
                   filter_vars, job_vars, result_vars, signal_vars,
                   persisted, junit, skipped, executed>>

\* Line 856: the outer while loop.
\* Mutation: the poll loop's index is not reset for the next pass.
LoopEnterStaleIndex ==
    /\ pc = "loop"
    /\ test_queue # <<>> \/ running_tests # <<>>
    /\ pc' = "poll"
    /\ UNCHANGED <<args_vars, test_queue, running_tests, it, test,
                   filter_vars, job_vars, result_vars, signal_vars,
                   persisted, junit, skipped, executed>>

LoopEnter ==
    /\ pc = "loop"
    /\ test_queue # <<>> \/ running_tests # <<>>
    /\ it' = 1
    /\ pc' = "poll"
    /\ UNCHANGED <<args_vars, test_queue, running_tests, test, filter_vars,
                   job_vars, result_vars, signal_vars, persisted, junit, skipped,
                   executed>>

LoopExit ==
    /\ pc = "loop"
    /\ test_queue = <<>>
    /\ running_tests = <<>>
    /\ pc' = "restore"
    /\ UNCHANGED <<args_vars, test_queue, running_tests, it, test,
                   filter_vars, job_vars, result_vars, signal_vars,
                   persisted, junit, skipped, executed>>

\* Lines 859-887, one iteration of `for test in running_tests`: poll() of
\* a live process returns None and the loop moves on.
PollLive ==
    /\ pc = "poll"
    /\ it <= Len(running_tests)
    /\ proc[running_tests[it]] = "live"
    /\ it' = it + 1
    /\ UNCHANGED <<args_vars, pc, test_queue, running_tests, test,
                   filter_vars, job_vars, result_vars, signal_vars,
                   persisted, junit, skipped, executed>>

\* An exited process is removed from the list being iterated, its log
\* closed and its record filed by exit status.  The list iterator still
\* advances its index, so the test that moved into slot `it` is not
\* polled in this pass.
\* Mutation: only a plain nonzero status counts as failure, so the
\* negative status of a killed process is filed as a pass.
PollReapKillAsPass ==
    /\ pc = "poll"
    /\ it <= Len(running_tests)
    /\ LET t      == running_tests[it]
           record == [passed |-> proc[t] # "exitF", inv |-> inv]
       IN /\ proc[t] \in Exited
          /\ running_tests' = RemoveAt(running_tests, it)
          /\ log_open' = log_open \ {t}
          /\ IF record.passed
               THEN /\ passed_tests' = [passed_tests EXCEPT ![t] = record]
                    /\ UNCHANGED failed_tests
               ELSE /\ failed_tests' = [failed_tests EXCEPT ![t] = record]
                    /\ UNCHANGED passed_tests
    /\ it' = it + 1
    /\ UNCHANGED <<args_vars, pc, test_queue, test, filter_vars, proc, logs,
                   signal_vars, persisted, junit, skipped, executed>>

PollReap ==
    /\ pc = "poll"
    /\ it <= Len(running_tests)
    /\ LET t      == running_tests[it]
           record == [passed |-> proc[t] = "exit0", inv |-> inv]
       IN /\ proc[t] \in Exited
          /\ running_tests' = RemoveAt(running_tests, it)
          /\ log_open' = log_open \ {t}
          /\ IF record.passed
               THEN /\ passed_tests' = [passed_tests EXCEPT ![t] = record]
                    /\ UNCHANGED failed_tests
               ELSE /\ failed_tests' = [failed_tests EXCEPT ![t] = record]
                    /\ UNCHANGED passed_tests
    /\ it' = it + 1
    /\ UNCHANGED <<args_vars, pc, test_queue, test, filter_vars, proc, logs,
                   signal_vars, persisted, junit, skipped, executed>>

PollDone ==
    /\ pc = "poll"
    /\ it > Len(running_tests)
    /\ pc' = "dequeue"
    /\ UNCHANGED <<args_vars, test_queue, running_tests, it, test,
                   filter_vars, job_vars, result_vars, signal_vars,
                   persisted, junit, skipped, executed>>

\* Line 890: the condition of the inner while loop.  It is evaluated
\* before test_queue.pop(0) and stop_testing may run in between.
\* Mutation: `<=` for `<`.
HasCapacityOffByOne == Len(running_tests) <= P

HasCapacity == Len(running_tests) < P

DequeueEnter ==
    /\ pc = "dequeue"
    /\ test_queue # <<>>
    /\ HasCapacity
    /\ pc' = "pop"
    /\ UNCHANGED <<args_vars, test_queue, running_tests, it, test,
                   filter_vars, job_vars, result_vars, signal_vars,
                   persisted, junit, skipped, executed>>

DequeueExit ==
    /\ pc = "dequeue"
    /\ test_queue = <<>> \/ ~HasCapacity
    /\ pc' = "loop"
    /\ UNCHANGED <<args_vars, test_queue, running_tests, it, test,
                   filter_vars, job_vars, result_vars, signal_vars,
                   persisted, junit, skipped, executed>>

\* Lines 891-896: pop the head; a name the regex does not match is skipped
\* (`continue`), any other goes on to be started.
Pop ==
    /\ pc = "pop"
    /\ test_queue # <<>>
    /\ test' = Head(test_queue)
    /\ test_queue' = Tail(test_queue)
    /\ IF Head(test_queue) \in test_regex
         THEN /\ pc' = "launch"
              /\ UNCHANGED skipped
         ELSE /\ pc' = "dequeue"
              /\ skipped' = skipped \cup {Head(test_queue)}
    /\ UNCHANGED <<args_vars, running_tests, it, filter_vars, job_vars,
                   result_vars, signal_vars, persisted, junit, executed>>

\* Line 891: pop(0) of the list stop_testing emptied after the check at
\* line 890 raises IndexError, which nothing catches: the script dies.
PopRaise ==
    /\ pc = "pop"
    /\ test_queue = <<>>
    /\ pc' = "crashed"
    /\ UNCHANGED <<args_vars, test_queue, running_tests, it, test,
                   filter_vars, job_vars, result_vars, signal_vars,
                   persisted, junit, skipped, executed>>

\* Lines 898-911: open the log and start `ctest -I i,i -V`.
Launch ==
    /\ pc = "launch"
    /\ log_open' = log_open \cup {test}
    /\ logs' = [logs EXCEPT ![test] = inv]
    /\ proc' = [proc EXCEPT ![test] = "live"]
    /\ pc' = "append"
    /\ UNCHANGED <<args_vars, test_queue, running_tests, it, test,
                   filter_vars, result_vars, signal_vars, persisted, junit, skipped,
                   executed>>

\* Lines 913-920: only now is the started test in running_tests, where
\* stop_testing can see it.
\* Mutation: the started process is never added to running_tests.
AppendRunningLost ==
    /\ pc = "append"
    /\ test' = NoTest
    /\ pc' = "dequeue"
    /\ UNCHANGED <<args_vars, test_queue, running_tests, it, filter_vars,
                   job_vars, result_vars, signal_vars, persisted, junit, skipped,
                   executed>>

\* Mutation: `test` is cleared before it is appended.
AppendRunningAfterReset ==
    /\ pc = "append"
    /\ test' = NoTest
    /\ running_tests' = Append(running_tests, test')
    /\ pc' = "dequeue"
    /\ UNCHANGED <<args_vars, test_queue, it, filter_vars, job_vars,
                   result_vars, signal_vars, persisted, junit, skipped, executed>>

AppendRunning ==
    /\ pc = "append"
    /\ running_tests' = Append(running_tests, test)
    /\ test' = NoTest
    /\ pc' = "dequeue"
    /\ UNCHANGED <<args_vars, test_queue, it, filter_vars, job_vars,
                   result_vars, signal_vars, persisted, junit, skipped, executed>>

\* Line 922: the default SIGINT disposition is restored.
Restore ==
    /\ pc = "restore"
    /\ handler' = "default"
    /\ pc' = "report"
    /\ UNCHANGED <<args_vars, test_queue, running_tests, it, test,
                   filter_vars, job_vars, result_vars, sigints, sig_inv,
                   cancelled, killed, persisted, junit, skipped, executed>>

\* Lines 924-941: the summary is printed, then open(..., 'wt') truncates
\* the results file before anything is written to it.
Truncate ==
    /\ pc = "report"
    /\ persisted' = Corrupt
    /\ pc' = "write"
    /\ UNCHANGED <<args_vars, test_queue, running_tests, it, test,
                   filter_vars, job_vars, result_vars, signal_vars, junit,
                   skipped, executed>>

\* Lines 939-942: dict(passed_tests, **failed_tests) is written; a name in
\* both would keep its failed record.
AllTests == [t \in Tests |-> IF failed_tests[t] # NoRecord
                               THEN failed_tests[t] ELSE passed_tests[t]]

\* After the write, lines 944-953 only print; --output-junit goes on to
\* the jUnit report.
Write ==
    /\ pc = "write"
    /\ persisted' = AllTests
    /\ pc' = IF output_junit THEN "junit" ELSE "finished"
    /\ UNCHANGED <<args_vars, test_queue, running_tests, it, test,
                   filter_vars, job_vars, result_vars, signal_vars, junit,
                   skipped, executed>>

\* Lines 955-981: a testcase per entry of all_tests, whose system-out is
\* read from the file its record names, testing_dir/<name>.log: what the
\* run that last opened that file wrote there.
JUnit ==
    /\ pc = "junit"
    /\ junit' = [t \in Tests |->
                    IF AllTests[t] = NoRecord THEN NoRecord
                    ELSE [run |-> AllTests[t].inv, log |-> logs[t]]]
    /\ pc' = "finished"
    /\ UNCHANGED <<args_vars, test_queue, running_tests, it, test,
                   filter_vars, job_vars, result_vars, signal_vars, persisted,
                   skipped, executed>>

Coordinator ==
    \/ Enumerate \/ RerunSkip \/ RerunLoad \/ RerunFilterStep
    \/ RerunFilterRaise \/ RerunFilterDone \/ LoopEnter \/ LoopExit
    \/ PollLive \/ PollReap \/ PollDone \/ DequeueEnter \/ DequeueExit
    \/ Pop \/ PopRaise \/ Launch \/ AppendRunning \/ Restore \/ Truncate
    \/ Write \/ JUnit

-----------------------------------------------------------------------------
(* The environment: child processes, the user's SIGINT, re-running.        *)

\* A started ctest process exits with status zero or nonzero.
ProcExit(t) ==
    /\ proc[t] = "live"
    /\ \E ok \in BOOLEAN :
         /\ proc' = [proc EXCEPT ![t] = IF ok THEN "exit0" ELSE "exitF"]
         /\ executed' = executed \cup {<<inv, t, ok>>}
    /\ UNCHANGED <<args_vars, pc, test_queue, running_tests, it, test,
                   filter_vars, log_open, logs, result_vars, signal_vars,
                   persisted, junit, skipped>>

SigintAllowed ==
    /\ sigints < MaxSigints
    /\ pc \notin Terminal

\* SIGINT under the default disposition: KeyboardInterrupt ends the script.
DefaultSigint ==
    /\ SigintAllowed
    /\ handler = "default"
    /\ pc' = "crashed"
    /\ sigints' = sigints + 1
    /\ sig_inv' = sig_inv + 1
    /\ UNCHANGED <<args_vars, test_queue, running_tests, it, test,
                   filter_vars, job_vars, result_vars, handler, cancelled,
                   killed, persisted, junit, skipped, executed>>

\* Lines 822-829, stop_testing: clear the queue, kill every process in
\* running_tests.  kill() of a process that already exited does nothing.
StopTesting ==
    /\ SigintAllowed
    /\ handler = "stop_testing"
    /\ LET victims == {t \in Range(running_tests) : proc[t] = "live"} IN
         /\ proc' = [t \in Tests |-> IF t \in victims THEN "killed" ELSE proc[t]]
         /\ killed' = killed \cup victims
         /\ executed' = executed \cup {<<inv, t, FALSE>> : t \in victims}
    /\ test_queue' = <<>>
    /\ cancelled' = TRUE
    /\ sigints' = sigints + 1
    /\ sig_inv' = sig_inv + 1
    /\ UNCHANGED <<args_vars, pc, running_tests, it, test, filter_vars,
                   log_open, logs, result_vars, handler, persisted, junit,
                   skipped>>

\* The developer runs the script again, with any --rerun-failed and
\* --test-regex; only mdsplus-test.json carries over.
NextInvocation ==
    /\ pc \in Terminal
    /\ inv < MaxInvocations
    /\ inv' = inv + 1
    /\ rerun_failed' \in BOOLEAN
    /\ test_regex' \in Filters
    /\ output_junit' \in BOOLEAN
    /\ pc' = "list"
    /\ test_queue' = <<>>
    /\ running_tests' = <<>>
    /\ it' = 1
    /\ queue_copy' = <<>>
    /\ old_tests' = NoRecord
    /\ test' = NoTest
    /\ proc' = [t \in Tests |-> "idle"]
    /\ log_open' = {}
    /\ passed_tests' = NoResults
    /\ failed_tests' = NoResults
    /\ handler' = "default"
    /\ sig_inv' = 0
    /\ cancelled' = FALSE
    /\ skipped' = {}
    /\ killed' = {}
    /\ UNCHANGED <<sigints, persisted, logs, junit, executed>>

\* After the last run nothing happens any more.
Finished ==
    /\ pc \in Terminal
    /\ inv = MaxInvocations
    /\ UNCHANGED vars

Next ==
    \/ Coordinator
    \/ \E t \in Tests : ProcExit(t)
    \/ DefaultSigint
    \/ StopTesting
    \/ NextInvocation
    \/ Finished

\* The coordinator busy-polls and never blocks, so it keeps taking steps;
\* every ctest process ends, if only by ctest's per-test timeout.  The
\* user is not obliged to interrupt or to run the script again.
Fairness ==
    /\ WF_vars(Coordinator)
    /\ \A t \in Tests : WF_vars(ProcExit(t))

Spec == Init /\ [][Next]_vars /\ Fairness

-----------------------------------------------------------------------------
(* Properties.                                                             *)

TypeOK ==
    /\ inv \in 1..MaxInvocations
    /\ rerun_failed \in BOOLEAN
    /\ test_regex \in Filters
    /\ pc \in Terminal \cup {"list", "rerun", "rerun_filter", "loop", "poll",
                             "dequeue", "pop", "launch", "append", "restore",
                             "report", "write", "junit"}
    /\ test_queue \in Seq(Tests) /\ running_tests \in Seq(Tests)
    /\ queue_copy \in Seq(Tests)
    /\ old_tests \in {NoRecord} \cup [Tests -> Rec \cup {NoRecord}]
    /\ test \in Tests \cup {NoTest}
    /\ proc \in [Tests -> {"idle", "live"} \cup Exited]
    /\ log_open \subseteq Tests
    /\ logs \in [Tests -> 0..MaxInvocations]
    /\ junit \in {NoRecord} \cup
                 [Tests -> {NoRecord} \cup [run : 1..MaxInvocations, log : 0..MaxInvocations]]
    /\ passed_tests \in [Tests -> Rec \cup {NoRecord}]
    /\ failed_tests \in [Tests -> Rec \cup {NoRecord}]
    /\ handler \in {"default", "stop_testing"}
    /\ persisted \in {Missing, Corrupt} \cup [Tests -> Rec \cup {NoRecord}]
    /\ executed \subseteq (1..MaxInvocations) \X Tests \X BOOLEAN

\* Started and not yet reaped: the running list, plus a test between
\* Popen (line 906) and running_tests.append (line 913).
Jobs == Range(running_tests) \cup (IF pc = "append" THEN {test} ELSE {})

\* Spec 8: the number of started, unreaped ctest processes never exceeds
\* -j, across the pop/launch/append window of the dequeue loop.
BoundedConcurrency == Cardinality(Jobs) <= P

Recorded(t) == passed_tests[t] # NoRecord \/ failed_tests[t] # NoRecord

\* Spec 8: no test is both passed and failed, and a test skipped by
\* --test-regex is in neither dict, whatever the rerun filter seeded.
ResultsDisjoint ==
    \A t \in Tests :
        /\ ~(passed_tests[t] # NoRecord /\ failed_tests[t] # NoRecord)
        /\ t \in skipped => ~Recorded(t)

\* Spec 8: when the poll loop ends without an interrupt, every test of
\* the catalog is either recorded or skipped.
RunAccountsForCatalog ==
    (pc = "restore" /\ ~cancelled) =>
        \A t \in Tests : Recorded(t) \/ t \in skipped

PrePassed ==
    IF old_tests = NoRecord THEN {}
    ELSE {t \in Tests : old_tests[t] # NoRecord /\ old_tests[t].passed}

RanThisInvocation(t) == \E ok \in BOOLEAN : <<inv, t, ok>> \in executed

\* Spec 4.5: with --rerun-failed, a test is spared only if the loaded file
\* says it passed; every other test that matches the regex is run.
RerunCompleteness ==
    (pc = "restore" /\ ~cancelled) =>
        \A t \in test_regex \ PrePassed : RanThisInvocation(t)

\* Spec 5: once the poll loop is over, no ctest process is left running
\* and every log file is closed, interrupt or not.
QuiescentAtExit ==
    pc \in {"restore", "report", "write", "junit", "finished"} =>
        /\ \A t \in Tests : proc[t] # "live"
        /\ log_open = {}

\* Every run of the script ends: the loop terminates once the processes do.
Termination == (pc \notin Terminal) ~> (pc \in Terminal)

\* Spec 4.4 and 7, the cancellation contract of stop_testing: the jobs it
\* terminates are not recorded (they would be filed as failures by the
\* poll loop); once it has run no further test is started (it may
\* interrupt the dequeue loop between the pop and the Popen); and one
\* interrupt that reaches it is a graceful drain that ends with the
\* partial results written (it may empty the queue between the test at
\* line 890 and the pop at 891).
KilledNotRecorded == \A t \in killed : ~Recorded(t)

NoStart == \A t \in Tests : ~(proc[t] = "idle" /\ proc'[t] = "live")

CancelledRunPersists ==
    (pc \in Terminal /\ cancelled /\ sig_inv = 1) => pc = "finished"

CancellationHonoured ==
    /\ [](KilledNotRecorded /\ CancelledRunPersists)
    /\ [][cancelled => NoStart]_vars

\* The jUnit report shows, for every testcase, the log of the execution its
\* result comes from.  A record --rerun-failed carries over from an
\* earlier run names <name>.log (line 972), which every later launch of
\* the test truncates and rewrites (line 900), also in a run that died
\* before writing mdsplus-test.json.
JUnitReportsOwnLog ==
    junit # NoRecord =>
        \A t \in Tests : junit[t] # NoRecord => junit[t].log = junit[t].run

-----------------------------------------------------------------------------
(* Refinement: the scheduler implements the abstract TestResults.  A run   *)
(* may classify tests until the coordinator leaves the poll loop or dies;  *)
(* its classification is the dict that line 939 would write.               *)

OpenPcs == {"list", "rerun", "rerun_filter", "loop", "poll", "dequeue", "pop",
            "launch", "append"}

Abstract == INSTANCE TestResults
              WITH open <- pc \in OpenPcs, results <- AllTests,
                   file <- persisted, ran <- executed

\* Across runs, each test's execution ends at most once per run, each test
\* is classified at most once, by its own ending in this run or by a passed
\* record loaded from mdsplus-test.json, nothing is classified once the loop
\* is over, and the file is only truncated or overwritten whole with the
\* classification of a finished loop (stop_testing, the poll loop, the
\* --rerun-failed filter and the final write of do_test together).
ImplementsTestResults == Abstract!Spec
=============================================================================
