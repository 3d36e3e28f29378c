# TLA+ models of the MDSplus build/test driver (`deploy/build.py`)

This directory holds TLA+ models of `src/deploy/build.py`, the script that
configures, builds, tests, installs and packages MDSplus, either directly or
inside a Docker container, of the three `src/deploy/gen-*.py` generators that
turn `tdishr/opcodes.csv` into C, and of `src/tdi/dev_support/PyDoMethod.py`.
It also holds the TLC configurations that check
those models. Every action is translated from the Python source. `PROJECT.json`
maps each definition to the lines it models.

## 1. Inventory of the system

`build.py` runs once per invocation, as a straight pipeline:

```
argv + .opts  ->  defaults/platform  ->  reconcile CMake args with CMakeCache.txt
   -> main: docker? -> do_docker (re-runs build.py in a container)
            interactive? -> do_interactive
            else setup_vscode? configure? build? test? install? package?
```

The parts, and what a model checker can say about them:

| Component | Source | State | Concurrency / hard behaviour |
|---|---|---|---|
| Configuration cache | `parse_cmake_cache` 373-392 | `CMakeCache.txt` on disk, `cmake_cache` dict | The cache survives across invocations, and a failed CMake run may have written it. |
| Argument reconciler | 394-452, `check_add_cmake_arg` 400-412 | `cmake_args`, `args.configure` | Each argument is filtered against the cache on its own. CMake applies the last setting of a name. Typed `-DN:T=V` arguments. Flags. |
| Configure stage | `do_configure` 710-743 | adds `-GNinja`, runs cmake, re-reads the cache | A failure exits with status 1. |
| Test catalog | `do_test` 794-812 | the ordered test queue | A failed `ctest -N` aborts the run. |
| Test scheduler | `do_test` 814-922 | `test_queue`, `running_tests`, `passed_tests`, `failed_tests`, child processes | A busy poll loop runs up to `-j` children. An asynchronous SIGINT handler (`stop_testing`) mutates the same lists at any bytecode boundary. The loop removes from a list while iterating over it. |
| Result store | 833-848, 939-942 | `mdsplus-test.json` | `--rerun-failed` seeds passes from the previous file. The file is truncated and then written, after the SIGINT handler has been reset. |
| Reporter | 924-981 | console summary, `mdsplus-junit.xml` | The jUnit XML reads back every record's `log` file. A record carried over by `--rerun-failed` names a log that later runs may have rewritten. |
| Build / install / package stages | 745-784, 983-1129, main 1131-1159 | stage order, exit status | Each stage exits on failure. A cancelled test stage returns normally. |
| Docker wrapper | `do_docker` 565-708 | network, detached container, `kill_docker` handler | The handler is installed only after the container has started. An interrupt exits with status 0. |
| Interactive, VS Code setup | 456-563 | helper files | Pure I/O. |
| CLI / `.opts` / platform detection | 1-333 | `args` | These supply input values. |
| Code generators | `gen-*.py` | `opcbuiltins.h`, `tdishr.h`, `TdiHash.c` and the intermediary `TdiHash.c.in` | Independent scripts over one CSV. The TdiHash script locates gperf, runs it as a subprocess and writes its output without looking at its exit status. |
| `PyDoMethod.py` | `src/tdi/dev_support` 5-38 | `globals()`, the call's status | TDI's bridge to a Python device method. It execs the qualifiers and looks up the class, retries on TypeError, and converts exceptions to a status. It behaves differently under Python 2 and 3. |

## 2. Modules

### `TestScheduler` (do_test, stop_testing, mdsplus-test.json)

Each variable of the module corresponds to the code as follows.

| Variable | Code |
|---|---|
| `test_queue` | `test_queue`, as a sequence of test names |
| `running_tests` | `running_tests`, as a sequence of test names |
| `it` | the position of the `for test in running_tests` iterator |
| `queue_copy` | the rerun filter's `test_queue.copy()` |
| `test` | the test the coordinator holds between pop and append |
| `proc[t]` | the child process: idle, live, exit0, exitF or killed |
| `passed_tests`, `failed_tests` | the two dicts, mapping a test to a record `[passed, inv]` or `NoRecord` |
| `handler` | the installed SIGINT disposition |
| `persisted` | the content of `mdsplus-test.json`: `Missing`, `Corrupt` or a dict |
| `output_junit` | `args.output_junit` of the current invocation |
| `logs[t]` | `<name>.log` in the testing directory, as the invocation that last opened it with `'wb'` (line 900), 0 if none has |
| `junit` | `mdsplus-junit.xml`: for each testcase, the invocation its result comes from and the invocation whose log its `system-out` shows |

The history variables `executed`, `killed`, `skipped` and `cancelled` record
what really happened, so that properties can compare the results with it.

The coordinator is one Python thread. Its statement groups are actions, and
`pc` names the position. The splits are placed exactly where a Python signal
handler can run in between:

- `Enumerate`
- the rerun filter, element by element: `RerunFilterStep`, and `RerunFilterRaise` for the `ValueError` that the bare `except` swallows
- `LoopEnter`, `PollLive`, `PollReap` (which includes the skip of the next element after `remove`) and `PollDone`
- `DequeueEnter`, `Pop`, `PopRaise` (IndexError), `Launch` and `AppendRunning`
- `Restore`, `Truncate` and `Write`
- `JUnit` (lines 954-981), when `--output-junit` is given

The environment has three kinds of step:

- `ProcExit(t)`: a child exits with status 0 or non-zero.
- `StopTesting`: the handler runs, or `DefaultSigint` once the default disposition is back.
- `NextInvocation`: the user runs the script again, usually with `--rerun-failed`.

Fairness: weak fairness on the coordinator (the loop never blocks or sleeps)
and on each `ProcExit(t)` (ctest's children terminate). SIGINT is not fair: the
user may never press Ctrl-C.

### `TestResults` (what the test stage promises), and the refinement

`TestResults` is an abstract specification of the test stage with the
scheduling left out. Its state:
- `results`: this run's classification;
- `file`: the results file;
- `ran`: every test execution, as `<<run, test, ended well>>`;
- `open`: whether the run may still classify.

Its steps:
- `End(S, ok)`: executions end, each test at most once per run.
- `Seed(t)`: a passed record is carried over from the file.
- `Classify(t)`: a test is classified by its own ending in this run.
- `Close`: the run stops classifying.
- `Truncate` and `Persist`: the file is truncated, then replaced whole.
- `Restart`: the script is run again.

Its only fairness is weak fairness on `Close`: a run of the script does not
classify for ever. Through the refinement this becomes a liveness obligation
on `TestScheduler`: every run leaves the poll loop, or dies.

`TestScheduler` instantiates it as `Abstract` with this mapping:
- `results <- AllTests`, the dict line 939 writes;
- `file <- persisted`;
- `ran <- executed`;
- `open <- pc \in OpenPcs`, the positions up to the end of the poll loop.

`ImplementsTestResults == Abstract!Spec` is checked as a property of
`scheduler_safety`. Every scheduler step is therefore one abstract step or a
stutter: `StopTesting` is `End` of its victims, `PollReap` is `Classify`,
`RerunFilterStep` is `Seed`, `LoopExit`/`PopRaise`/`DefaultSigint` are
`Close`, `Truncate`/`Write` are `Truncate`/`Persist`, and `NextInvocation` is
`Restart`.

### `Reconciler` (CMake argument reconciliation and do_configure)

- `file` is `CMakeCache.txt` as CMake writes it (name -> `[type, value]`).
- `ParseCmakeCache` drops the type, like line 386.
- Arguments are records: `-D` with or without a type, or a flag.
- `CheckAddCmakeArg` and `CheckAddAll` are lines 400-418, written as a fold.
- `Reconcile` is lines 394-452: `--fresh`, the forced configure when the cache is empty, the script's own arguments, and the final force.
- `ConfigureArgs`, `ConfigureOk` and `ConfigureFail` are `do_configure`.
- The environment models CMake's cache update (`CmakeApply`). The last setting of a name wins, `--fresh` starts from empty, and the default generator is recorded.
- A failed CMake run may or may not have written its cache.
- `NextInvocation` keeps the file and remembers the previous request.

### `Driver` (main and the stages)

`k` is main's position in the stage list of lines 1142-1158. `args` holds the
parsed flags after the defaults of lines 252-271 (`ApplyDefaults`, where
`--package` implies `--install`).

Each stage is one action, with a disjunct per way the function can end:
- it returns (`Return`, the stage joins `done`);
- or it calls `exit(1)` or raises (`Exit`, with a `cause`).

Stage by stage:
- `SetupVscode` forces `args.configure` (line 460).
- `Configure` and `Build` cover the clean step and the build.
- `Test` takes its outcome from the end states of `TestScheduler`. `aborted` and `crashed` exit. `passed`, `failures` and `cancelled` return normally.
- `Install` runs `cmake --install`.
- `Package` takes every early exit of `do_package` in code order: `--distname`, `--platform`, the five-field unpack of `git describe` (a conversion modelled by its field count), `--arch`, the platform script, then the tarballs.

`Finish` is falling off the end of the script, with status 0.

No fairness: `driver_pipeline` checks only safety. main is straight-line
code, so its termination would hold whatever the stages do. What exit status
0 means is not a property of this module: `Test` returns normally after
failures or a cancellation, as `do_test` does. The cancelled case is checked
by `invocation_cancellation`, in the composition.

### `DockerWrapper` (do_docker)

The main thread's actions follow lines 567-708:
- `FindDocker`
- `NetworkCreate`
- `RunInteractive`, or `RunDetached`
- `InstallHandler` (line 680)
- `FollowEnd` (the log loop)
- `Restore` (689)
- `Inspect`
- `Rm`
- `Finish`

The environment:
- `ContainerExit`: the build in the container ends.
- `LogsDrop`: the `docker logs --follow` process dies while the container runs.
- Ctrl-C: `KillDocker` while `kill_docker` is installed, `DefaultSigint` otherwise.

`docker inspect` reports 0 for a running container. `docker rm` without `-f`
fails on one, and so does `docker network rm` while a running container is
attached.

Fairness: weak fairness on the main thread and on `ContainerExit`. Ctrl-C and
the log stream dying are not assumed.

### `PyDoMethod` (tdi/dev_support/PyDoMethod.py)

The model covers one call. The inputs are fixed in `Init`:
- the interpreter (`py`);
- whether the qualifier code declares the class `global`;
- whether the class has the method;
- the method's arity and the number of arguments passed.

The actions follow the function:
- `Qualifiers` (6-15): loading may raise. Otherwise `exec` binds the class in `globals()` under Python 2, but only in a locals snapshot under Python 3.
- `Construct` (16-19).
- `GetMethod` (20-24).
- `Call` (25-27) and `Retry` (28-31). Both go through `Invoke`: an arity mismatch raises TypeError before the body runs; otherwise the body runs and returns a status or raises.
- `Handler` (32-37) raises NameError on the undefined `exc`.

There is no concurrency. The run asks whether the function keeps its own
contract.

### `CancelledInvocation` (composition of `DockerWrapper` and `Driver`)

An invocation as the user sees it. Lines 1133-1136 choose between
`do_docker` and the stage pipeline. The module instantiates both components:
- `D == INSTANCE DockerWrapper WITH pc <- dpc, status <- dstatus`;
- `B == INSTANCE Driver WITH status <- istatus`.

The steps:
- `PipelineStep` is a step of `Driver`. It runs in the process itself (native), or inside the container while it runs. Lines 606-622 pass the same arguments on.
- Inside a detached container no SIGINT arrives, so `do_test` cannot end `cancelled` or `crashed` there.
- `ContainerDone` replaces `DockerWrapper`'s free choice of exit code: the container exits with the pipeline's status.
- `DockerStep` is a step of `do_docker`, the user's Ctrl-C (`KillDocker`, `DefaultSigint`) included. A killed container runs no further pipeline step.
- The history variable `cancelled_in_test` records a Ctrl-C during the test stage: natively, `do_test` ended by the interrupt; under docker, a Ctrl-C while the container's pipeline was in `do_test`.

The interactive branches are left out. `do_interactive` runs a shell, and in
`DockerWrapper` `docker run --interactive` is one atomic step.

### `OpcodeGen` (the three `gen-*.py` generators)

The three scripts are processes with `pc[s]` and `status[s]`. The inputs are
chosen in `Init`:
- the CSV, every sequence of up to `MaxRows` rows over small sets of names, builtins and opcodes;
- `GPERF` (unset, a working gperf, or a broken path);
- whether `gperf` is on PATH.

The actions:
- `GenOpcBuiltins` writes one OPC row per CSV row (`OpcLines`).
- `GenTdiShr` writes the three declaration blocks (`OpcodeNames`, `Declarations`).
- The TdiHash script is split at its statements: `Locate` (27-34), `GenerateInput` (36-89, `Keywords`), `RunGperf` (91-99), `RemoveInput` (101) and `WriteOutput` (103-114, the `#line` filter as `SelectSeq`).

gperf is modelled by what it does with these options (`GperfAccepts`,
`GperfOutput`). Under `%ignore-case` two keywords equal up to case are
rejected with empty stdout. Otherwise it emits the keyword table, `#line`
directives and the `tdi_hash` function. `TdiHash(file, name)` is what the
compiled `tdi_hash` returns: the opcode, -1, or `NoValue` when the file
defines no `tdi_hash`. Output lines are tuples, so keyword lines and markers
compare.

## 3. Runs

| Run | Checks | Result |
|---|---|---|
| `scheduler_safety` | `TypeOK`, `BoundedConcurrency`, `ResultsDisjoint`, `RunAccountsForCatalog`, `RerunCompleteness`, `QuiescentAtExit`, `Termination`, `ImplementsTestResults` | pass |
| `scheduler_cancellation` | `CancellationHonoured` (spec 4.4 and 7: killed jobs are not recorded, no test starts after the interrupt, and a cancelled run persists its results) | violation, with three causes: a killed test is filed as failed; a SIGINT between `pop(0)` and `append` starts a test that is never killed; a SIGINT between the `while` test and `pop(0)` raises IndexError and nothing is persisted |
| `scheduler_stale_junit_log` | `JUnitReportsOwnLog` (each testcase of the jUnit XML shows the log of the execution its result comes from) | violation: run 1 passes t1; run 2 relaunches t1, truncating `t1.log`, and dies on a Ctrl-C after line 922 before writing `mdsplus-test.json`; run 3 with `--rerun-failed --output-junit` carries run 1's record over and reports run 2's log under it |
| `reconciler_safety` | `TypeOK`, `SkipIsSound`, `Idempotent` | pass |
| `reconciler_configure_decision` | `ConfigureWhenNeeded` (repeating a request reconfigures exactly when the previous CMake run failed) | violation, with four causes: a name set twice (for example user `-DENABLE_SANITIZE=address` against the script's `=OFF`) flips on every run; a typed `-DFOO:STRING=bar` is never matched against the cache; `--toolchain` forces configure every time; a failed CMake run leaves a cache that the next run trusts |
| `driver_pipeline` | `TypeOK`, `PackageOnlyAfterInstall` | pass |
| `driver_release_package` | `ReleasePackaged` | violation, with two causes: on an exact release tag `git describe` has four fields and `do_package` dies at line 1014; when `dpkg`/`rpm` prints nothing, `args.arch` is `''`, not `None`, the check at 1040 passes and the packages are named without an architecture |
| `docker_lifecycle` | `TypeOK`, `UndisturbedRunCleansUp`, `Terminates` | pass |
| `invocation_cancellation` | `InvocationContract` (spec 7 for the whole invocation: a Ctrl-C during the tests ends it with results persisted and a non-zero status; under docker, once `do_docker` has exited no container or network of it is left, and 0 means the containerised build succeeded) | violation. Cancellation has three causes: natively `do_test` returns and the script exits 0; under docker `kill_docker` SIGKILLs the container before anything is written and exits 0; with the default disposition the script dies with 130 while the container runs on. Docker's end state has four: Ctrl-C before line 680 or after 689 leaves the container running; `kill_docker` exits 0; a dropped log stream makes inspect read a running container as 0; a failed `docker run` exits at 653 without removing the network |
| `pydomethod_dispatch` | `DispatchesOnce` (the method runs once and its status, or its exception's status or 0, is returned) | violation, with three causes, of which the run's trace shows the first: under Python 3 a class a qualifier imports is not in `globals()` unless the qualifier declares it global; a TypeError inside the method runs it again with `None`; the handler raises NameError |
| `codegen_consistency` | `TypeOK`, `HeadersAgree`, `HashResolvesOpcTable` | pass |
| `codegen_hash_contract` | `GeneratorContract` (exit 0 means `tdi_hash` resolves every builtin; GPERF naming a working gperf is enough) | violation, with two causes, of which the run's trace shows the second: gperf rejects builtins equal up to case, and its empty output is written with exit 0 (line 98); GPERF is looked up but `gperf` from PATH is run (line 93) |

The three `Idempotent` causes were also run one by one:
- `MCConflictArgs`;
- `MCTypedArgs`;
- `MCPlainArgs` with `MCToolchainOpts`.

The failed-configure cause of `ConfigureWhenNeeded` was run alone with
`MCPlainArgs`/`MCOpts`.

The causes of the other runs with several causes were checked the same way,
each with an invariant for that cause alone. Each was violated on its own:
- the three parts of `CancellationHonoured`;
- the three routes of `CancellationContract` and the four docker routes of `InvocationContract`, each in the composition under `invocation_cancellation`'s own bounds;
- the two halves of `ReleasePackaged` and of `GeneratorContract`;
- the `DispatchesOnce` traces with `Pythons = {2}` (NameError) and with `body_runs <= 1` alone (the retry).

### What the passing properties say

- **`BoundedConcurrency`**: at most `-j` tests are started and not yet reaped. This counts the one held between pop and append.
- **`ResultsDisjoint`**: no test is in both dicts.
- **`RunAccountsForCatalog`**: an uncancelled run that reaches line 922 has classified every catalog test as recorded or skipped. This is despite the list-removal skip and the rerun seeding.
- **`RerunCompleteness`**: a test that was not recorded as passed in the file is run again by `--rerun-failed`.
- **`QuiescentAtExit`**: no child is still alive when the scheduler ends.
- **`Termination`**: every invocation reaches an end state.
- **`ImplementsTestResults`**: the scheduler refines `TestResults`. Each test ends at most once per run, and is classified at most once, by its own ending or by a passed record from the file. Nothing is classified after the loop. The file is only truncated or replaced whole. So every persisted record states how a real execution ended, across runs.
- **`SkipIsSound`**: when configure is skipped, the cache already holds every value the request implies.
- **`Idempotent`**: for untyped, distinct names, repeating a request after a successful configure does not reconfigure.
- **`PackageOnlyAfterInstall`**: a package is only written after this run's install succeeded.
- **`HeadersAgree`**: once both header scripts have run, the i-th declaration of each block of `tdishr.h` names the i-th OPC row of `opcbuiltins.h`. So every function an `OPC(...)` line refers to is declared, and nothing else is. The scripts share only the CSV, so the order they run in does not matter.
- **`HashResolvesOpcTable`**: a `TdiHash.c` that defines `tdi_hash` resolves exactly the builtins of the OPC table, each to the opcode of its own CSV row, ignoring case.
- **`UndisturbedRunCleansUp`**: an uninterrupted detached run with a healthy log stream removes the container and the network, and exits with the container's code.

Each property of a passing run has a mutant (`PROJECT.json` "mutants"): a
plausible bug in the mapped definition that TLC shows breaks it.

### Bounds

| Run | Bound | Why it is enough |
|---|---|---|
| `scheduler_safety` | 3 tests, `-j 2`, 2 invocations, 1 SIGINT, filters {all, {t1,t3}} | Three tests with two slots give a queue that outlives the first batch. The list-removal skip needs two running jobs. The second invocation exercises `--rerun-failed` over every kind of persisted file. One SIGINT reaches every window. The whole run takes about 15 s. |
| `scheduler_stale_junit_log` | `JUnitReportsOwnLog` (each testcase of the jUnit XML shows the log of the execution its result comes from) | violation: run 1 passes t1; run 2 relaunches t1, truncating `t1.log`, and dies on a Ctrl-C after line 922 before writing `mdsplus-test.json`; run 3 with `--rerun-failed --output-junit` carries run 1's record over and reports run 2's log under it |
| `reconciler_safety` | 3 invocations; arguments drawn from small sets of `-D` names and values, `--fresh`, sanitize/valgrind options | Three invocations are enough to configure, repeat, then change. |
| `driver_pipeline` | every flag combination; platforms debian (has a packaging script), alpine (root tarball only) and macosx (no arch autodetection); every stage outcome | The pipeline is acyclic, so this is exhaustive over its branches. |
| `docker_lifecycle` | inner status 0 or 1, one Ctrl-C, one log-stream drop | One interrupt reaches every window between 642 and 708. |
| `codegen_consistency` | CSVs of up to 2 rows over names {Abs, Sin}, builtins {ABS, abs, SIN}, opcodes {0, 1}; every GPERF/PATH combination | Two rows give an order to get wrong, and a pair of builtins equal up to case. Opcodes that differ from the row position catch a position taken for the opcode. Every exit path of the TdiHash script is reached. |
| `invocation_cancellation` | platform debian, one Ctrl-C | One interrupt, native or under docker, reaches the test stage and every window of `do_docker`. |
| `scheduler_stale_junit_log` | 1 test, `-j 1`, 3 invocations, 1 SIGINT, no regex | A stale log needs three runs: one whose record is carried over, one that rewrites the log and dies, and one that reports. Everything else only multiplies the states. |

## 4. Plan for the remaining work

1. Compose `Reconciler` with `Driver`'s configure stage across invocations, including `--setup-vscode` appending its own `-D` without the filter.
2. Split `RunInteractive` so that `CancelledInvocation` can cover `docker run --interactive`.

## 5. Not modelled

- Console output, timing, and the contents of the jUnit XML and of the log files. Only which invocation last wrote each log, and which log each testcase shows, is modelled.
- CLI parsing, `.opts` files and platform detection. Their values enter the models as nondeterministic inputs.
- `do_interactive`, and the contents of the settings file `do_setup_vscode` writes.
- `do_build`'s choice of build command (lines 749-763). It changes how the build runs, not whether it succeeds.
- The layout and comments the generators write, the CSV columns other than name, builtin and opcode, and a CSV missing a column (a KeyError).
- The summary percentage (line 928) is computed in binary floating point: 57 of 100 prints 56%. TLC has no IEEE-754 arithmetic, so this is a hazard without a property. It was confirmed by evaluating the expression in Python.
- What a device method or device class does inside `PyDoMethod`. It is input to the model.
- `-j 0`: `int(args.parallel) == 0` spins forever. This is recorded as a hazard, outside the `P >= 1` contract.
