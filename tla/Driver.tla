------------------------------- MODULE Driver -------------------------------
(***************************************************************************)
(* The stage pipeline of deploy/build.py: main (lines 1131-1159) running   *)
(* do_setup_vscode, do_configure, do_build, do_test, do_install and        *)
(* do_package in that order, each of which exits the script on failure.   *)
(* The reconciliation of CMake arguments is module Reconciler and the      *)
(* test scheduler is module TestScheduler; here their results enter as the *)
(* end states those modules can reach.                                     *)
(***************************************************************************)
EXTENDS Naturals, Sequences, FiniteSets

CONSTANTS
    Platforms,      \* values --platform can take (given or autodetected)
    NoValue         \* Python None

\* main's stages, in the order lines 1142-1158 call them.
Stages == <<"setup_vscode", "configure", "build", "test", "install", "package">>
End == Len(Stages) + 1

\* What `git describe --tag` prints: on a release tag "alpha_release-7-1-2"
\* (four '-'-separated fields), past one "alpha_release-7-1-2-5-gabc1234"
\* (six), and in a clone without tags a one-line error (one field).
DescribeFields == [exact |-> 4, ahead |-> 6, untagged |-> 1]

\* End states of TestScheduler as do_test's caller sees them: `aborted` is
\* exit(1) at line 803, `crashed` an uncaught IndexError or a default-SIGINT
\* KeyboardInterrupt, the others a normal return.
TestOutcomes == {"passed", "failures", "cancelled", "aborted", "crashed"}

\* The command-line choices main reads, before the defaults of lines 252-293.
ArgChoices ==
    [setup_vscode: BOOLEAN, configure: BOOLEAN, build: BOOLEAN, clean: BOOLEAN,
     test: BOOLEAN, install: BOOLEAN, package: BOOLEAN,
     distname: BOOLEAN, platform: Platforms \cup {NoValue}, arch: BOOLEAN]

VARIABLES
    args,       \* the parsed argparse namespace
    k,          \* index into Stages of the next stage main considers
    status,     \* NoValue while running, then the process exit status
    cause,      \* why the script exited non-zero
    done,       \* stages that completed successfully (history)
    tests,      \* do_test's outcome, "none" before it runs
    describe,   \* which kind of `git describe --tag` output do_package read
    arch,       \* args.arch as do_package resolves it
    artifacts   \* package files written

vars == <<args, k, status, cause, done, tests, describe, arch, artifacts>>

Init ==
    /\ args \in ArgChoices
    /\ k = 0
    /\ status = NoValue
    /\ cause = "none"
    /\ done = {}
    /\ tests = "none"
    /\ describe = "none"
    /\ arch = NoValue
    /\ artifacts = {}

-----------------------------------------------------------------------------
\* Mutant: the --package => --install default left out.
ApplyDefaultsNoForce(a) == a

\* Lines 269-271: --package forces --install.
ApplyDefaults(a) == [a EXCEPT !.install = a.install \/ a.package]

Defaults ==
    /\ k = 0
    /\ args' = ApplyDefaults(args)
    /\ k' = 1
    /\ UNCHANGED <<status, cause, done, tests, describe, arch, artifacts>>

Requested(s) == args[s]

\* exit(1), or an uncaught exception, ends the script with status 1.
Exit(why) ==
    /\ status' = 1
    /\ cause' = why
    /\ k' = End
    /\ UNCHANGED done

\* Mutant: main skips the stage after one that returned.
ReturnSkipNext(s) ==
    /\ done' = done \cup {s}
    /\ k' = k + 2

\* A stage that returns normally; main moves on to the next one.
Return(s) ==
    /\ done' = done \cup {s}
    /\ k' = k + 1

\* main's `if args.<stage>:` is false: the call is not made.
SkipStage ==
    /\ status = NoValue
    /\ k \in 1..Len(Stages)
    /\ ~Requested(Stages[k])
    /\ k' = k + 1
    /\ UNCHANGED <<args, status, cause, done, tests, describe, arch, artifacts>>

\* do_setup_vscode: forces a reconfigure (line 460) and writes settings.json.
SetupVscode ==
    /\ status = NoValue /\ k = 1 /\ Requested("setup_vscode")
    /\ args' = [args EXCEPT !.configure = TRUE]
    /\ Return("setup_vscode")
    /\ UNCHANGED <<status, cause, tests, describe, arch, artifacts>>

\* do_configure: CMake succeeds, or the script exits at line 741.
Configure ==
    /\ status = NoValue /\ k = 2 /\ Requested("configure")
    /\ \/ Return("configure") /\ UNCHANGED <<status, cause>>
       \/ Exit("configure")
    /\ UNCHANGED <<args, tests, describe, arch, artifacts>>

\* do_build: the optional clean (exit at line 774), then the build (784).
Build ==
    /\ status = NoValue /\ k = 3 /\ Requested("build")
    /\ \/ args.clean /\ Exit("clean")
       \/ Exit("build")
       \/ Return("build") /\ UNCHANGED <<status, cause>>
    /\ UNCHANGED <<args, tests, describe, arch, artifacts>>

\* do_test: returns normally unless enumeration failed or it crashed.
Test ==
    /\ status = NoValue /\ k = 4 /\ Requested("test")
    /\ \E o \in TestOutcomes :
          /\ tests' = o
          /\ IF o \in {"aborted", "crashed"}
                THEN Exit(o)
                ELSE Return("test") /\ UNCHANGED <<status, cause>>
    /\ UNCHANGED <<args, describe, arch, artifacts>>

\* do_install: `cmake --install`, exit at line 995 on failure.
Install ==
    /\ status = NoValue /\ k = 5 /\ Requested("install")
    /\ \/ Return("install") /\ UNCHANGED <<status, cause>>
       \/ Exit("install")
    /\ UNCHANGED <<args, tests, describe, arch, artifacts>>

\* Platforms with a packaging script (lines 1062-1122); alpine and macosx
\* only get the root tarball.
PackagedPlatforms == {"debian", "redhat", "windows"}

\* Lines 1025-1038: without --arch only debian and redhat ask dpkg or rpm,
\* whose stdout is taken as is, the empty string when the tool failed.
ResolveArch(given, plat, detected) ==
    IF given THEN "given"
    ELSE IF plat \in {"debian", "redhat"} THEN detected
    ELSE NoValue

\* do_package, early exits in the order of the code: --distname (1004),
\* --platform (1008), unpacking the describe output into five fields
\* (1014, ValueError), --arch (1042), the platform script (1072/1095/1118),
\* then the root tarball (1124-1129).
Package ==
    /\ status = NoValue /\ k = 6 /\ Requested("package")
    /\ \E d \in DOMAIN DescribeFields, detected \in {"detected", "empty"},
          script_ok \in BOOLEAN :
        LET a == ResolveArch(args.arch, args.platform, detected)
            scripted == args.platform \in PackagedPlatforms
        IN CASE ~args.distname ->
                    Exit("distname") /\ UNCHANGED <<describe, arch, artifacts>>
             [] args.platform = NoValue ->
                    Exit("platform") /\ UNCHANGED <<describe, arch, artifacts>>
             [] DescribeFields[d] < 5 ->
                    Exit("unpack") /\ describe' = d /\ UNCHANGED <<arch, artifacts>>
             [] a = NoValue ->
                    Exit("arch") /\ describe' = d /\ arch' = a /\ UNCHANGED artifacts
             [] scripted /\ ~script_ok ->
                    Exit("packaging") /\ describe' = d /\ arch' = a /\ UNCHANGED artifacts
             [] OTHER ->
                    /\ describe' = d /\ arch' = a
                    /\ artifacts' = {"root_tgz"} \cup (IF scripted THEN {"platform_pkg"} ELSE {})
                    /\ Return("package")
                    /\ UNCHANGED <<status, cause>>
    /\ UNCHANGED <<args, tests>>

\* main falls off the end of the script: exit status 0.
Finish ==
    /\ status = NoValue /\ k = End
    /\ status' = 0
    /\ UNCHANGED <<args, k, cause, done, tests, describe, arch, artifacts>>

\* The process has exited; nothing changes any more.
Exited ==
    /\ status # NoValue
    /\ UNCHANGED vars

Next ==
    \/ Defaults \/ SkipStage \/ SetupVscode \/ Configure \/ Build
    \/ Test \/ Install \/ Package \/ Finish \/ Exited

Spec == Init /\ [][Next]_vars

-----------------------------------------------------------------------------
TypeOK ==
    /\ args \in ArgChoices
    /\ k \in 0..End
    /\ status \in {NoValue, 0, 1}
    /\ done \subseteq {Stages[i] : i \in 1..Len(Stages)}
    /\ tests \in TestOutcomes \cup {"none"}
    /\ describe \in DOMAIN DescribeFields \cup {"none"}
    /\ arch \in {NoValue, "given", "detected", "empty"}
    /\ artifacts \subseteq {"root_tgz", "platform_pkg"}

\* The root tarball packs usr_local_mdsplus_dir (line 1128), which only
\* do_install of this invocation fills: a package is written only after an
\* install of the same run succeeded (the --package => --install default).
PackageOnlyAfterInstall ==
    artifacts # {} => "install" \in done

\* do_package's handling of its inputs for a release build: it does not die
\* unpacking `git describe` on a commit that carries a release tag (the
\* line is marked "TODO: Harden", 1013), and, as the check at line 1040
\* ("Unable to autodetect --arch, manually specify --arch") intends, every
\* package it writes is named for a given or detected architecture.
ReleasePackaged ==
    /\ cause = "unpack" => describe = "untagged"
    /\ artifacts # {} => arch \in {"given", "detected"}
=============================================================================
