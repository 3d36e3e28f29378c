------------------------- MODULE CancelledInvocation -------------------------
(***************************************************************************)
(* One invocation of deploy/build.py as the user sees it, the path the     *)
(* user's Ctrl-C takes included.  Lines 1133-1136: with --dockerimage the  *)
(* script only runs do_docker (module DockerWrapper), which starts build.py *)
(* again in a container with the same arguments minus --docker* and --os   *)
(* (lines 606-624); otherwise the script runs the stage pipeline itself    *)
(* (module Driver).  The two modules are composed here: the pipeline steps *)
(* as the process itself, or inside the container while it is running, and *)
(* the container exits with the status the pipeline ended with.            *)
(*                                                                         *)
(* A Ctrl-C reaches do_test's stop_testing handler only when the pipeline  *)
(* is the process itself.  A detached container has no terminal, so there  *)
(* the interrupt goes to do_docker: to kill_docker, which SIGKILLs the     *)
(* container, or to the default disposition.  The interactive branches     *)
(* (do_interactive, `docker run --interactive`) run a shell or the        *)
(* container in the foreground and are left out.                          *)
(***************************************************************************)
EXTENDS Naturals

CONSTANTS
    Platforms,      \* values --platform can take
    MaxSigints,     \* Ctrl-C presses per invocation
    NoValue         \* Python None

VARIABLES
    native,            \* args.dockerimage is None (line 1133)
    \* do_docker, the process the user started in the docker case
    dpc, net, interactive, handler, container, cexit, network, dropped,
    exit_code, dstatus, sigints, interrupted,
    \* the stage pipeline, in the process itself or in the container
    args, k, istatus, cause, done, tests, describe, arch, artifacts,
    cancelled_in_test  \* a Ctrl-C came while the test stage ran (history)

dvars == <<dpc, net, interactive, handler, container, cexit, network,
           dropped, exit_code, dstatus, sigints, interrupted>>
ivars == <<args, k, istatus, cause, done, tests, describe, arch, artifacts>>
vars == <<native, dvars, ivars, cancelled_in_test>>

D == INSTANCE DockerWrapper WITH pc <- dpc, status <- dstatus, InnerCodes <- {0, 1}
B == INSTANCE Driver WITH status <- istatus

Init ==
    /\ native \in BOOLEAN
    /\ D!Init /\ ~interactive
    /\ B!Init
    /\ cancelled_in_test = FALSE

\* The test stage of the pipeline is under way (do_test has been entered).
Testing == k = 4 /\ B!Requested("test") /\ istatus = NoValue

\* Outcomes of do_test that only a SIGINT delivered to it produces: the
\* stop_testing handler, and the IndexError that follows it at line 891.
Interrupted == {"cancelled", "crashed"}

\* One step of the pipeline, run by the script itself or by build.py in the
\* running container; inside a detached container no SIGINT arrives.
PipelineStep ==
    /\ native \/ container = "running"
    /\ \/ B!Defaults \/ B!SkipStage \/ B!SetupVscode \/ B!Configure
       \/ B!Build \/ B!Test \/ B!Install \/ B!Package \/ B!Finish
    /\ ~native => tests' \notin Interrupted
    /\ cancelled_in_test' = (cancelled_in_test \/ tests' \in Interrupted)
    /\ UNCHANGED <<native, dvars>>

\* build.py in the container exits: `/bin/bash -c command` ends with its
\* status, which becomes the container's exit code.
ContainerDone ==
    /\ container = "running"
    /\ istatus # NoValue
    /\ cexit' = istatus
    /\ container' = "exited"
    /\ UNCHANGED <<native, dpc, net, interactive, handler, network, dropped,
                   exit_code, dstatus, sigints, interrupted, ivars,
                   cancelled_in_test>>

\* A step of do_docker, the user's Ctrl-C on it included; a killed
\* container runs no further step of the pipeline.
DockerStep ==
    /\ ~native
    /\ D!Main \/ D!LogsDrop \/ D!KillDocker \/ D!DefaultSigint
    /\ cancelled_in_test' =
           (cancelled_in_test \/ (sigints' > sigints /\ container = "running" /\ Testing))
    /\ UNCHANGED <<native, ivars>>

InvocationStatus == IF native THEN istatus ELSE dstatus

\* The invocation has ended and no container of it is still running.
Settled ==
    /\ InvocationStatus # NoValue
    /\ ~native => container # "running"
    /\ UNCHANGED vars

Next == PipelineStep \/ ContainerDone \/ DockerStep \/ Settled

Spec == Init /\ [][Next]_vars

-----------------------------------------------------------------------------
\* do_test has written mdsplus-test.json: it returned, after a full run or
\* after stop_testing.
ResultsWritten == tests \in {"passed", "failures", "cancelled"}

\* Spec 7, CancellationRequested, for the invocation the user interrupted:
\* a Ctrl-C while the tests run ends the invocation with the partial
\* results persisted and a non-zero status.  Natively do_test returns after
\* stop_testing and main goes on to exit 0; under docker the detached
\* container never sees the interrupt, and kill_docker SIGKILLs it before
\* anything is written and exits 0, while with the default disposition the
\* script dies and the container runs on.
CancellationContract ==
    (InvocationStatus # NoValue /\ cancelled_in_test) =>
        /\ ResultsWritten
        /\ InvocationStatus # 0

\* Spec 7 for everything an invocation leaves behind and reports, the
\* cancellation above and, under docker, do_docker's own end state
\* (DockerWrapper's ExitCleanAndTruthful: no container or network of it
\* is left, and status 0 means the containerised build succeeded).
InvocationContract ==
    /\ CancellationContract
    /\ ~native => D!ExitCleanAndTruthful
=============================================================================
