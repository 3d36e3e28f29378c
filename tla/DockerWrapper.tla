---------------------------- MODULE DockerWrapper ----------------------------
(***************************************************************************)
(* do_docker (deploy/build.py lines 565-708): build.py re-runs itself in a *)
(* container.  The main thread creates the network, starts the container   *)
(* detached, follows its log stream and, once the stream ends, reads the   *)
(* container's exit code, removes it and the network and exits with that   *)
(* code.  The kill_docker SIGINT handler is installed only at line 680 and *)
(* reset at line 689.  The container, the log stream and the user's Ctrl-C *)
(* are the environment.                                                    *)
(***************************************************************************)
EXTENDS Naturals

CONSTANTS
    InnerCodes,     \* exit statuses of build.py inside the container
    MaxSigints,     \* Ctrl-C presses per run
    NoValue         \* Python None / no exit status yet

\* `docker kill` sends SIGKILL: the container's exit code is 128 + 9.
Killed == 137
\* A Python process that dies of SIGINT reports 128 + 2.
SigintStatus == 130
ExitStatuses == InnerCodes \cup {0, 1, Killed, SigintStatus}

VARIABLES
    pc,           \* position of the main thread in do_docker
    net,          \* args.dockernetwork is given
    interactive,  \* args.interactive
    handler,      \* SIGINT disposition: "default" or "kill_docker"
    container,    \* "none", "running", "exited" or "removed"
    cexit,        \* the container's exit code once it has exited
    network,      \* "absent" or "present"
    dropped,      \* the `docker logs --follow` stream ended early
    exit_code,    \* exit_code read by docker inspect (line 701)
    status,       \* the script's exit status, NoValue while running
    sigints,      \* Ctrl-C presses so far
    interrupted   \* a Ctrl-C reached the script (history)

vars == <<pc, net, interactive, handler, container, cexit, network, dropped,
          exit_code, status, sigints, interrupted>>

Init ==
    /\ pc = "start"
    /\ net \in BOOLEAN
    /\ interactive \in BOOLEAN
    /\ handler = "default"
    /\ container = "none"
    /\ cexit = NoValue
    /\ network = "absent"
    /\ dropped = FALSE
    /\ exit_code = NoValue
    /\ status = NoValue
    /\ sigints = 0
    /\ interrupted = FALSE

Running == status = NoValue

\* exit(code) from the main thread.
Exit(code) == status' = code /\ pc' = "exited"

-----------------------------------------------------------------------------
(* The main thread *)

\* Lines 567-576: no docker executable exits; the optional pull changes
\* nothing the model tracks.
FindDocker ==
    /\ Running /\ pc = "start"
    /\ \/ Exit(1)
       \/ pc' = "network" /\ UNCHANGED status
    /\ UNCHANGED <<net, interactive, handler, container, cexit, network,
                   dropped, exit_code, sigints, interrupted>>

\* Lines 588-591: `docker network create`, its result unchecked.
NetworkCreate ==
    /\ Running /\ pc = "network"
    /\ network' = IF net THEN "present" ELSE network
    /\ pc' = IF interactive THEN "run_interactive" ELSE "run_detached"
    /\ UNCHANGED <<net, interactive, handler, container, cexit, dropped,
                   exit_code, status, sigints, interrupted>>

\* Lines 627-638: `docker run --interactive --rm` in the foreground, then
\* the network is removed and do_docker returns, so main exits 0 whatever
\* the container's status was.
RunInteractive ==
    /\ Running /\ pc = "run_interactive"
    /\ \E c \in InnerCodes : cexit' = c
    /\ container' = "removed"
    /\ network' = IF net THEN "absent" ELSE network
    /\ Exit(0)
    /\ UNCHANGED <<net, interactive, handler, dropped, exit_code, sigints,
                   interrupted>>

\* Lines 642-655: `docker run --detach`; a failure exits at line 653.
RunDetached ==
    /\ Running /\ pc = "run_detached"
    /\ \/ Exit(1) /\ UNCHANGED container
       \/ container' = "running" /\ pc' = "started" /\ UNCHANGED status
    /\ UNCHANGED <<net, interactive, handler, cexit, network, dropped,
                   exit_code, sigints, interrupted>>

\* Lines 657-680: `docker logs --follow` is started and kill_docker installed.
InstallHandler ==
    /\ Running /\ pc = "started"
    /\ handler' = "kill_docker"
    /\ pc' = "follow"
    /\ UNCHANGED <<net, interactive, container, cexit, network, dropped,
                   exit_code, status, sigints, interrupted>>

\* Mutant: the loop waits for the container to be gone rather than for
\* the end of the stream.
FollowEndOnRemoved ==
    /\ Running /\ pc = "follow"
    /\ container = "removed" \/ dropped
    /\ pc' = "restore"
    /\ UNCHANGED <<net, interactive, handler, container, cexit, network,
                   dropped, exit_code, status, sigints, interrupted>>

\* Lines 682-685: readline returns b'' once the log stream has ended, which
\* happens when the container stops or the `docker logs` process dies.
FollowEnd ==
    /\ Running /\ pc = "follow"
    /\ container # "running" \/ dropped
    /\ pc' = "restore"
    /\ UNCHANGED <<net, interactive, handler, container, cexit, network,
                   dropped, exit_code, status, sigints, interrupted>>

\* Line 689.
Restore ==
    /\ Running /\ pc = "restore"
    /\ handler' = "default"
    /\ pc' = "inspect"
    /\ UNCHANGED <<net, interactive, container, cexit, network, dropped,
                   exit_code, status, sigints, interrupted>>

\* What `docker inspect --format={{.State.ExitCode}}` prints: the exit code
\* of a stopped container, 0 for one that is still running.
InspectedCode(c, code) == IF c = "exited" THEN code ELSE 0

\* Lines 691-701.
Inspect ==
    /\ Running /\ pc = "inspect"
    /\ exit_code' = InspectedCode(container, cexit)
    /\ pc' = "rm"
    /\ UNCHANGED <<net, interactive, handler, container, cexit, network,
                   dropped, status, sigints, interrupted>>

\* Line 703: `docker rm` without -f fails on a running container.
Rm ==
    /\ Running /\ pc = "rm"
    /\ container' = IF container = "exited" THEN "removed" ELSE container
    /\ pc' = "network_rm"
    /\ UNCHANGED <<net, interactive, handler, cexit, network, dropped,
                   exit_code, status, sigints, interrupted>>

\* Mutant: the network is never removed.
NetworkRmKept(c) == network

\* `docker network rm` fails while a running container is attached.
NetworkRm(c) == IF net /\ c # "running" THEN "absent" ELSE network

\* Lines 705-708.
Finish ==
    /\ Running /\ pc = "network_rm"
    /\ network' = NetworkRm(container)
    /\ Exit(exit_code)
    /\ UNCHANGED <<net, interactive, handler, container, cexit, dropped,
                   exit_code, sigints, interrupted>>

Main ==
    \/ FindDocker \/ NetworkCreate \/ RunInteractive \/ RunDetached
    \/ InstallHandler \/ FollowEnd \/ Restore \/ Inspect \/ Rm \/ Finish

-----------------------------------------------------------------------------
(* The environment *)

\* build.py inside the container finishes with some status.
ContainerExit ==
    /\ container = "running"
    /\ \E c \in InnerCodes : cexit' = c
    /\ container' = "exited"
    /\ UNCHANGED <<pc, net, interactive, handler, network, dropped, exit_code,
                   status, sigints, interrupted>>

\* The `docker logs --follow` process dies before the container stops.
LogsDrop ==
    /\ Running /\ pc \in {"started", "follow"}
    /\ container = "running" /\ ~dropped
    /\ dropped' = TRUE
    /\ UNCHANGED <<pc, net, interactive, handler, container, cexit, network,
                   exit_code, status, sigints, interrupted>>

\* Ctrl-C. In the interactive branch the terminal is in raw mode under
\* `docker run --tty --interactive`, so it reaches the container instead.
CtrlC ==
    /\ Running /\ pc # "run_interactive"
    /\ sigints < MaxSigints
    /\ sigints' = sigints + 1
    /\ interrupted' = TRUE

\* Mutant: the handler exits with the signal number.
KillDockerExitSignum ==
    /\ CtrlC /\ handler = "kill_docker"
    /\ cexit' = IF container = "running" THEN Killed ELSE cexit
    /\ container' = "removed"
    /\ network' = IF net THEN "absent" ELSE network
    /\ Exit(2)
    /\ UNCHANGED <<net, interactive, handler, dropped, exit_code>>

\* kill_docker (lines 668-678): `docker kill`, `docker rm`, `docker network
\* rm`, each result ignored, then exit(0).
KillDocker ==
    /\ CtrlC /\ handler = "kill_docker"
    /\ cexit' = IF container = "running" THEN Killed ELSE cexit
    /\ container' = "removed"
    /\ network' = IF net THEN "absent" ELSE network
    /\ Exit(0)
    /\ UNCHANGED <<net, interactive, handler, dropped, exit_code>>

\* With the default disposition the interrupt ends the script where it is.
DefaultSigint ==
    /\ CtrlC /\ handler = "default"
    /\ Exit(SigintStatus)
    /\ UNCHANGED <<net, interactive, handler, container, cexit, network,
                   dropped, exit_code>>

\* After exit nothing of the script changes; a container left running may
\* still finish.
Exited ==
    /\ ~Running
    /\ UNCHANGED vars

Next ==
    \/ Main
    \/ ContainerExit \/ LogsDrop \/ KillDocker \/ DefaultSigint
    \/ Exited

\* The main thread never blocks for ever once the log stream has ended, and
\* the build in the container eventually finishes; Ctrl-C and a dying log
\* stream are not assumed to happen.
Spec == Init /\ [][Next]_vars /\ WF_vars(Main) /\ WF_vars(ContainerExit)

-----------------------------------------------------------------------------
TypeOK ==
    /\ pc \in {"start", "network", "run_interactive", "run_detached", "started",
              "follow", "restore", "inspect", "rm", "network_rm", "exited"}
    /\ net \in BOOLEAN /\ interactive \in BOOLEAN /\ dropped \in BOOLEAN
    /\ handler \in {"default", "kill_docker"}
    /\ container \in {"none", "running", "exited", "removed"}
    /\ cexit \in ExitStatuses \cup {NoValue}
    /\ network \in {"absent", "present"}
    /\ exit_code \in ExitStatuses \cup {NoValue}
    /\ status \in ExitStatuses \cup {NoValue}
    /\ sigints \in 0..MaxSigints
    /\ interrupted \in BOOLEAN

\* A detached run that nobody interrupts and whose log stream stays up
\* ends with the container and the network removed and the container's
\* own exit code as the script's status.
UndisturbedRunCleansUp ==
    (~Running /\ ~interactive /\ container # "none" /\ ~interrupted /\ ~dropped)
        => /\ container = "removed"
           /\ network = "absent"
           /\ status = cexit

\* Every run of the script ends.
Terminates == <>(~Running)

\* What do_docker leaves behind and tells its caller: once the script has
\* exited, neither a container of it (it would go on writing to the
\* mounted workspace) nor the network it created is left, and for a
\* detached run a zero status means the build in the container succeeded,
\* since the status is all CI sees of it and spec 7 has an interrupted
\* run end with a non-zero status.
ExitCleanAndTruthful ==
    ~Running =>
        /\ container \in {"none", "removed"}
        /\ network = "absent"
        /\ (~interactive /\ status = 0) => cexit = 0
=============================================================================
