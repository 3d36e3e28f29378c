-------------------------- MODULE MCDockerWrapper --------------------------
EXTENDS DockerWrapper

\* build.py inside the container succeeds or exits with status 1.
MCInnerCodes == {0, 1}
=============================================================================
