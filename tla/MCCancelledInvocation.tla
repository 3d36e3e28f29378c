----------------------- MODULE MCCancelledInvocation -----------------------
EXTENDS CancelledInvocation

\* One platform with a packaging script; the others change nothing about
\* cancellation.
MCPlatforms == {"debian"}
=============================================================================
