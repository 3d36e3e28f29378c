------------------------------ MODULE MCDriver ------------------------------
EXTENDS Driver

\* --platform as given or autodetected at lines 273-293: one platform with
\* a packaging script, alpine (root tarball only) and macosx (no arch
\* autodetection).
MCPlatforms == {"debian", "alpine", "macosx"}
=============================================================================
