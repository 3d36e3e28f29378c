---------------------------- MODULE MCPyDoMethod ----------------------------
EXTENDS PyDoMethod

CONSTANTS SUCCESS, FAILURE

\* Both interpreters MDSplus supports; a method that returns a success or a
\* failure status.  Status codes are model values: no property does
\* arithmetic on them.
MCPythons == {2, 3}
MCMethodStatuses == {SUCCESS, FAILURE}
=============================================================================
