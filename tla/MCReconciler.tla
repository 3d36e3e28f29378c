---------------------------- MODULE MCReconciler ----------------------------
(* Argument lists and options for three runs of the script.                *)
EXTENDS Reconciler

\* Options: with or without --configure and --sanitize=address, --valgrind
\* absent or naming a tool; no --toolchain.
MCOpts ==
    [configure : BOOLEAN, toolchain : {FALSE}, sanitize : {"", "address"},
     valgrind : {"", "memcheck"}]

\* Untyped -D settings, each name at most once and none the script
\* manages itself, and --fresh.
MCPlainArgs ==
    {<<>>, <<DArg("FOO", "bar")>>, <<DArg("FOO", "qux"), DArg("BAZ", "qux")>>,
     <<Fresh, DArg("FOO", "bar")>>}

\* Two settings of one name: twice by the user, or by the user and by the
\* script's own default (--sanitize not given).
MCConflictArgs ==
    MCPlainArgs \cup {<<DArg("FOO", "bar"), DArg("FOO", "qux")>>,
                      <<DArg("ENABLE_SANITIZE", "address")>>}

\* A typed -D setting, as CMake documents them.
MCTypedArgs == MCPlainArgs \cup {<<TypedDArg("FOO", "STRING", "bar")>>}

\* --toolchain given, no CMake arguments beyond the plain ones.
MCToolchainOpts ==
    [configure : {FALSE}, toolchain : BOOLEAN, sanitize : {""}, valgrind : {""}]
\* The argument lists of the three reconciliation defects together: a name
\* set twice, a typed setting, and the script's --toolchain flag.
MCUnfilteredArgs == MCConflictArgs \cup MCTypedArgs

MCAllOpts == MCOpts \cup MCToolchainOpts
=============================================================================
