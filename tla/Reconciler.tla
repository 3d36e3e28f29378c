----------------------------- MODULE Reconciler -----------------------------
(***************************************************************************)
(* The configure decision of deploy/build.py, lines 371-452 and            *)
(* do_configure (710-743): the CMake cache of the build directory is       *)
(* parsed, the CMake arguments the user passed and those the script adds   *)
(* are filtered against it by check_add_cmake_arg, and CMake is re-run     *)
(* only if some argument survived or the cache is empty.  The script is    *)
(* run several times in a row; CMakeCache.txt is the only state that      *)
(* links one run to the next.                                             *)
(***************************************************************************)
EXTENDS Integers, Sequences, SequencesExt, FiniteSets

CONSTANTS
    UserArgChoices,  \* the lists of unknown (CMake) arguments a user may pass
    OptChoices,      \* the script options a user may pass, as records
    Ninja,           \* shutil.which('ninja') finds ninja
    MaxInvocations   \* bound: number of times the script is run

(* A command-line argument, abstracted to what check_add_cmake_arg and      *)
(* CMake read from it.  `-DNAME=VALUE` and `-DNAME:TYPE=VALUE` have kind    *)
(* "D"; everything else (--fresh, --toolchain=..., -G...) is a "flag".     *)
DArg(n, v)         == [kind |-> "D", name |-> n, type |-> "", value |-> v]
TypedDArg(n, t, v) == [kind |-> "D", name |-> n, type |-> t, value |-> v]
Flag(f)            == [kind |-> "flag", name |-> f, type |-> "", value |-> ""]

Fresh == Flag("--fresh")

ASSUME /\ Ninja \in BOOLEAN
       /\ MaxInvocations \in Nat \ {0}

VARIABLES
    file,           \* CMakeCache.txt: name -> [type, value] (empty: no file)
    inv,            \* which run of the script this is
    pc,             \* "start", "reconciled", "configured", "failed" or "built"
    user_args,      \* the cmake_args argparse left over in this run
    opts,           \* the script options of this run
    cmake_cache,    \* the parsed cache the run filters against
    cmake_args,     \* the filtered argument list
    configure,      \* args.configure
    \* history variable:
    prev            \* the previous run: its arguments and whether CMake succeeded

vars == <<file, inv, pc, user_args, opts, cmake_cache, cmake_args, configure,
          prev>>

-----------------------------------------------------------------------------
(* The script's helpers, as operators.                                     *)

\* parse_cmake_cache, lines 373-392: each `NAME:TYPE=VALUE` line yields
\* NAME -> VALUE, the type is dropped.  Comment and -ADVANCED lines, which
\* CMake writes besides the entries, are skipped and not represented.
\* Mutation: the line is split at ':' before '=', so the value keeps the type.
ParseCmakeCacheKeepType(f) == [n \in DOMAIN f |-> f[n].type \o "=" \o f[n].value]

ParseCmakeCache(f) == [n \in DOMAIN f |-> f[n].value]

\* The key check_add_cmake_arg looks up: the text between -D and the first
\* '=', which keeps a `:TYPE` suffix that no cache key has.
\* Mutation: arg[1:] for arg[2:], so the key keeps the D of -D.
ArgKeyOffByOne(a) ==
    "D" \o (IF a.type = "" THEN a.name ELSE a.name \o ":" \o a.type)

ArgKey(a) == IF a.type = "" THEN a.name ELSE a.name \o ":" \o a.type

\* Lines 403-408: a -D argument whose value the cache already holds.
\* Mutation: a name already in the cache is skipped whatever its value.
InCacheNameOnly(cache, a) ==
    /\ a.kind = "D"
    /\ ArgKey(a) \in DOMAIN cache

InCache(cache, a) ==
    /\ a.kind = "D"
    /\ ArgKey(a) \in DOMAIN cache
    /\ cache[ArgKey(a)] = a.value

\* check_add_cmake_arg, lines 400-412, on the state <<cmake_args, configure>>.
CheckAddCmakeArg(cache, st, a) ==
    IF InCache(cache, a) \/ a \in Range(st[1])
      THEN st
      ELSE <<Append(st[1], a), TRUE>>

CheckAddAll(cache, st, seq) ==
    FoldLeft(LAMBDA s, a : CheckAddCmakeArg(cache, s, a), st, seq)

\* Lines 424-448: the arguments the script adds after the user's.
ScriptArgs(o) ==
    (IF o.toolchain THEN <<Flag("--toolchain=" \o "toolchain.cmake")>> ELSE <<>>)
    \o <<DArg("CMAKE_INSTALL_PREFIX", "install/usr/local/mdsplus")>>
    \o <<DArg("ENABLE_SANITIZE", IF o.sanitize = "" THEN "OFF" ELSE o.sanitize)>>
    \o (IF o.valgrind = "" THEN <<DArg("ENABLE_VALGRIND", "OFF")>>
        ELSE <<DArg("ENABLE_VALGRIND", "ON"), DArg("VALGRIND_TOOLS", o.valgrind)>>)

\* Lines 394-452 as one computation: <<cache, cmake_args, configure>>.
Reconcile(f, user, o) ==
    LET cache == IF Fresh \in Range(user) THEN <<>> ELSE ParseCmakeCache(f)
        st1   == CheckAddAll(cache, <<<<>>, o.configure>>, user)
        st2   == <<st1[1], st1[2] \/ DOMAIN cache = {}>>
        st3   == CheckAddAll(cache, st2, ScriptArgs(o))
    IN  <<cache, st3[1], st3[2] \/ st3[1] # <<>>>>
-----------------------------------------------------------------------------
(* CMake, the external tool, as far as the cache is concerned: --fresh     *)
(* starts from an empty cache, each -D sets an entry (keeping the type      *)
(* already recorded when none is given), -G picks the generator, and a      *)
(* generator is recorded when none was.                                     *)

GeneratorFlags == {Flag("-GNinja"), Flag("-GUnix Makefiles")}

CmakeSet(f, a) ==
    CASE a.kind = "D" ->
           (a.name :> [type  |-> IF a.type # "" THEN a.type
                                 ELSE IF a.name \in DOMAIN f THEN f[a.name].type
                                 ELSE "UNINITIALIZED",
                       value |-> a.value]) @@ f
      [] a = Flag("-GNinja") ->
           ("CMAKE_GENERATOR" :> [type |-> "INTERNAL", value |-> "Ninja"]) @@ f
      [] a = Flag("-GUnix Makefiles") ->
           ("CMAKE_GENERATOR" :> [type |-> "INTERNAL", value |-> "Unix Makefiles"]) @@ f
      [] OTHER -> f

CmakeApply(f, args) ==
    LET base == IF Fresh \in Range(args) THEN <<>> ELSE f
        set  == FoldLeft(CmakeSet, base, args)
    IN  IF "CMAKE_GENERATOR" \in DOMAIN set THEN set
        ELSE CmakeSet(set, Flag("-GUnix Makefiles"))

-----------------------------------------------------------------------------
(* One run of the script, up to the build.                                 *)

Init ==
    /\ file = <<>>
    /\ inv = 1
    /\ pc = "start"
    /\ user_args = <<>>
    /\ opts = CHOOSE o \in OptChoices : TRUE
    /\ cmake_cache = <<>>
    /\ cmake_args = <<>>
    /\ configure = FALSE
    /\ prev = [none |-> TRUE]

\* Lines 221 and 394-452: argparse leaves the unknown arguments in
\* cmake_args; the cache is parsed (and dropped under --fresh), every
\* argument filtered, and the configure decision taken.
Start ==
    /\ pc = "start"
    /\ \E u \in UserArgChoices, o \in OptChoices :
         LET r == Reconcile(file, u, o) IN
         /\ user_args' = u
         /\ opts' = o
         /\ cmake_cache' = r[1]
         /\ cmake_args' = r[2]
         /\ configure' = r[3]
    /\ pc' = "reconciled"
    /\ UNCHANGED <<file, inv, prev>>

\* do_configure, lines 713-720: -GNinja is added when the cache names no
\* generator, the user gave none, and ninja is installed.
ConfigureArgs ==
    cmake_args \o
      (IF /\ "CMAKE_GENERATOR" \notin DOMAIN cmake_cache
          /\ Range(cmake_args) \cap GeneratorFlags = {}
          /\ Ninja
       THEN <<Flag("-GNinja")>> ELSE <<>>)

\* Lines 734-743: CMake runs and the cache is parsed again.
ConfigureOk ==
    /\ pc = "reconciled"
    /\ configure
    /\ file' = CmakeApply(file, ConfigureArgs)
    /\ cmake_cache' = ParseCmakeCache(file')
    /\ pc' = "configured"
    /\ UNCHANGED <<inv, user_args, opts, cmake_args, configure, prev>>

\* Lines 739-741: CMake fails and the script exits.  A failing configure
\* step may or may not have written the cache it had built so far.
ConfigureFail ==
    /\ pc = "reconciled"
    /\ configure
    /\ file' \in {file, CmakeApply(file, ConfigureArgs)}
    /\ pc' = "failed"
    /\ UNCHANGED <<inv, user_args, opts, cmake_cache, cmake_args, configure,
                   prev>>

\* Line 1145: no configure step in this run.
SkipConfigure ==
    /\ pc = "reconciled"
    /\ ~configure
    /\ pc' = "done"
    /\ UNCHANGED <<file, inv, user_args, opts, cmake_cache, cmake_args,
                   configure, prev>>

\* The user runs the script again; only CMakeCache.txt is kept.
NextInvocation ==
    /\ pc \in {"configured", "failed", "done"}
    /\ inv < MaxInvocations
    /\ inv' = inv + 1
    /\ prev' = [none |-> FALSE, user |-> user_args, opts |-> opts,
                ok |-> pc # "failed"]
    /\ pc' = "start"
    /\ UNCHANGED <<file, user_args, opts, cmake_cache, cmake_args, configure>>

Finished ==
    /\ pc \in {"configured", "failed", "done"}
    /\ inv = MaxInvocations
    /\ UNCHANGED vars

Next ==
    \/ Start \/ ConfigureOk \/ ConfigureFail \/ SkipConfigure
    \/ NextInvocation \/ Finished

Spec == Init /\ [][Next]_vars

-----------------------------------------------------------------------------
(* Properties.                                                             *)

\* Every value an argument or CMake itself can put in the cache.
CacheValues ==
    {a.value : a \in UNION {Range(u) : u \in UserArgChoices}
                     \cup UNION {Range(ScriptArgs(o)) : o \in OptChoices}}
    \cup {"Ninja", "Unix Makefiles"}

TypeOK ==
    /\ inv \in 1..MaxInvocations
    /\ pc \in {"start", "reconciled", "configured", "failed", "done"}
    /\ user_args \in UserArgChoices \cup {<<>>}
    /\ opts \in OptChoices
    /\ configure \in BOOLEAN
    /\ cmake_cache \in [DOMAIN cmake_cache -> CacheValues]

\* Skipping the configure step is safe: when the script decides not to
\* run CMake, running CMake with every argument, filtered or not, would
\* leave the parsed cache as it is.
SkipIsSound ==
    (pc = "reconciled" /\ ~configure) =>
        ParseCmakeCache(CmakeApply(file, user_args \o ScriptArgs(opts)))
            = cmake_cache

\* The previous run made the same request, and this one has neither
\* --configure nor --fresh.
RepeatedRequest ==
    /\ ~prev.none
    /\ prev.user = user_args
    /\ prev.opts = opts
    /\ ~opts.configure
    /\ Fresh \notin Range(user_args)

SameRequest == RepeatedRequest /\ prev.ok

\* Spec 4.2, reconciliation is idempotent: the run after a run whose
\* configure succeeded with the same request does not configure again.
Idempotent ==
    (pc = "reconciled" /\ SameRequest) => ~configure

\* Spec 4.1/4.2, the configure decision for a repeated request: CMake runs
\* again exactly when the previous configure did not succeed, since the
\* cache snapshot is only replaced by a successful configure.  A failed
\* CMake run (exit at line 741) may already have written CMakeCache.txt.
ConfigureWhenNeeded ==
    (pc = "reconciled" /\ RepeatedRequest) => (configure <=> ~prev.ok)

=============================================================================
