------------------------------ MODULE PyDoMethod ------------------------------
(***************************************************************************)
(* tdi/dev_support/PyDoMethod.py: the bridge by which TDI calls a method of *)
(* a Python device.  One call: read the head node's conglomerate record,   *)
(* exec its qualifiers (which import the device class), look the class up  *)
(* in globals(), instantiate it, fetch the method and call it, retrying    *)
(* with the single argument None on TypeError, and turn any exception into *)
(* a status.  What the node, the qualifiers and the method do is the input: *)
(* chosen in Init where it is fixed before the call, and at each step where *)
(* it is the outcome of running foreign code.                              *)
(***************************************************************************)
EXTENDS Naturals

CONSTANTS
    Pythons,         \* interpreter major versions the module runs under
    MethodStatuses,  \* statuses a device method returns
    ErrStatus,       \* the .status of an MDSplus exception a method raises
    NOT_FOUND,       \* DevPYDEVICE_NOT_FOUND.status
    NOMETHOD,        \* TreeNOMETHOD.status
    NoValue          \* nothing yet

\* How one run of the method body ends: it returns a status, or raises a
\* TypeError, an MDSplus exception (which has .status), or another error.
Raises == {"TypeError", "StatusError", "OtherError"}
BodyOutcomes == MethodStatuses \cup Raises

VARIABLES
    py,              \* the interpreter's major version
    declares_global, \* the qualifier code itself declares the class `global`
    has_method,      \* the device class has an attribute named `method`
    arity,           \* positional parameters the method takes after self
    nargs,           \* len(args) passed by the caller
    pc,              \* position in PyDoMethod
    imported,        \* the qualifiers ran without raising
    in_globals,      \* `model in globals()` at line 16
    body_runs,       \* times the method body was entered (history)
    outcome,         \* how the last body run ended (history)
    exc,             \* the exception being handled
    status,          \* the status returned, NoValue while running
    escaped          \* the exception propagating to the caller, or NoValue

vars == <<py, declares_global, has_method, arity, nargs, pc, imported,
          in_globals, body_runs, outcome, exc, status, escaped>>

Init ==
    /\ py \in Pythons
    /\ declares_global \in BOOLEAN
    /\ has_method \in BOOLEAN
    /\ arity \in {0, 1}
    /\ nargs \in {0, 1}
    /\ pc = "record"
    /\ imported = FALSE
    /\ in_globals = FALSE
    /\ body_runs = 0
    /\ outcome = NoValue
    /\ exc = NoValue
    /\ status = NoValue
    /\ escaped = NoValue

Return(s) == status' = s /\ pc' = "done"
Raise(e)  == escaped' = e /\ pc' = "done"

\* Lines 6-15: reading the node's record, or running the qualifier code,
\* may raise outside any try.  Otherwise the code has run through
\* `exec(str(q)) in globals()`: in Python 2 the exec statement with the
\* module's globals as namespace; in Python 3 a call of exec() in the
\* function's own scope followed by a test of its result, so the import
\* binds the class in a snapshot of the locals, and globals() gains it only
\* if the code declares the name global.
Qualifiers ==
    /\ pc = "record"
    /\ \/ Raise("LoadError") /\ UNCHANGED <<imported, in_globals>>
       \/ /\ imported' = TRUE
          /\ in_globals' = (py = 2 \/ declares_global)
          /\ pc' = "lookup"
          /\ UNCHANGED escaped
    /\ UNCHANGED <<py, declares_global, has_method, arity, nargs, body_runs,
                   outcome, exc, status>>

\* Lines 16-19: no class of that name returns DevPYDEVICE_NOT_FOUND;
\* otherwise the device is constructed, which may raise, still outside
\* the try.
Construct ==
    /\ pc = "lookup"
    /\ \/ ~in_globals /\ Return(NOT_FOUND) /\ UNCHANGED escaped
       \/ in_globals /\ Raise("ConstructError") /\ UNCHANGED status
       \/ in_globals /\ pc' = "getattr" /\ UNCHANGED <<status, escaped>>
    /\ UNCHANGED <<py, declares_global, has_method, arity, nargs, imported,
                   in_globals, body_runs, outcome, exc>>

\* Lines 20-24: a missing method returns TreeNOMETHOD.
GetMethod ==
    /\ pc = "getattr"
    /\ \/ ~has_method /\ Return(NOMETHOD)
       \/ has_method /\ pc' = "call" /\ UNCHANGED status
    /\ UNCHANGED <<py, declares_global, has_method, arity, nargs, imported,
                   in_globals, body_runs, outcome, exc, escaped>>

\* Calling the method with n arguments: a mismatch with its parameters is
\* a TypeError raised before the body runs; otherwise the body runs and
\* ends one way or another.  A TypeError goes to `on_type_error`, any other
\* exception to the outer handler of line 32.
Invoke(n, on_type_error) ==
    \/ /\ n # arity
       /\ exc' = "TypeError"
       /\ pc' = on_type_error
       /\ UNCHANGED <<body_runs, outcome, status>>
    \/ /\ n = arity
       /\ body_runs' = body_runs + 1
       /\ \E o \in BodyOutcomes :
            /\ outcome' = o
            /\ CASE o = "TypeError" -> exc' = o /\ pc' = on_type_error /\ UNCHANGED status
                 [] o \in Raises    -> exc' = o /\ pc' = "handler" /\ UNCHANGED status
                 [] OTHER           -> Return(o) /\ UNCHANGED exc

\* Lines 25-27: methodobj(*args); a TypeError goes to the retry.
Call ==
    /\ pc = "call"
    /\ Invoke(nargs, "retry")
    /\ UNCHANGED <<py, declares_global, has_method, arity, nargs, imported,
                   in_globals, escaped>>

\* Lines 28-31: after printing that no argument was needed, methodobj(None)
\* is called; whatever it raises goes to the outer handler.
Retry ==
    /\ pc = "retry"
    /\ Invoke(1, "handler")
    /\ UNCHANGED <<py, declares_global, has_method, arity, nargs, imported,
                   in_globals, escaped>>

\* Lines 32-37: the handler writes the error to stderr and then evaluates
\* hasattr(exc, 'status').  No name `exc` is bound in the function or the
\* module, so this raises NameError, which replaces the method's exception.
Handler ==
    /\ pc = "handler"
    /\ Raise("NameError")
    /\ UNCHANGED <<py, declares_global, has_method, arity, nargs, imported,
                   in_globals, body_runs, outcome, exc, status>>

Done ==
    /\ pc = "done"
    /\ UNCHANGED vars

Next == Qualifiers \/ Construct \/ GetMethod \/ Call \/ Retry
        \/ Handler \/ Done

Spec == Init /\ [][Next]_vars /\ WF_vars(Next)

-----------------------------------------------------------------------------
TypeOK ==
    /\ py \in Pythons
    /\ {declares_global, has_method, imported, in_globals} \subseteq BOOLEAN
    /\ arity \in {0, 1} /\ nargs \in {0, 1}
    /\ pc \in {"record", "lookup", "getattr", "call", "retry",
               "handler", "done"}
    /\ body_runs \in 0..2
    /\ outcome \in BodyOutcomes \cup {NoValue}
    /\ exc \in Raises \cup {NoValue}
    /\ status \in MethodStatuses \cup {NOT_FOUND, NOMETHOD, 0, ErrStatus, NoValue}
    /\ escaped \in {"LoadError", "ConstructError", "NameError", NoValue}

\* What the method reported, as lines 26 and 34-37 mean to return it: its
\* status, the .status of an MDSplus exception, 0 for any other error.
Reported(o) == CASE o \in MethodStatuses -> o
                 [] o = "StatusError"    -> ErrStatus
                 [] OTHER                -> 0

\* The contract of PyDoMethod once the qualifiers imported the device class,
\* the device was built and it has the method: the method body runs exactly
\* once, and the call returns what that run reported.
DispatchesOnce ==
    (pc = "done" /\ imported /\ has_method /\ escaped # "ConstructError"
                 /\ arity \in {nargs, 1}) =>
        /\ body_runs = 1
        /\ status = Reported(outcome)
=============================================================================
