------------------------------ MODULE OpcodeGen ------------------------------
(***************************************************************************)
(* The three generators in deploy/ that turn tdishr/opcodes.csv into C:    *)
(* gen-include-opcbuiltins.py writes include/opcbuiltins.h (one OPC(...)   *)
(* line per row), gen-include-tdishr.py writes include/tdishr.h (extern    *)
(* declarations Opc<name>, Tdi<name>, _Tdi<name> per row) and              *)
(* gen-tdishr-TdiHash.py writes tdishr/TdiHash.c, the perfect hash         *)
(* tdi_hash() that maps a builtin's name, ignoring case, to its opcode,    *)
(* by running gperf on an intermediary file.  The scripts are independent  *)
(* processes that share only the CSV, which none of them writes; the order *)
(* they run in is left free and changes no output.  The CSV's contents,    *)
(* the GPERF variable and whether gperf is on PATH are the inputs, chosen  *)
(* in Init.  A row keeps the columns the properties tell apart: name,      *)
(* builtin and opcode.                                                     *)
(***************************************************************************)
EXTENDS Naturals, Sequences, SequencesExt

CONSTANTS
    Names,          \* values of the `name` column
    Spellings,      \* values of the `builtin` column
    Fold(_),        \* a spelling in lower case (gperf's %ignore-case)
    Opcodes,        \* values of the `opcode` column
    MaxRows,        \* bound: rows of opcodes.csv
    NoValue,        \* Python None; the variable GPERF is not set
    Stale           \* an output file as it was before the script ran

Scripts == {"opcbuiltins", "tdishr", "hash"}

Rows == [name : Names, builtin : Spellings, opcode : Opcodes]
CSVs == UNION {[1..n -> Rows] : n \in 0..MaxRows}

\* Lines of gperf's output as far as they matter: `#line` directives, one
\* initializer per keyword, and the tdi_hash function copied from the
\* input's last section.  An empty stdout is the single empty line.  A
\* line is a tuple, a keyword line the pair <<builtin, opcode>>.
Directive == <<"#line">>
TdiHashFn == <<"tdi_hash">>
EmptyLine == <<"">>
Entries == Spellings \X Opcodes
Lines == {Directive, TdiHashFn, EmptyLine} \cup Entries

VARIABLES
    csv,        \* tdishr/opcodes.csv, its rows in order
    gperf_env,  \* os.environ['GPERF']: NoValue, "working" or "broken"
    on_path,    \* an executable `gperf` is on PATH
    pc,         \* script -> position
    status,     \* script -> exit status, NoValue while running
    gperf,      \* the gperf the TdiHash script located (line 27-30)
    in_file,    \* tdishr/TdiHash.c.in: its keyword lines, or NoValue
    stdout,     \* gperf's stdout split into lines, NoValue before it ran
    hash_c,     \* tdishr/TdiHash.c: Stale or a sequence of Lines
    opc_h,      \* include/opcbuiltins.h: Stale or its OPC rows
    tdishr_h    \* include/tdishr.h: Stale or its extern declarations

vars == <<csv, gperf_env, on_path, pc, status, gperf, in_file, stdout,
          hash_c, opc_h, tdishr_h>>

Init ==
    /\ csv \in CSVs
    /\ gperf_env \in {NoValue, "working", "broken"}
    /\ on_path \in BOOLEAN
    /\ pc = [s \in Scripts |-> "start"]
    /\ status = [s \in Scripts |-> NoValue]
    /\ gperf = NoValue
    /\ in_file = NoValue
    /\ stdout = NoValue
    /\ hash_c = Stale
    /\ opc_h = Stale
    /\ tdishr_h = Stale

Exit(s, code) ==
    /\ status' = [status EXCEPT ![s] = code]
    /\ pc' = [pc EXCEPT ![s] = "exited"]

-----------------------------------------------------------------------------
(* gen-include-opcbuiltins.py *)

\* Lines 22-41: one OPC(name, builtin, ...) line per row, in file order.
OpcLines(rows) == [i \in DOMAIN rows |-> [name |-> rows[i].name,
                                          builtin |-> rows[i].builtin]]

GenOpcBuiltins ==
    /\ pc["opcbuiltins"] = "start"
    /\ opc_h' = OpcLines(csv)
    /\ Exit("opcbuiltins", 0)
    /\ UNCHANGED <<csv, gperf_env, on_path, gperf, in_file, stdout, hash_c,
                   tdishr_h>>

-----------------------------------------------------------------------------
(* gen-include-tdishr.py *)

\* Mutant: the last row left out.
OpcodeNamesDropLast(rows) == [i \in 1..Len(rows) - 1 |-> rows[i].name]

\* Lines 14-19: the `name` column, in file order.
OpcodeNames(rows) == [i \in DOMAIN rows |-> rows[i].name]

\* Lines 57-70: three loops over the names, one per kind of declaration.
Declarations(names) ==
    LET Decl(kind) == [i \in DOMAIN names |-> <<kind, names[i]>>]
    IN Decl("Opc") \o Decl("Tdi") \o Decl("_Tdi")

GenTdiShr ==
    /\ pc["tdishr"] = "start"
    /\ tdishr_h' = Declarations(OpcodeNames(csv))
    /\ Exit("tdishr", 0)
    /\ UNCHANGED <<csv, gperf_env, on_path, gperf, in_file, stdout, hash_c,
                   opc_h>>

-----------------------------------------------------------------------------
(* gen-tdishr-TdiHash.py *)

\* Lines 27-34 (with the `which` fallback of lines 9-17): GPERF if set,
\* else gperf from PATH; neither exits with status 1.
Locate ==
    /\ pc["hash"] = "start"
    /\ LET g == IF gperf_env # NoValue THEN gperf_env
                ELSE IF on_path THEN "path" ELSE NoValue
       IN /\ gperf' = g
          /\ IF g = NoValue THEN Exit("hash", 1)
             ELSE pc' = [pc EXCEPT !["hash"] = "input"] /\ UNCHANGED status
    /\ UNCHANGED <<csv, gperf_env, on_path, in_file, stdout, hash_c, opc_h,
                   tdishr_h>>

\* Mutant: the row's position taken for its opcode.
KeywordsByPosition(rows) == [i \in DOMAIN rows |-> <<rows[i].builtin, i - 1>>]

\* Lines 64-79: a `builtin,opcode` keyword line per row, in file order.
Keywords(rows) == [i \in DOMAIN rows |-> <<rows[i].builtin, rows[i].opcode>>]

\* Lines 36-89: the intermediary file: options, keywords, tdi_hash.
GenerateInput ==
    /\ pc["hash"] = "input"
    /\ in_file' = Keywords(csv)
    /\ pc' = [pc EXCEPT !["hash"] = "gperf"]
    /\ UNCHANGED <<csv, gperf_env, on_path, status, gperf, stdout, hash_c,
                   opc_h, tdishr_h>>

\* The options of lines 41-51: with %ignore-case gperf rejects two keywords
\* that differ only in case, printing nothing on stdout; otherwise it
\* emits the keyword table and copies the section after the second %%.
GperfAccepts(kw) ==
    \A i, j \in DOMAIN kw : i # j => Fold(kw[i][1]) # Fold(kw[j][1])
GperfOutput(kw) ==
    IF GperfAccepts(kw) THEN <<Directive>> \o kw \o <<Directive, TdiHashFn>>
    ELSE <<EmptyLine>>

\* Lines 91-99: Popen(['gperf', ...]) runs the gperf on PATH whatever
\* `gperf` holds; without one it raises FileNotFoundError, uncaught, and the
\* script dies with status 1.  communicate() waits for gperf; its exit
\* status is not looked at.
RunGperf ==
    /\ pc["hash"] = "gperf"
    /\ IF on_path
          THEN /\ stdout' = GperfOutput(in_file)
               /\ pc' = [pc EXCEPT !["hash"] = "remove"]
               /\ UNCHANGED status
          ELSE Exit("hash", 1) /\ UNCHANGED stdout
    /\ UNCHANGED <<csv, gperf_env, on_path, gperf, in_file, hash_c, opc_h,
                   tdishr_h>>

\* Line 101.
RemoveInput ==
    /\ pc["hash"] = "remove"
    /\ in_file' = NoValue
    /\ pc' = [pc EXCEPT !["hash"] = "output"]
    /\ UNCHANGED <<csv, gperf_env, on_path, status, gperf, stdout, hash_c,
                   opc_h, tdishr_h>>

\* Mutant: gperf's output written as it is.
WriteOutputUnfiltered ==
    /\ pc["hash"] = "output"
    /\ hash_c' = stdout
    /\ Exit("hash", 0)
    /\ UNCHANGED <<csv, gperf_env, on_path, gperf, in_file, stdout, opc_h,
                   tdishr_h>>

\* Lines 103-114: the lines except `#line` directives are written to
\* TdiHash.c and the script ends with status 0.
WriteOutput ==
    /\ pc["hash"] = "output"
    /\ hash_c' = SelectSeq(stdout, LAMBDA l : l # Directive)
    /\ Exit("hash", 0)
    /\ UNCHANGED <<csv, gperf_env, on_path, gperf, in_file, stdout, opc_h,
                   tdishr_h>>

\* tdi_hash(len, name) of lines 84-88 compiled from TdiHash.c: the opcode
\* of the keyword equal to `name` ignoring case, -1 for none; "undefined"
\* when the file defines no tdi_hash.
TdiHash(file, name) ==
    LET hits == {e \in Range(file) \cap Entries : Fold(e[1]) = Fold(name)}
    IN CASE TdiHashFn \notin Range(file) -> NoValue
         [] hits = {}                   -> -1
         [] OTHER                       -> (CHOOSE e \in hits : TRUE)[2]

-----------------------------------------------------------------------------
\* All scripts have exited.
Done ==
    /\ \A s \in Scripts : status[s] # NoValue
    /\ UNCHANGED vars

Next ==
    \/ GenOpcBuiltins \/ GenTdiShr
    \/ Locate \/ GenerateInput \/ RunGperf \/ RemoveInput \/ WriteOutput
    \/ Done

Spec == Init /\ [][Next]_vars

-----------------------------------------------------------------------------
TypeOK ==
    /\ csv \in CSVs
    /\ pc \in [Scripts -> {"start", "input", "gperf", "remove", "output", "exited"}]
    /\ status \in [Scripts -> {NoValue, 0, 1}]
    /\ gperf \in {NoValue, "working", "broken", "path"}
    /\ in_file = NoValue \/ in_file \in Seq(Entries)
    /\ stdout = NoValue \/ stdout \in Seq(Lines)
    /\ hash_c = Stale \/ hash_c \in Seq(Lines \ {Directive})
    /\ opc_h = Stale \/ opc_h \in Seq([name : Names, builtin : Spellings])
    /\ tdishr_h = Stale \/ tdishr_h \in Seq({"Opc", "Tdi", "_Tdi"} \X Names)

\* Both headers come from the same CSV rows: once both scripts have run,
\* the i-th declaration of each of the three blocks of tdishr.h names the
\* i-th OPC row of opcbuiltins.h, so every function an OPC(...) line refers
\* to is declared, and nothing else is.
HeadersAgree ==
    (status["opcbuiltins"] = 0 /\ status["tdishr"] = 0) =>
        LET n == Len(opc_h)
            kinds == <<"Opc", "Tdi", "_Tdi">>
        IN /\ Len(tdishr_h) = 3 * n
           /\ \A i \in 1..n, j \in 1..3 :
                 tdishr_h[(j - 1) * n + i] = <<kinds[j], opc_h[i].name>>

\* When TdiHash.c defines tdi_hash and opcbuiltins.h was written from the
\* same CSV, tdi_hash resolves exactly the builtins of the OPC table, each
\* to the opcode of its own row.
HashResolvesOpcTable ==
    (status["hash"] = 0 /\ opc_h # Stale /\ TdiHashFn \in Range(hash_c)) =>
        /\ \A i \in DOMAIN opc_h : TdiHash(hash_c, opc_h[i].builtin) = csv[i].opcode
        /\ \A b \in Spellings :
              TdiHash(hash_c, b) # -1 =>
                  \E i \in DOMAIN opc_h : Fold(opc_h[i].builtin) = Fold(b)

\* What gen-tdishr-TdiHash.py promises its caller: exit status 0 means
\* TdiHash.c defines tdi_hash resolving every builtin of the CSV to its
\* opcode, and, as the message of line 33 says, with GPERF naming a
\* working gperf the script generates the hash for a CSV gperf accepts.
\* The script ignores gperf's exit status (line 98) and runs `gperf` from
\* PATH instead of GPERF (line 93).
GeneratorContract ==
    status["hash"] # NoValue =>
        /\ status["hash"] = 0 =>
              \A i \in DOMAIN csv : TdiHash(hash_c, csv[i].builtin) = csv[i].opcode
        /\ (gperf_env = "working" /\ GperfAccepts(Keywords(csv))) =>
              status["hash"] = 0
=============================================================================
