---------------------------- MODULE MCOpcodeGen ----------------------------
EXTENDS OpcodeGen

\* Two opcode names; builtins "ABS" and "abs" differ only in case.
MCNames == {"Abs", "Sin"}
MCSpellings == {"ABS", "abs", "SIN"}
MCFold(s) == IF s = "ABS" THEN "abs" ELSE IF s = "SIN" THEN "sin" ELSE s
MCOpcodes == {0, 1}
=============================================================================
