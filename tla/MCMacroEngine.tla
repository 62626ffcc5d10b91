----------------------------- MODULE MCMacroEngine -----------------------------
\* Instances of MacroEngine: the real command sequences, a few of the macros
\* at a time, and an operator who may launch the same background commands.
EXTENDS MacroEngine
=============================================================================
