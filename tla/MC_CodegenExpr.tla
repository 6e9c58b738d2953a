--------------------------- MODULE MC_CodegenExpr ---------------------------
EXTENDS CodegenExpr

\* One name; the numbers 1 and -1 and one that is lost in six digits.
MCNames == {"a"}
MCNumbers == {10, -10, 3}
=============================================================================
