----------------------------- MODULE MCConsole -----------------------------
\* Texts for module Console: shorter than a line, and over two lines with a
\* new line inside.
EXTENDS Console

SmallTexts == {<<"a">>, <<"b", "c">>, <<"d", "e", NL, "f">>}
SmallIdle  == <<"i", "d", "l", "e">>
=============================================================================
