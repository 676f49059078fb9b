--------------------------- MODULE MCItemQueries ---------------------------
EXTENDS ItemQueries

\* Two names that hold all characters LIKE treats apart, and what to look for.
MCNameTexts == << <<"A", "%">>, <<"a", "\\", "_">> >>
MCSearches == {<<"a">>, <<"%">>, <<"_">>, <<"\\", "_">>, <<>>}
=============================================================================
