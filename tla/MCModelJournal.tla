--------------------------- MODULE MCModelJournal ---------------------------
EXTENDS ModelJournal

Prefix == <<"P", "Q">>
OneCall == {"call"}
Strict == {"strict-prefix"}
RepeatsPromptedCall == {[prompted |-> TRUE, provider |-> {<<"a", "P", "Q", "call">>}, tails |-> {}]}
=============================================================================
