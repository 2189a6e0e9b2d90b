--------------------------- MODULE MCMessageStore ---------------------------
EXTENDS MessageStore

CONSTANTS m1, m2

TwoMessages == {m1, m2}
FirstMessage == {m1}
SecondMessage == {m2}
=============================================================================
