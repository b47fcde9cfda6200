---------------------------- MODULE MCHarnessUpdate ----------------------------
\* A text of two hunks and a binary file.  The hunks are alike, so that the
\* owner's one edit may be of the first.
EXTENDS HarnessUpdate

CONSTANTS text, image, h1, h2

MCChanging == [p \in Path |-> IF p = text THEN {h1, h2, Mode} ELSE {h1}]
MCEditing == [p \in Path |-> IF p = text THEN {h1, Mode} ELSE {h1}]
MCFirst == [p \in Path |-> [f \in Field |-> 0]]
=============================================================================
