----------------------------- MODULE MCUndoIndex -----------------------------
EXTENDS UndoIndex

=============================================================================
