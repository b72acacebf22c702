------------------------------ MODULE MCViewer ------------------------------
EXTENDS ReaderProperties, MCBook
=============================================================================
