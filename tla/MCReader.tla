------------------------------ MODULE MCReader ------------------------------
EXTENDS ReaderRequests, MCBook
=============================================================================
