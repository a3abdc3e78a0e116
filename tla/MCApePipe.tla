------------------------------ MODULE MCApePipe ------------------------------
\* ApePipe with the values TLC gives its constants (the ApePipe_*.cfg files).
EXTENDS ApePipe
=============================================================================
