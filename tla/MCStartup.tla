----------------------------- MODULE MCStartup --------------------------------
\* Startup with the values TLC gives its constants (the Startup*.cfg files).
EXTENDS Startup
=============================================================================
