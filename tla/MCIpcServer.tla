----------------------------- MODULE MCIpcServer -----------------------------
\* IpcServer with the values TLC gives its constants (the file IpcServer.cfg).
EXTENDS IpcServer
=============================================================================
