---------------------------- MODULE MCFileWatcher ----------------------------
EXTENDS FileWatcher
=============================================================================
