---------------------------- MODULE MCKeeperLoop ----------------------------
EXTENDS KeeperLoop
=============================================================================
