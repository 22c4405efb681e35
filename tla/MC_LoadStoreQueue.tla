------------------------- MODULE MC_LoadStoreQueue -------------------------
EXTENDS LoadStoreQueue
=============================================================================
