-------------------------- MODULE MCCacheDatabase --------------------------
(* Instance of CacheDatabase for TLC.                                        *)
EXTENDS CacheDatabase
=============================================================================
