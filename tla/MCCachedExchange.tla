-------------------------- MODULE MCCachedExchange --------------------------
(* Instance of CachedExchange for TLC: the engines are interchangeable.      *)
EXTENDS CachedExchange, TLC

EngineSymmetry == Permutations(Engine)
=============================================================================
