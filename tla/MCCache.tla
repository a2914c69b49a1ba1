------------------------------- MODULE MCCache -------------------------------
(***************************************************************************)
(* The artifact cache with its history of uses, over the names and         *)
(* artifacts of MCCacheKeys.                                               *)
(***************************************************************************)
EXTENDS CacheRecency, MCCacheKeys
=============================================================================
