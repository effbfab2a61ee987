----------------------------- MODULE MCKvsStore -----------------------------
(***************************************************************************)
(* The FlexKVS store with two workers, for TLC.  Clients of the first one  *)
(* store both keys, which share a bucket with one slot; clients of the     *)
(* second read and overwrite the small one.                                *)
(***************************************************************************)
EXTENDS KvsStore

CONSTANTS k1, k2

MCTraffic == {<<1, "set", k1>>, <<1, "set", k2>>, <<2, "get", k1>>, <<2, "set", k1>>}
=============================================================================
