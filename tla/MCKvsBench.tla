----------------------------- MODULE MCKvsBench -----------------------------
(***************************************************************************)
(* kvsbench for TLC: three keys with the probabilities 30, 30 and 40, two  *)
(* of them small, and random numbers that hit each of them.                *)
(***************************************************************************)
EXTENDS KvsBench

CONSTANTS k1, k2, k3

MCKeySeq == <<k1, k2, k3>>
MCCdf == <<30, 60, 100>>
=============================================================================
