---------------------------- MODULE MCTilePipeline ----------------------------
(***************************************************************************)
(* An instance of TilePipeline: for the ring, the K stages of three tiles, *)
(* more than it holds, none, and fewer; for the other loops a tile of one  *)
(* stage, and of three, which comes back to the first buffer.              *)
(***************************************************************************)
EXTENDS TilePipeline

LongEmptyShort == <<4, 0, 2>>
OneAndThree == {1, 3}
===============================================================================
