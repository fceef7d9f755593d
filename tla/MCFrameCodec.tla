---------------------------- MODULE MCFrameCodec -----------------------------
(***************************************************************************)
(* An instance of FrameCodec: an empty payload, one that ends in the       *)
(* beginning of a header and one that is all magic.                        *)
(***************************************************************************)
EXTENDS FrameCodec

MCPayloads == {<<>>, <<1, 2, 3>>, <<1, 1, 2>>}
MCBytes == {1, 2, 3, 5}
=============================================================================
