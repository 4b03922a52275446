---------------------------- MODULE MCSwapChain ----------------------------
(***************************************************************************)
(* SwapChain with a few frames in flight and a few images.                  *)
(***************************************************************************)
EXTENDS SwapChain
=============================================================================
