------------------------- MODULE MCDrmBufferObjects -------------------------
(* One thread has a command buffer and a host pointer fragment, both import *)
(* the same dma-buf.                                                        *)
EXTENDS DrmBufferObjects, TLC

CONSTANTS t1, t2, b1, f1

MCHolderOf == (b1 :> t1) @@ (f1 :> t1) @@ (pinBB :> Destroyer)
MCMaxCalls == (t1 :> 2) @@ (t2 :> 1)
=============================================================================
