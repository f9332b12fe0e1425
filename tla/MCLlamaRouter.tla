--------------------------- MODULE MCLlamaRouter ---------------------------
(* Small instances of LlamaRouter for TLC. *)
EXTENDS LlamaRouter, TLC

CONSTANTS crop, spotting, gemma, app, batch, prewarm, manual, gui, r1, r2

MCPairs == {crop, spotting}
MCOnePair == {crop}
MCBatch == {batch}
MCBatchWorker == {batch, prewarm}
MCManual == {manual}
MCClosing == {gui}
MCEmpty == {}
MCOneRequest == {r1}
MCTwoRequests == {r1, r2}

MCSymmetry == Permutations(MCPairs)
MCRequestSymmetry == MCSymmetry \cup Permutations(MCTwoRequests)
=============================================================================
