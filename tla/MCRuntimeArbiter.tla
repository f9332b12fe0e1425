-------------------------- MODULE MCRuntimeArbiter --------------------------
(* Small instance of RuntimeArbiter for TLC. *)
EXTENDS RuntimeArbiter, TLC

CONSTANTS batch, prewarm, ocr, gemma, inpainter

MCThread == {batch, prewarm}
MCService == {ocr, gemma, inpainter}
MCExternal == {inpainter}

\* Without a release inside a start's body, whose effect a run of its own shows.
MCNestings == NestingKinds \ {<<"start", "body", "release">>}

\* Threads are interchangeable, and so are the two managed services.
MCSymmetry == Permutations({batch, prewarm}) \cup Permutations({ocr, gemma})
=============================================================================
