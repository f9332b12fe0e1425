-------------------------- MODULE MCCheckpointStore --------------------------
(* Two stores on one sidecar; two results of different fingerprints that    *)
(* share an object, as two settings that detect the same blocks do.         *)
EXTENDS CheckpointStore

CONSTANTS r1, r2, a, b, s1, s2, p1

\* A batch; and the batch, the edits and the menu of a second instance.
MCCalls(s) == IF s = s1 THEN {"record", "lookup"} ELSE {"record", "invalidate", "clean"}
MCStage == {"ocr", "render"}
MCFingerprint(r) == IF r = r1 THEN 1 ELSE 2
MCParts(r) == IF r = r1 THEN {a} ELSE {a, b}
=============================================================================
