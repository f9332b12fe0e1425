----------------------------- MODULE StageCache -----------------------------
(***************************************************************************)
(* What the project's checkpoint cache promises the pipeline, whatever     *)
(* happens to the files beneath it: a stage of a page has at most one      *)
(* result; a new result of a stage takes the results computed from the old *)
(* one with it; and a client that asks is given a result that was in the   *)
(* cache, under the fingerprint it asked for, while it was asking - or      *)
(* nothing, at any time and for any reason.                                *)
(***************************************************************************)
CONSTANTS Client, Page, Stage, Result, None,
          Fingerprint(_),  \* the fingerprint a result was computed under
          Below(_)         \* the stages computed from a stage

VARIABLES cache,      \* the result of each stage of each page
          candidate,  \* per client: what its question found
          answer      \* per client: what it was told last

vars == <<cache, candidate, answer>>

Init ==
  /\ cache = [p \in Page |-> [st \in Stage |-> None]]
  /\ candidate = [c \in Client |-> None]
  /\ answer = [c \in Client |-> None]

\* The cache without the stages sts of the pages ps.
Without(ps, sts) ==
  [p \in Page |-> [st \in Stage |->
     IF p \in ps /\ st \in sts THEN None ELSE cache[p][st]]]

Record(p, st, r) ==
  /\ cache' = IF cache[p][st] \in {None, r}
              THEN [cache EXCEPT ![p][st] = r]
              ELSE [Without({p}, Below(st)) EXCEPT ![p][st] = r]
  /\ UNCHANGED <<candidate, answer>>

Invalidate(ps, sts) ==
  /\ \A st \in sts : Below(st) \cap Stage \subseteq sts
  /\ cache' = Without(ps, sts)
  /\ UNCHANGED <<candidate, answer>>

Find(c, p, st, f) ==
  /\ candidate[c] = None
  /\ cache[p][st] # None /\ Fingerprint(cache[p][st]) = f
  /\ candidate' = [candidate EXCEPT ![c] = cache[p][st]]
  /\ UNCHANGED <<cache, answer>>

Give(c) ==
  /\ candidate[c] # None
  /\ answer' = [answer EXCEPT ![c] = candidate[c]]
  /\ candidate' = [candidate EXCEPT ![c] = None]
  /\ UNCHANGED cache

\* A question that ends without a result, and the start of another one.
Miss(c) ==
  /\ answer' = [answer EXCEPT ![c] = None]
  /\ candidate' = [candidate EXCEPT ![c] = None]
  /\ UNCHANGED cache

Next ==
  \/ \E p \in Page, st \in Stage, r \in Result : Record(p, st, r)
  \/ \E ps \in SUBSET Page, sts \in SUBSET Stage : Invalidate(ps, sts)
  \/ \E c \in Client : Give(c) \/ Miss(c)
  \/ \E c \in Client, p \in Page, st \in Stage, r \in Result :
       Find(c, p, st, Fingerprint(r))

Spec == Init /\ [][Next]_vars
=============================================================================
