--------------------------- MODULE GpuModelLease ---------------------------
(***************************************************************************)
(* What the runtime resource arbiter promises to the pipeline: one GPU     *)
(* model lease.  A model is published as ready only while its service      *)
(* holds the lease, and the lease passes from one service to another only  *)
(* through a moment at which nobody holds it and no model is ready.        *)
(***************************************************************************)
CONSTANTS Service, NoService

VARIABLES holder,  \* the service that holds the lease, or NoService
          ready    \* the services whose model is published as ready

lease == <<holder, ready>>

Init == holder = NoService /\ ready = {}

\* A service takes the lease, or goes back to work on the lease it holds.
Occupy(s) ==
  /\ holder \in {NoService, s}
  /\ holder' = s
  /\ ready' = {}

\* The holder's model becomes usable.
Publish(s) ==
  /\ holder = s
  /\ ready' = {s}
  /\ UNCHANGED holder

\* The holder gives the lease back; its model is no longer usable.
Vacate(s) ==
  /\ holder = s
  /\ holder' = NoService
  /\ ready' = {}

Next == \E s \in Service : Occupy(s) \/ Publish(s) \/ Vacate(s)

Spec == Init /\ [][Next]_lease
=============================================================================
