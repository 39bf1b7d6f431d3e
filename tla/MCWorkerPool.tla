---------------------------- MODULE MCWorkerPool ----------------------------
(***************************************************************************)
(* A small instance of WorkerPool: two workers, two tracks, and more       *)
(* messages than the channel holds and the workers take before they fail.  *)
(***************************************************************************)
EXTENDS WorkerPool

AllModes == [blocking : BOOLEAN, shared : BOOLEAN, startable : BOOLEAN]
(* Whatever is run returns, except RunCapacity without its workflow file. *)
Returning == {m \in AllModes : m.blocking => m.startable}
Capacity  == {m \in AllModes : m.blocking}
=============================================================================
