----------------------------- MODULE MCRecorder -----------------------------
(* Model-checking instance of Recorder: threads are interchangeable. *)
EXTENDS Recorder, TLC

ThreadSymmetry == Permutations(Thread)
=============================================================================
