---------------------------- MODULE MCRecorder -----------------------------
(* Bounded instance of Recorder for TLC. *)
EXTENDS Recorder
CONSTANTS t1, t2, a, b
MCThreads  == {t1, t2}
MCIds      == {a, b}
MCBare     == {b}
MCAnswers  == {a}
=============================================================================
