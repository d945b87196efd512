---------------------------- MODULE MCBenchCapture ----------------------------
(* Layouts for TLC: one bank, two of which one has strings of two lengths, three, and none. *)
EXTENDS BenchCapture

MCLayouts == {<<2, 0, 0, 0, 0, 1>>, <<1, 2, 1, 0, 0, 0>>, <<1, 0, 1, 2, 0, 0>>, <<0, 0, 0, 0, 0, 0>>}
=============================================================================
