---------------------------- MODULE MCPipeline ----------------------------
(* Pipeline instantiated for TLC. *)
EXTENDS Pipeline

Screen(p, n) == [pixels |-> p, size |-> n]

OnePicture == {Screen("a", 2)}

\* Two display modes whose pictures have the same bytes.
TwoModes == {Screen("a", 2), Screen("a", 4)}
=============================================================================
