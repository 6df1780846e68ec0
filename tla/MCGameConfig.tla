---------------------------- MODULE MCGameConfig -----------------------------
(* Two settings, one of them in settings.env.                               *)
EXTENDS GameConfig, TLC

SomeBase == "s" :> "b"
=============================================================================
