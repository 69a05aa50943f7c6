----------------------------- MODULE MCFvpTarget -----------------------------
(* Small instance of FvpTarget: two consoles, up to MaxFvps launches. *)
EXTENDS FvpTarget

MCConsoleSeq == <<"default", "tfa">>
=============================================================================
