------------------------------ MODULE MCRunFvp ------------------------------
(* Small instance of RunFvp: the default console is the only one it reads.  *)
EXTENDS RunFvp

MCConsoleSeq == <<"default">>
=============================================================================
