------------------------ MODULE MCContextLinking -------------------------
(* A small instance of ContextLinking: two tasks, so that one outlives the  *)
(* event whose listener started it.                                         *)
EXTENDS ContextLinking, TLC

CONSTANTS t1, t2

MCTask     == {t1, t2}
\* Every kind of traceparent; a tracestate beside one that names a remote span
\* (and one such without), and beside one that cannot be read.
MCCarriers == {<<"none", FALSE>>, <<"bad", TRUE>>, <<"sampled", FALSE>>,
               <<"sampled", TRUE>>, <<"unsampled", TRUE>>}

\* No definition names a task.
MCSymmetry == Permutations(MCTask)
=============================================================================
