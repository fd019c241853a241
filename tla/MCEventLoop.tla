---------------------------- MODULE MCEventLoop ----------------------------
(* Model-checking instance of EventLoop: two foreign threads and three    *)
(* functors, enough for a functor queued by a foreign thread, one queued  *)
(* by a running functor and one queued by an io callback to coexist.      *)
EXTENDS EventLoop

MCMaxTasks == 3
=============================================================================
