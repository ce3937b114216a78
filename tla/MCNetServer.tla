------------------------------- MODULE MCNetServer -------------------------------
(* Two threads, two descriptors, which are compared and are numbers.         *)
EXTENDS NetServer
=============================================================================
