----------------------------- MODULE MCMonitors -----------------------------
(* Two threads use an object of a subclass: a synchronized method declared  *)
(* by the superclass locks "base", everything else the object's own "self". *)
EXTENDS Monitors

MCMethodMonitors == {"base", "self"}
MCObjectMonitors == {"self"}
=============================================================================
