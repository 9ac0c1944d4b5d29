----------------------------- MODULE MCLauncher -----------------------------
(* A small instance of Launcher: an API with a request and two streams,    *)
(* and the worker.  (The HTMX surface is a surface without such tasks.)    *)
EXTENDS Launcher

CONSTANTS r1, s1, s2

TwoServices == {"api", "worker"}
OneRequest  == {r1}
TwoStreams  == {s1, s2}
=============================================================================
