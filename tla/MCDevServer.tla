----------------------------- MODULE MCDevServer -----------------------------
(* A small instance of DevServer for TLC. *)
EXTENDS DevServer

Plugin(emit, serve) == [emit |-> emit, serve |-> serve]

\* a client build with its server, one without, and one whose mappers nobody harvests
SomePlugins == {Plugin(TRUE, TRUE), Plugin(TRUE, FALSE), Plugin(FALSE, TRUE)}
=============================================================================
