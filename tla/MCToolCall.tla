----------------------------- MODULE MCToolCall -----------------------------
(***************************************************************************)
(* ToolCall with the configurations, callers and tools TLC tries: both     *)
(* transports, tokens of either scope or both, a read-only server, with    *)
(* and without a deadline, every sampler; every tool and an unknown one.   *)
(***************************************************************************)
EXTENDS ToolCall

Setup(http, insecure, write, read, readonly, deadline, sampler) ==
  [http |-> http, insecure |-> insecure, write |-> write, read |-> read,
   readonly |-> readonly, deadline |-> deadline, sampler |-> sampler]

MCSetups ==
  {Setup(FALSE, FALSE, Unset, Unset, FALSE, TRUE, "always_on"),
   Setup(TRUE, TRUE, Unset, Unset, FALSE, FALSE, "off"),
   Setup(TRUE, FALSE, "A", "B", FALSE, TRUE, "parentbased"),
   Setup(TRUE, FALSE, "A", "B", TRUE, FALSE, "off"),
   Setup(TRUE, FALSE, Unset, "B", FALSE, FALSE, "parentbased"),
   Setup(TRUE, FALSE, "A", Unset, FALSE, FALSE, "always_on"),
   Setup(TRUE, FALSE, "A", "A", FALSE, FALSE, "off")}

MCCallers == {NoHeader} \cup [scheme : {"bearer"}, token : {"A", "B", "X"}]
               \cup [scheme : {"basic"}, token : {"A"}]

Unregistered == Form("drop_database", "POST", "database", {})
MCCallable == ReadTools \cup WriteTools \cup {Unregistered}

MCGiven == {"state", "distri", "async", "ASYNC", "Build", "BUILD"}
=============================================================================
