---------------------------- MODULE MCMemorySync ----------------------------
(***************************************************************************)
(* Small instances of MemorySync for TLC.                                  *)
(***************************************************************************)
EXTENDS MemorySync, TLC

CONSTANTS a, b, p, q

MCHosts == {a, b}
MCProcs == {p, q}

\* One command at a time on each of two hosts.
OnePerHost == p :> a @@ q :> b

\* Two processes of one host.
Together == p :> a @@ q :> a

MCLeaves == p :> {"action", "reflection"} @@ q :> {"reflection"}

=============================================================================
