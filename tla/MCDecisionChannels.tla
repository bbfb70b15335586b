------------------------- MODULE MCDecisionChannels -------------------------
(***************************************************************************)
(* Ways the harness wires the channels, for TLC.                           *)
(***************************************************************************)
EXTENDS DecisionChannels

Wired(enabled, coverage, adapter, probe, director) ==
  [enabled |-> enabled, coverage |-> coverage, adapter |-> adapter,
   probe |-> probe, director |-> director]

\* attach_llm_channels, with the probe; without an adapter; switched off.
Attached == {Wired(TRUE, "llm", TRUE, TRUE, FALSE),
             Wired(TRUE, "llm", FALSE, TRUE, FALSE),
             Wired(FALSE, "fallback", TRUE, TRUE, FALSE)}

\* The channels with the scripted director, no probe.
Directed == {Wired(TRUE, "llm", TRUE, FALSE, TRUE)}

AllWired == Attached \union Directed

=============================================================================
