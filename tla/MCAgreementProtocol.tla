------------------------ MODULE MCAgreementProtocol ------------------------
(***************************************************************************)
(* Symmetry and state constraints for TLC.                                 *)
(***************************************************************************)
EXTENDS AgreementProtocol, TLC

Symmetry == Permutations(Ags)

\* Two ids: few messages and commands are under way at a time.
FewInFlight ==
  /\ Cardinality(net) <= 2 /\ Cardinality(gcmds) + Cardinality(cont) <= 1
  /\ Cardinality(terminating) <= 1

\* Restarts of the agent: something is lost or the agent stops, not both.
OneFault == spent.loss + spent.agent <= 1
=============================================================================
