------------------------------ MODULE MCSinks -------------------------------
(* Small instances of Sinks: one event of a name with two handlers and one  *)
(* that another producer, or a failing Emit, is behind.                     *)
EXTENDS Sinks

MCNameOf == [good |-> "n1", invalid |-> "n1", alien |-> "n2"]
MCKindOf == [good |-> "good", invalid |-> "invalid", alien |-> "alien"]
MCOnName == [h1 |-> "n1", h2 |-> "n1", h3 |-> "n2"]
=============================================================================
