---------------------------- MODULE MCAutopilot ----------------------------
(* The suppliers of the sandbox (sandbox/generator.go), with small daily usages. *)
EXTENDS Autopilot

MCSuppliers ==
  { [lead |-> 1, weekdays |-> {1, 4}], [lead |-> 2, weekdays |-> {2, 5}],
    [lead |-> 3, weekdays |-> {3}], [lead |-> 1, weekdays |-> 1 .. 6] }

(* A busy Friday and a closed Sunday. *)
MCUsage == [day \in Weekdays |-> CASE day = 5 -> 2 [] day = 7 -> 0 [] OTHER -> 1]

=============================================================================
