------------------------- MODULE MCConstraintCache -------------------------
(* Small parcels for ConstraintCache. *)
EXTENDS ConstraintCache

CONSTANTS len, x, y, z, ctr

MCVar == {len, x, y, z, ctr}

Node(opcode, lhs, rhs) == [opcode |-> opcode, lhs |-> lhs, rhs |-> rhs]
Join(opcode) == Node(opcode, NoVar, NoVar)
Under(name, b) == [name |-> name, status |-> b]

\* for (ctr = 0; ctr < len; ++ctr) { x; y, if x == 1 && !len; z, unless x, ... }
MCNode ==
  (<<"0">> :> Node("<", ctr, len))
  @@ (<<"1">> :> Join("&&"))
  @@ (<<"1", "lhs">> :> Node("==", x, 1)) @@ (<<"1", "rhs">> :> Node("!", len, NoVar))
  @@ (<<"2">> :> Node("", x, NoVar))
  @@ (<<"3">> :> Join("||"))
  @@ (<<"3", "lhs">> :> Node("<", y, x)) @@ (<<"3", "rhs">> :> Node("<", ctr, y))
  @@ (<<"4">> :> Node("!", NoVar, NoVar)) @@ (<<"4", "lhs">> :> Node("", z, NoVar))

MCConstraint == <<<<"0">>, <<"1">>, <<"2">>, <<"3">>, <<"4">>>>
MCUnder ==
  [v \in MCVar |->
     CASE v = y -> <<Under(<<"1">>, TRUE), Under(<<"2">>, TRUE)>>
       [] v = z -> <<Under(<<"2">>, FALSE), Under(<<"3">>, TRUE)>>
       [] OTHER -> <<>>]
MCParcel == <<len, x, y, z>>
MCLoop == [counter |-> ctr, constraint |-> <<"0">>]

\* What the theorems about junctions and guards suppose.
ASSUME MCScopeAssumption == CountersInScope /\ GuardsFound
=============================================================================
