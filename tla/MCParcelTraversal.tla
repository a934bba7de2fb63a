------------------------- MODULE MCParcelTraversal -------------------------
(* Small parcels for ParcelTraversal. *)
EXTENDS ParcelTraversal

Val(loops) == [loops |-> loops, array |-> FALSE, of |-> NoParcel]
Str(p) == [loops |-> <<>>, array |-> FALSE, of |-> p]
Arr(loops, p) == [loops |-> loops, array |-> TRUE, of |-> p]

\* A reply with an array, a structure and an array of structures, one with
\* nested loops around a value and an array, one with three loops around an
\* item, two loops in a row, and an inner loop of two items.
MCItems ==
  [flat  |-> <<Val(<<>>), Arr(<<>>, NoParcel), Str("info"), Val(<<>>)>>,
   list  |-> <<Arr(<<>>, "info"), Val(<<>>)>>,
   nest  |-> <<Val(<<>>), Val(<<"l1">>), Val(<<"l1", "l2">>), Arr(<<"l1">>, NoParcel), Val(<<>>)>>,
   deep  |-> <<Val(<<"l1">>), Val(<<"l1", "l2", "l3">>), Val(<<"l1">>), Val(<<>>)>>,
   row   |-> <<Val(<<"l1">>), Val(<<"l1">>), Val(<<"l2">>)>>,
   pair  |-> <<Val(<<"l1">>), Val(<<"l1", "l2">>), Val(<<"l1", "l2">>)>>,
   info  |-> <<Val(<<>>), Arr(<<>>, NoParcel), Val(<<>>)>>]
MCParcel == DOMAIN MCItems
=============================================================================
