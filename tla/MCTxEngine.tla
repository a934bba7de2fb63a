----------------------------- MODULE MCTxEngine -----------------------------
(* Small sets of transactions, interfaces and dependencies for TxEngine. *)
EXTENDS TxEngine

OnTx(S) == {[type |-> "Transaction", name |-> n] : n \in S}
OnStruct(S) == {[type |-> "Structure", name |-> n] : n \in S}
Value(deps) == [binder |-> FALSE, deps |-> deps]
Binder(deps) == [binder |-> TRUE, deps |-> deps]

(* Nested: a session is a multi-level interface that comes from open, which   *)
(* takes a value that a session call or the listing of sessions replies with. *)
(* A session may also be made by hand, and so is the registry when it is not  *)
(* registered.                                                                *)
NestedTx == {"open", "call", "list"}
NestedName == NestedTx \cup {"Info", "gone"}
NestedIface == [t \in NestedTx |-> CASE t = "open" -> "IManager"
                                     [] t = "call" -> "ISession"
                                     [] t = "list" -> "IRegistry"]
NestedService == [t \in NestedTx |-> CASE t = "open" -> "manager"
                                       [] t = "call" -> "None"
                                       [] t = "list" -> "registry"]
NestedIfaceDeps == [t \in NestedTx |-> IF t = "call" THEN {"open"} ELSE {}]
NestedItems == [t \in NestedTx |->
                  CASE t = "open" -> <<Value(OnTx({"call"})), Value(OnTx({"list"}))>>
                    [] t = "call" -> <<>>
                    [] t = "list" -> <<Binder(OnTx({"open", "gone"}) \cup OnStruct({"Info"}))>>]
NestedStructDeps == [s \in {"Info"} |-> {"open"}]

(* Checked: four transactions of one registered service, each of which takes *)
(* a value or a binder from the others.                                       *)
CheckedTx == {"a", "b", "c", "d"}
CheckedIface == [t \in CheckedTx |-> "IManager"]
CheckedService == [t \in CheckedTx |-> "manager"]
CheckedIfaceDeps == [t \in CheckedTx |-> {}]
CheckedItems == [t \in CheckedTx |->
                   CASE t = "a" -> <<Value(OnTx({"b", "c"}))>>
                     [] t = "b" -> <<Binder(OnTx({"c", "a"})), Value(OnTx({"d"}))>>
                     [] t = "c" -> <<Value(OnTx({"a", "d"}))>>
                     [] t = "d" -> <<Value(OnTx({"a", "b"}))>>]
NoStruct == [s \in {} |-> {}]
=============================================================================
