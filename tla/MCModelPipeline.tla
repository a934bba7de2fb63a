-------------------------- MODULE MCModelPipeline --------------------------
(* Four files: an interface that calls foo of A; foo of A, which calls parse; *)
(* the interface of B, whose foo and parse are in its file and are found last *)
(* of all; and the structure that a function reads.  The name of oo, in the   *)
(* file of that structure, is in the entries of foo.                          *)
EXTENDS ModelPipeline

MCFiles     == {"IA.cpp", "A.cpp", "IB.cpp", "P.cpp"}
MCFunctions == {"IA", "HwA", "A::foo", "IB", "B::foo", "S::parse", "P::read", "P::oo"}
MCRaws      == {"r", "s", "t"}
MCFileOf == [f \in MCFunctions |->
  CASE f \in {"IA", "HwA"} -> "IA.cpp" [] f \in {"A::foo", "S::parse"} -> "A.cpp"
    [] f \in {"IB", "B::foo"} -> "IB.cpp" [] f \in {"P::read", "P::oo"} -> "P.cpp"]
MCKind == [f \in MCFunctions |->
  CASE f \in {"IA", "IB"} -> "interface" [] f = "HwA" -> "hardware"
    [] f \in {"A::foo", "B::foo", "P::oo"} -> "misc" [] f = "S::parse" -> "special"
    [] f = "P::read" -> "structure"]
MCLast == [f \in MCFunctions |->
  CASE f \in {"A::foo", "B::foo"} -> "foo" [] OTHER -> f]
MCWithin == [f \in MCFunctions |->
  {g \in MCFunctions : MCLast[g] = MCLast[f] \/ (f = "P::oo" /\ MCLast[g] = "foo")}]
MCCalls == [f \in MCFunctions |->
  CASE f = "IA" -> {"A::foo"} [] f = "A::foo" -> {"S::parse"}
    [] f = "S::parse" -> {"P::read", "B::foo", "P::oo"} [] OTHER -> {}]
MCReads  == [f \in MCFunctions |-> IF f = "P::read" THEN {"r"} ELSE {}]
MCFields == [r \in MCRaws |-> CASE r = "r" -> {"s"} [] r = "s" -> {"t", "r"} [] OTHER -> {}]
=============================================================================
