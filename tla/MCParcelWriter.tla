--------------------------- MODULE MCParcelWriter ---------------------------
(* ParcelWriter alone, on WriterData.                                         *)
EXTENDS ParcelWriter, WriterData

ASSUME WriterAssumption /\ ElementsFollow /\ SizesWhole /\ ArgumentsWhole /\ ParametersFit
=============================================================================
