------------------------------ MODULE MCModels ------------------------------
(* The models of functions and the dependencies between them, in one run: a   *)
(* behaviour is that of Extraction with a function of SourceData, or that of  *)
(* DependencyInferer with the model files of MCDependencyInferer.             *)
EXTENDS MCDependencyInferer

VARIABLES tool, phase, source, trees, models
extractorVars == <<phase, source, trees, models>>

F == INSTANCE SourceData
FunctionSource == F!MCSource
FunctionValue  == F!MCValue
Extractor == INSTANCE Extraction WITH Source <- FunctionSource, Value <- FunctionValue

NothingExtracted == phase = "source" /\ source = <<>> /\ trees = <<>> /\ models = <<>>
Extracted == phase \in {"done", "failed"} /\ UNCHANGED extractorVars

MCInit == /\ Init
          /\ \/ tool = "extractor" /\ Extractor!Init
             \/ tool = "inferer" /\ NothingExtracted
MCNext == /\ UNCHANGED tool
          /\ \/ tool = "extractor" /\ (Extractor!Next \/ Extracted) /\ UNCHANGED all
             \/ tool = "inferer" /\ Next /\ UNCHANGED extractorVars
MCSpec == MCInit /\ [][MCNext]_<<tool, all, extractorVars>>

-----------------------------------------------------------------------------
(* The properties of Extraction, by the names that they have there.           *)
PathFound   == Extractor!PathFound
NoOtherPath == Extractor!NoOtherPath
LoopsNested == Extractor!LoopsNested
NamesUnique == Extractor!NamesUnique
GuardsKnown == Extractor!GuardsKnown
FoundAll    == Extractor!FoundAll
=============================================================================
