---------------------------- MODULE ModelPipeline ----------------------------
(***************************************************************************)
(* How the interface model is made, in rounds, from the files of Android:  *)
(* the collector, the compile commands, the extraction by the clang plugin *)
(* and the scripts of postprocess.sh.  They share lists on the disk.  What *)
(* a script finds out - functions that are handed a parcel - is for the    *)
(* next round; the user goes on until a round finds nothing new            *)
(* (service-related-file-collector/readme.md).  A tool that meets          *)
(* something it does not know ends; the user repairs it and starts it      *)
(* again.                                                                  *)
(*                                                                         *)
(* A function stands for itself on every list and for its tree, its model  *)
(* and its marks.  Its Last is its name without qualifiers, with its       *)
(* signature.  The tools look for that, or for the name alone, in the      *)
(* entries of their lists and in the text of files: foo is found in        *)
(* A::xfoo, too.                                                           *)
(***************************************************************************)
EXTENDS Naturals, FiniteSets

CONSTANTS Files, Functions, Raws,
          FileOf,      \* the file that defines a function
          Kind,        \* what the function is, see Kinds
          Last,
          Ending,      \* the functions whose name ends in the name of the function
          Passing,     \* ... whose entry, when they are parsed, has Last in it
          Alike,       \* ... whose entry, when they are listed, has name and signature in it
          Calls,       \* the functions that a function hands a parcel
          Reads,       \* the raw structures it reads
          Fields,      \* the raw structures in a raw structure
          MaxCrashes

\* onTransact of an interface or of a hardware interface; readFromParcel or
\* writeToParcel; any other function that is handed a parcel, by how it is parsed.
Kinds    == {"interface", "hardware", "structure", "misc", "special"}
Listable == {f \in Functions : Kind[f] \in {"misc", "special"}}

ASSUME SourceAssumption ==
  /\ FileOf \in [Functions -> Files]
  /\ Kind \in [Functions -> Kinds]
  /\ Calls \in [Functions -> SUBSET {f \in Functions : Kind[f] \notin {"interface", "hardware"}}]
  /\ Reads \in [Functions -> SUBSET Raws]
  /\ Fields \in [Raws -> SUBSET Raws]
  /\ MaxCrashes \in Nat

\* What is in a name: the entry of a parsed function is its qualified name, a plus sign
\* and its signature, so it has Last in it when the name ends, and the signature begins,
\* with those of Last.  Functions whose entries are confused are parsed in the same way.
ASSUME NamesAssumption ==
  /\ Ending  \in [Functions -> SUBSET Functions]
  /\ Passing \in [Functions -> SUBSET Functions]
  /\ Alike   \in [Functions -> SUBSET Functions]
  /\ \A f \in Functions : f \in Passing[f] /\ Passing[f] \subseteq Ending[f] \cap Alike[f]
  /\ \A f, g \in Functions :
       Last[f] = Last[g] => Kind[f] = Kind[g] /\ Passing[f] = Passing[g] /\ Alike[f] = Alike[g]
  /\ \A f \in Listable : \A g \in Alike[f] \cap Listable : Kind[g] = Kind[f]

\* A file with a hardware interface has one that is not, or nothing else that is wanted.
ASSUME HardwareAssumption ==
  \A f, g \in Functions :
     FileOf[f] = FileOf[g] /\ Kind[f] = "hardware" =>
       Kind[g] = "hardware"
       \/ \E h \in Functions : FileOf[h] = FileOf[f] /\ Kind[h] = "interface"

VARIABLES
  listed,        \* misc_parcel_related_function.txt, special_parcelable_function.txt
  collected,     \* the service related files
  commands,      \* the files with a cc1 command
  preprocessed,  \* already_preprocessed_files
  data,          \* the functions with a tree in the rough data
  markedI, markedS, markedF,   \* already_parsed_interfaces, _structures, _functions
  model,         \* the functions with a model
  rawList,       \* raw_structure_types.txt
  rawModel,      \* the raw structures with a model
  stage,         \* the tool that runs, or is next
  todoFiles,     \* what the extraction still has to compile
  todo,          \* what a script still has to parse
  visited,       \* the raw structures that parse_raw_structure.py has dealt with
  news,          \* "Find new function" was printed in this round
  failed,        \* a script ended early
  crashes        \* how often a tool has ended early, up to MaxCrashes

lists  == <<listed, collected, commands>>
rough  == <<preprocessed, data, todoFiles>>
marks  == <<markedI, markedS, markedF>>
raws   == <<rawList, rawModel, visited>>
vars   == <<lists, rough, marks, model, raws, stage, todo, news, failed, crashes>>

Scripts == {"interface", "structure", "function", "raw"}
Stages  == {"collect", "commands", "start", "extract", "end", "done"} \cup Scripts

TypeOK ==
  /\ listed \subseteq Listable
  /\ collected \subseteq Files /\ commands \subseteq Files
  /\ preprocessed \subseteq Files /\ todoFiles \subseteq Files
  /\ data \subseteq Functions /\ model \subseteq Functions /\ todo \subseteq Functions
  /\ markedI \subseteq Functions /\ markedS \subseteq Functions /\ markedF \subseteq Functions
  /\ rawList \subseteq Raws /\ rawModel \subseteq Raws /\ visited \subseteq Raws
  /\ stage \in Stages
  /\ news \in BOOLEAN /\ failed \in BOOLEAN
  /\ crashes \in 0..MaxCrashes

Init ==
  /\ listed = {} /\ collected = {} /\ commands = {}
  /\ preprocessed = {} /\ todoFiles = {} /\ data = {}
  /\ markedI = {} /\ markedS = {} /\ markedF = {}
  /\ model = {} /\ todo = {}
  /\ rawList = {} /\ rawModel = {} /\ visited = {}
  /\ stage = "collect" /\ news = FALSE /\ failed = FALSE /\ crashes = 0

-----------------------------------------------------------------------------
\* The collector: the files with an interface, and without one those whose text has
\* the name of a function that matters.

Defined(F)   == {f \in Functions : FileOf[f] = F}
InText(F)    == Defined(F) \cup UNION {Calls[f] : f \in Defined(F)}

HasInterface(F) == \E f \in Defined(F) : Kind[f] \in {"interface", "hardware"}
IsInterfaceRelated(F) ==
  \E f \in InText(F) : Kind[f] = "structure" \/ \E g \in listed : f \in Ending[g]
IsServiceRelated(F) ==
  IF HasInterface(F) THEN \E f \in Defined(F) : Kind[f] = "interface"
                     ELSE IsInterfaceRelated(F)

Collect ==
  /\ stage = "collect" \/ (stage = "end" /\ ~failed /\ news)
  /\ collected' = collected \cup {F \in Files : IsServiceRelated(F)}
  /\ stage' = "commands" /\ news' = FALSE
  /\ UNCHANGED <<listed, commands, rough, marks, model, raws, todo, failed, crashes>>

GenerateCommands ==
  /\ stage = "commands"
  /\ commands' = commands \cup collected
  /\ stage' = "start"
  /\ UNCHANGED <<listed, collected, rough, marks, model, raws, todo, news, failed, crashes>>

-----------------------------------------------------------------------------
\* The extraction.  A file that has been compiled is compiled again for a function
\* that is listed, unless its name and signature are in the entry of a parsed function,
\* which may be that of a longer name.

ToProcess == {f \in listed : Passing[f] \cap markedF = {}}
IsContained(F) == \E f \in Defined(F) : \E g \in ToProcess : f \in Ending[g]

\* Mutant: what has been compiled is left as it is.
FilesToProcessOnce == {F \in commands : F \notin preprocessed}
FilesToProcess     == {F \in commands : F \notin preprocessed \/ IsContained(F)}

\* The user says whether to begin from nothing.
StartExtraction ==
  /\ stage = "start" /\ stage' = "extract"
  /\ \/ preprocessed' = {} /\ data' = {} /\ todoFiles' = commands
     \/ todoFiles' = FilesToProcess /\ UNCHANGED <<preprocessed, data>>
  /\ UNCHANGED <<lists, marks, model, raws, todo, news, failed, crashes>>

\* The functions of a file that the plugin writes: of those that may be listed, the ones
\* that it finds in an entry of the lists.
IsTaken(f) == \E g \in listed : g \in Alike[f]

\* Mutant: a function has to be listed itself.
ExtractedListed(F) ==
  {f \in Defined(F) : f \notin Listable \/ f \in listed}
Extracted(F) ==
  {f \in Defined(F) : f \notin Listable \/ IsTaken(f)}

ExtractFile ==
  /\ stage = "extract"
  /\ \E F \in todoFiles :
       /\ data' = data \cup Extracted(F)
       /\ preprocessed' = preprocessed \cup {F}
       /\ todoFiles' = todoFiles \ {F}
  /\ UNCHANGED <<lists, marks, model, raws, stage, todo, news, failed, crashes>>

\* The plugin meets something it does not know; the driver ends.
ExtractionFails ==
  /\ stage = "extract" /\ crashes < MaxCrashes
  /\ \E F \in todoFiles : \E part \in SUBSET Extracted(F) : data' = data \cup part
  /\ stage' = "start" /\ todoFiles' = {} /\ crashes' = crashes + 1
  /\ UNCHANGED <<lists, marks, preprocessed, model, raws, todo, news, failed>>

-----------------------------------------------------------------------------
\* The scripts of parse.sh, one after the other, whether or not one ends early.

Following(s) == CASE s = "interface" -> "structure"
                  [] s = "structure" -> "function"
                  [] s = "function"  -> "raw"
                  [] s = "raw"       -> "end"

\* What a script begins with: it reads the lists and the marks when it starts.
Interfaces(mI) == {f \in data : Kind[f] = "interface" /\ f \notin mI}
Structures(L, mS) ==
  {f \in data : (Kind[f] = "structure" \/ (Kind[f] = "special" /\ f \in L)) /\ f \notin mS}
MiscFunctions(mF) == {f \in data : Kind[f] = "misc" /\ f \notin mF}
Work(s, L, mS, mF) == CASE s = "structure" -> Structures(L, mS)
                        [] s = "function"  -> MiscFunctions(mF)
                        [] OTHER           -> {}

\* postprocess.sh: what an earlier one has left is removed first.
Postprocess ==
  /\ (stage = "extract" /\ todoFiles = {}) \/ (stage = "end" /\ failed)
  /\ model' = {} /\ markedI' = {} /\ markedS' = {} /\ markedF' = {}
  /\ rawList' = {} /\ rawModel' = {}
  /\ stage' = "interface" /\ todo' = Interfaces({}) /\ failed' = FALSE
  /\ UNCHANGED <<lists, rough, visited, news, crashes>>

\* parse.sh alone goes on with what is not marked.
ParseAgain ==
  /\ stage = "end" /\ failed
  /\ stage' = "interface" /\ todo' = Interfaces(markedI) /\ failed' = FALSE
  /\ UNCHANGED <<lists, rough, marks, model, raws, news, crashes>>

\* What the visitor has found in a function is stored.
Found(f) == Calls[f] \cap Listable
\* Mutant: what is listed already is news, too.
StoreAlways(what) ==
  /\ listed' = listed \cup what
  /\ news' = (news \/ what # {})
Store(what) ==
  /\ listed' = listed \cup what
  /\ news' = (news \/ ~(what \subseteq listed))

Walked(f) ==
  /\ Store(Found(f))
  /\ rawList' = rawList \cup Reads[f]
  /\ model' = model \cup {f}
  /\ todo' = todo \ {f}
  /\ UNCHANGED <<collected, commands, rough, rawModel, visited, stage, failed, crashes>>

ParseInterface ==
  /\ stage = "interface"
  /\ \E f \in todo : Walked(f) /\ markedI' = markedI \cup {f}
  /\ UNCHANGED <<markedS, markedF>>

\* A function that is not readFromParcel or writeToParcel is marked as a function.
AsFunctionMark(f) == IF Kind[f] = "special" THEN {f} ELSE {}

ParseStructure ==
  /\ stage = "structure"
  /\ \E f \in todo : /\ Walked(f)
                     /\ markedS' = markedS \cup {f}
                     /\ markedF' = markedF \cup AsFunctionMark(f)
  /\ UNCHANGED markedI

ParseFunction ==
  /\ stage = "function"
  /\ \E f \in todo : Walked(f) /\ markedF' = markedF \cup {f}
  /\ UNCHANGED <<markedI, markedS>>

\* What it finds in a raw structure, the script keeps in memory and stores at its end.
RawToDo == (rawList \cup UNION {Fields[r] : r \in visited}) \ visited

ParseRaw ==
  /\ stage = "raw"
  /\ \E r \in RawToDo :
       /\ rawModel' = rawModel \cup {r}
       /\ visited' = visited \cup {r}
  /\ UNCHANGED <<lists, rough, marks, model, rawList, stage, todo, news, failed, crashes>>

\* There is no tree of the structure; what was found is lost.
ParseRawFails ==
  /\ stage = "raw" /\ RawToDo # {} /\ crashes < MaxCrashes
  /\ stage' = "end" /\ failed' = TRUE /\ crashes' = crashes + 1
  /\ UNCHANGED <<lists, rough, marks, model, raws, todo, news>>

NextScript ==
  /\ stage \in Scripts /\ todo = {}
  /\ stage = "raw" => RawToDo = {}
  /\ stage' = Following(stage)
  /\ todo' = Work(stage', listed, markedS, markedF)
  /\ visited' = IF stage' = "raw" THEN {} ELSE visited
  /\ rawList' = IF stage = "raw" THEN rawList \cup visited ELSE rawList
  /\ UNCHANGED <<lists, rough, marks, model, rawModel, news, failed, crashes>>

MarksOfFailure(f) ==
  /\ markedI' = markedI
  /\ markedF' = markedF \cup (IF stage = "structure" THEN AsFunctionMark(f) ELSE {})

ScriptFails ==
  /\ stage \in {"interface", "structure", "function"} /\ crashes < MaxCrashes
  /\ \E f \in todo :
       /\ \E part \in SUBSET (IF stage = "interface" THEN Found(f) ELSE {}) : Store(part)
       /\ MarksOfFailure(f)
  /\ stage' = Following(stage)
  /\ todo' = Work(stage', listed', markedS, markedF')
  /\ visited' = IF stage' = "raw" THEN {} ELSE visited
  /\ failed' = TRUE /\ crashes' = crashes + 1
  /\ UNCHANGED <<collected, commands, rough, markedS, model, rawList, rawModel>>

\* No script has ended early, and no new functions were found.
Stop ==
  /\ stage = "end" /\ ~failed /\ ~news
  /\ stage' = "done"
  /\ UNCHANGED <<lists, rough, marks, model, raws, todo, news, failed, crashes>>

Next ==
  \/ Collect \/ GenerateCommands
  \/ StartExtraction \/ ExtractFile \/ ExtractionFails
  \/ Postprocess \/ ParseAgain
  \/ ParseInterface \/ ParseStructure \/ ParseFunction \/ ParseRaw
  \/ NextScript \/ ScriptFails \/ ParseRawFails \/ Stop

\* The user does not stop before the last round.
Spec == Init /\ [][Next]_vars /\ WF_vars(Next)

-----------------------------------------------------------------------------
\* The name of a function is in the entry of another name, which the plugin takes: the
\* driver and the plugin then take the one for the other.
IsConfused(f) ==
  f \in Listable /\ \E g \in Alike[f] \cap Listable : Last[g] # Last[f] /\ IsTaken(g)

\* When a round has found no new functions, every interface has a model, and so has
\* every function and every raw structure that a model needs: none is only listed, or
\* found and forgotten because a tool ended early, because its file was compiled before
\* or because another of its name was parsed before.  The exception is a function whose
\* name is in a longer one of the lists (extract_from_ast.py:170).
Closed ==
  stage = "done" =>
    /\ \A f \in Functions : Kind[f] = "interface" => f \in model
    /\ \A f \in model : \A g \in Calls[f] : g \in model \/ IsConfused(g)
    /\ \A f \in model : Reads[f] \subseteq rawModel
    /\ \A r \in rawModel : Fields[r] \subseteq rawModel

\* When the scripts run, every function that had been listed before the round began has
\* been extracted, also from a file that was compiled before it was listed, with the same
\* exception.
ListedExtracted ==
  stage \in Scripts /\ ~news => \A f \in listed : f \in data \/ IsConfused(f)

\* As the driver has it: "although this file has been processed it contains some function
\* which is not processed" (extract_from_ast.py:212-213), for every function that is listed.
AllListedExtracted == stage \in Scripts /\ ~news => listed \subseteq data

\* What a script would pass over because it is marked has its model.
MarkedModelled ==
  /\ markedI \subseteq model /\ markedS \subseteq model
  /\ \A f \in markedF : Kind[f] = "misc" => f \in model

\* The rounds end, however the tools end early and whatever a round finds.
RoundsEnd == <>(stage = "done")
=============================================================================
