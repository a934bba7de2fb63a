------------------------ MODULE ModelPipelineProofs ------------------------
(***************************************************************************)
(* For all files, functions and structures: the rounds of ModelPipeline    *)
(* end with a model that is closed.  Closed is not inductive: it rests on  *)
(* what a session of the extraction leaves, on what each script leaves for *)
(* the next one, and on what stays true of the marks while tools end early *)
(* and the extraction begins from nothing.                                 *)
(***************************************************************************)
EXTENDS ModelPipeline, TLAPS

Names(S) == {Last[f] : f \in S}

Parsing == stage \in Scripts \cup {"end", "done"}

\* What is still to do belongs to the tool that runs.
TodoFits ==
  /\ stage # "extract" => todoFiles = {}
  /\ stage \notin {"interface", "structure", "function"} => todo = {}
  /\ todo \subseteq data
  /\ stage = "interface" => \A f \in todo : Kind[f] = "interface"
  /\ stage = "structure" => \A f \in todo : Kind[f] \in {"structure", "special"}
  /\ stage = "function"  => \A f \in todo : Kind[f] = "misc"

\* The extraction: why a function of the rough data is there, and which are there.
OnlyTaken  == \A f \in data \cap Listable : IsTaken(f)
Unlisted   == \A f \in Functions \ Listable : FileOf[f] \in preprocessed => f \in data

\* The functions of a name that was parsed have been extracted from every file that has
\* been compiled, now or in an earlier round, if the name is not confused with another.
MarkedSpread ==
  \A f \in Listable :
    FileOf[f] \in preprocessed /\ Last[f] \in Names(markedF) => f \in data \/ IsConfused(f)

\* The plugin took a function that is marked as a function.
MarkedTaken == \A f \in markedF : f \in Listable /\ IsTaken(f)

InSession ==
  stage = "extract" =>
    /\ commands \subseteq preprocessed \cup todoFiles
    /\ \A f \in Listable :
         FileOf[f] \in preprocessed \ todoFiles /\ Last[f] \in Names(listed)
           => f \in data \/ IsConfused(f)

AfterSession ==
  Parsing =>
    /\ \A f \in Listable :
         FileOf[f] \in preprocessed /\ Last[f] \in Names(data) => f \in data \/ IsConfused(f)
    /\ ~news => \A f \in Functions :
                  Kind[f] \in {"interface", "structure"} \/ f \in listed
                    => f \in data \/ IsConfused(f)

\* The collector.
CollectedAll ==
  /\ stage # "collect" /\ ~news => {F \in Files : IsServiceRelated(F)} \subseteq collected
  /\ stage \notin {"collect", "commands"} => collected \subseteq commands
  /\ preprocessed \cup todoFiles \subseteq commands

\* The scripts: what a function needs is listed, and what a script had to do is done,
\* unless it ended early.
NeedsListed ==
  \A f \in model : Found(f) \subseteq listed /\ Reads[f] \subseteq rawList

InterfacesDone == \A f \in data : Kind[f] = "interface" => f \in model \cup todo
StructuresDone ==
  \A f \in data : (Kind[f] = "structure" \/ (Kind[f] = "special" /\ f \in listed /\ ~news))
                    => f \in model \cup todo
FunctionsDone  == \A f \in data : Kind[f] = "misc" => f \in model \cup todo

ScriptsDone ==
  /\ stage = "interface" => InterfacesDone
  /\ stage = "structure" => StructuresDone
  /\ stage = "function"  => FunctionsDone
  /\ ~failed /\ stage \in {"structure", "function", "raw", "end", "done"} => InterfacesDone
  /\ ~failed /\ stage \in {"function", "raw", "end", "done"} => StructuresDone
  /\ ~failed /\ stage \in {"raw", "end", "done"} => FunctionsDone

\* What has a model is reached from the list: what is lost when the script of the raw
\* structures ends early is found again from there.
RawReached ==
  \A S \in SUBSET Raws :
    rawList \subseteq S /\ (\A r \in S : Fields[r] \subseteq S) => rawModel \subseteq S
RawDone ==
  /\ stage \in {"raw", "end", "done"} => visited \subseteq rawModel
  /\ stage \in {"end", "done"} /\ ~failed => RawToDo = {}

Finished == stage = "done" => ~failed /\ ~news

IInv == /\ TypeOK /\ TodoFits
        /\ OnlyTaken /\ Unlisted /\ MarkedTaken /\ MarkedSpread /\ InSession /\ AfterSession
        /\ CollectedAll /\ NeedsListed /\ ScriptsDone /\ RawReached /\ RawDone
        /\ MarkedModelled /\ Finished

-----------------------------------------------------------------------------
\* Nothing leaves the lists of functions, and what is added to them is news.
LEMMA ListedGrows ==
  ASSUME Next
  PROVE  listed \subseteq listed' /\ (~news' /\ stage' # "commands" => listed' = listed /\ ~news)
<1>1. CASE Collect \/ GenerateCommands \/ StartExtraction \/ ExtractFile \/ ExtractionFails
  BY <1>1 DEF Collect, GenerateCommands, StartExtraction, ExtractFile, ExtractionFails, lists
<1>2. CASE Postprocess \/ ParseAgain \/ ParseRaw \/ NextScript \/ Stop
  BY <1>2 DEF Postprocess, ParseAgain, ParseRaw, NextScript, Stop, lists
<1>3. CASE ParseInterface \/ ParseStructure \/ ParseFunction
  BY <1>3 DEF ParseInterface, ParseStructure, ParseFunction, Walked, Store
<1>4. CASE ScriptFails
  BY <1>4 DEF ScriptFails, Store
<1>5. CASE ParseRawFails
  BY <1>5 DEF ParseRawFails, lists
<1>6. QED BY <1>1, <1>2, <1>3, <1>4, <1>5 DEF Next

\* So the plugin takes what it took before, and what was confused stays so.
LEMMA TakenStays ==
  ASSUME Next, NEW f
  PROVE  (IsTaken(f) => IsTaken(f)') /\ (IsConfused(f) => IsConfused(f)')
BY ListedGrows DEF IsTaken, IsConfused

\* A function of the name of one that the plugin takes is confused or listed by its name.
LEMMA TakenByName ==
  ASSUME NEW f \in Listable, NEW g \in Functions, Last[g] = Last[f], IsTaken(g),
         listed \subseteq Listable
  PROVE  IsConfused(f) \/ Last[f] \in Names(listed)
<1>1. PICK l \in listed : l \in Alike[g]
  BY DEF IsTaken
<1>2. f \in Functions /\ l \in Functions /\ l \in Listable
  BY <1>1 DEF Listable
<1>3. l \in Alike[f] /\ IsTaken(l)
  BY <1>1, <1>2, NamesAssumption DEF IsTaken
<1>4. QED BY <1>1, <1>2, <1>3 DEF IsConfused, Names

\* A function that the driver passes over is confused, or its name was listed and parsed.
LEMMA PassedOver ==
  ASSUME TypeOK, MarkedTaken, NEW f \in Listable, Passing[f] \cap markedF # {}
  PROVE  IsConfused(f) \/ (Last[f] \in Names(listed) /\ Last[f] \in Names(markedF))
<1>1. PICK g \in markedF : g \in Passing[f]
  OBVIOUS
<1>2. f \in Functions /\ g \in Listable /\ g \in Functions /\ g \in Alike[f]
  BY <1>1, NamesAssumption DEF MarkedTaken, Listable
<1>3. CASE Last[g] # Last[f]
  BY <1>1, <1>2, <1>3 DEF IsConfused, MarkedTaken
<1>4. CASE Last[g] = Last[f]
  <2>1. IsConfused(f) \/ Last[f] \in Names(listed)
    BY <1>1, <1>2, <1>4, TakenByName DEF MarkedTaken, TypeOK
  <2>2. QED BY <1>1, <1>4, <2>1 DEF Names
<1>5. QED BY <1>3, <1>4

\* Only a round of the extraction changes the rough data.
LEMMA DataStays ==
  ASSUME Next, ~ExtractFile, ~StartExtraction, ~ExtractionFails
  PROVE  data' = data /\ preprocessed' = preprocessed
<1>1. CASE Collect \/ GenerateCommands
  BY <1>1 DEF Collect, GenerateCommands, rough
<1>2. CASE Postprocess \/ ParseAgain \/ ParseRaw \/ NextScript \/ Stop
  BY <1>2 DEF Postprocess, ParseAgain, ParseRaw, NextScript, Stop, rough
<1>3. CASE ParseInterface \/ ParseStructure \/ ParseFunction
  BY <1>3 DEF ParseInterface, ParseStructure, ParseFunction, Walked, rough
<1>4. CASE ScriptFails \/ ParseRawFails
  BY <1>4 DEF ScriptFails, ParseRawFails, rough
<1>5. QED BY <1>1, <1>2, <1>3, <1>4 DEF Next

LEMMA Stutter ==
  ASSUME IInv, UNCHANGED vars
  PROVE  IInv'
<1>1. UNCHANGED <<listed, collected, commands, preprocessed, data, todoFiles>>
  BY DEF vars, lists, rough
<1>2. UNCHANGED <<markedI, markedS, markedF, model, rawList, rawModel, visited>>
  BY DEF vars, marks, raws
<1>3. UNCHANGED <<stage, todo, news, failed, crashes>>
  BY DEF vars
<1>4. TypeOK' /\ TodoFits' /\ Finished' /\ MarkedModelled'
  BY <1>1, <1>2, <1>3 DEF IInv, TypeOK, TodoFits, Finished, MarkedModelled
<1>5. \A f : IsTaken(f)' = IsTaken(f) /\ IsConfused(f)' = IsConfused(f)
  BY <1>1 DEF IsTaken, IsConfused
<1>6. OnlyTaken' /\ Unlisted' /\ MarkedTaken' /\ MarkedSpread'
  BY <1>1, <1>2, <1>3, <1>5 DEF IInv, OnlyTaken, Unlisted, MarkedTaken, MarkedSpread, Names
<1>7. InSession' /\ AfterSession'
  BY <1>1, <1>2, <1>3, <1>5 DEF IInv, InSession, AfterSession, Names, Parsing
<1>8. CollectedAll'
  BY <1>1, <1>2, <1>3 DEF IInv, CollectedAll, IsServiceRelated, IsInterfaceRelated, InText, HasInterface
<1>9. NeedsListed' /\ ScriptsDone' /\ RawReached' /\ RawDone'
  BY <1>1, <1>2, <1>3
     DEF IInv, NeedsListed, ScriptsDone, InterfacesDone, StructuresDone, FunctionsDone,
         RawReached, RawDone, RawToDo
<1>10. QED BY <1>4, <1>6, <1>7, <1>8, <1>9 DEF IInv

LEMMA InitIInv == Init => IInv
<1> SUFFICES ASSUME Init PROVE IInv
  OBVIOUS
<1>0. TypeOK
  <2>1. crashes \in 0..MaxCrashes
    BY SourceAssumption DEF Init
  <2>2. QED BY <2>1 DEF Init, TypeOK, Stages
<1>1. TodoFits /\ Finished /\ MarkedModelled
  BY DEF Init, TodoFits, Finished, MarkedModelled
<1>2. OnlyTaken /\ Unlisted /\ MarkedTaken /\ MarkedSpread
  BY SourceAssumption DEF Init, OnlyTaken, Unlisted, MarkedTaken, MarkedSpread, Names
<1>3. InSession /\ AfterSession /\ CollectedAll
  BY DEF Init, InSession, AfterSession, CollectedAll, Parsing, Scripts
<1>4. NeedsListed /\ ScriptsDone /\ RawReached /\ RawDone
  BY DEF Init, NeedsListed, ScriptsDone, InterfacesDone, StructuresDone, FunctionsDone,
         RawReached, RawDone
<1>5. QED BY <1>0, <1>1, <1>2, <1>3, <1>4 DEF IInv

\* Every step keeps the types.
LEMMA TypeOKNext ==
  ASSUME TypeOK, TodoFits, Next
  PROVE  TypeOK'
<1>1. CASE Collect
  BY <1>1 DEF Collect, TypeOK, Stages, rough, marks, raws
<1>2. CASE GenerateCommands
  BY <1>2 DEF GenerateCommands, TypeOK, Stages, rough, marks, raws
<1>3. CASE StartExtraction
  BY <1>3 DEF StartExtraction, FilesToProcess, TypeOK, Stages, lists, marks, raws
<1>4. CASE ExtractFile
  BY <1>4 DEF ExtractFile, Extracted, Defined, TypeOK, lists, marks, raws
<1>5. CASE ExtractionFails
  BY <1>5, SourceAssumption
     DEF ExtractionFails, Extracted, Defined, TypeOK, Stages, lists, marks, raws
<1>6. CASE Postprocess
  BY <1>6 DEF Postprocess, Interfaces, TypeOK, Stages, Scripts, lists, rough
<1>7. CASE ParseAgain
  BY <1>7 DEF ParseAgain, Interfaces, TypeOK, Stages, Scripts, lists, rough, marks, raws
<1>8. CASE ParseInterface
  BY <1>8, SourceAssumption DEF ParseInterface, Walked, Store, Found, TypeOK, Stages, rough
<1>9. CASE ParseStructure
  BY <1>9, SourceAssumption
     DEF ParseStructure, Walked, Store, Found, AsFunctionMark, TypeOK, Stages, rough
<1>10. CASE ParseFunction
  BY <1>10, SourceAssumption DEF ParseFunction, Walked, Store, Found, TypeOK, Stages, rough
<1>11. CASE ParseRaw
  BY <1>11, SourceAssumption DEF ParseRaw, RawToDo, TypeOK, Stages, lists, rough, marks
<1>12. CASE NextScript
  BY <1>12 DEF NextScript, Following, Work, Structures, MiscFunctions,
               TypeOK, Stages, Scripts, lists, rough, marks
<1>13. CASE ScriptFails
  <2>1. PICK f \in todo :
          /\ \E part \in SUBSET (IF stage = "interface" THEN Found(f) ELSE {}) : Store(part)
          /\ MarksOfFailure(f)
    BY <1>13 DEF ScriptFails
  <2>2. listed' \subseteq Listable /\ news' \in BOOLEAN
    BY <2>1 DEF Store, Found, TypeOK
  <2>3. markedI' = markedI /\ markedF' \subseteq Functions
    BY <2>1 DEF MarksOfFailure, AsFunctionMark, TypeOK
  <2>4. stage' \in Stages /\ todo' \subseteq Functions
    BY <1>13 DEF ScriptFails, Following, Work, Structures, MiscFunctions, TypeOK, Stages,
                 Scripts, rough
  <2>5. crashes' \in 0..MaxCrashes
    BY <1>13, SourceAssumption DEF ScriptFails, TypeOK
  <2>6. QED BY <1>13, <2>2, <2>3, <2>4, <2>5 DEF ScriptFails, TypeOK, rough
<1>14. CASE Stop
  BY <1>14 DEF Stop, TypeOK, Stages, lists, rough, marks, raws
<1>15. CASE ParseRawFails
  BY <1>15, SourceAssumption DEF ParseRawFails, TypeOK, Stages, lists, rough, marks, raws
<1>16. QED
  BY <1>1, <1>2, <1>3, <1>4, <1>5, <1>6, <1>7, <1>8, <1>9, <1>10, <1>11, <1>12, <1>13, <1>14,
     <1>15
     DEF Next

LEMMA TodoFitsNext ==
  ASSUME TypeOK, TodoFits, Next
  PROVE  TodoFits'
<1>1. CASE Collect \/ GenerateCommands \/ Stop
  BY <1>1 DEF Collect, GenerateCommands, Stop, TodoFits, rough
<1>2. CASE StartExtraction \/ ExtractFile \/ ExtractionFails
  BY <1>2 DEF StartExtraction, ExtractFile, ExtractionFails, TodoFits
<1>3. CASE Postprocess \/ ParseAgain
  BY <1>3 DEF Postprocess, ParseAgain, Interfaces, TodoFits, rough
<1>4. CASE ParseInterface \/ ParseStructure \/ ParseFunction
  BY <1>4 DEF ParseInterface, ParseStructure, ParseFunction, Walked, TodoFits, rough
<1>5. CASE ParseRaw \/ ParseRawFails
  BY <1>5 DEF ParseRaw, ParseRawFails, TodoFits, rough
<1>6. CASE NextScript
  BY <1>6 DEF NextScript, Following, Work, Structures, MiscFunctions, TodoFits, Scripts, rough
<1>7. CASE ScriptFails
  BY <1>7 DEF ScriptFails, Following, Work, Structures, MiscFunctions, TodoFits, Scripts, rough
<1>8. QED BY <1>1, <1>2, <1>3, <1>4, <1>5, <1>6, <1>7 DEF Next

LEMMA FinishedNext ==
  ASSUME Finished, Next
  PROVE  Finished'
BY DEF Finished, Next, Collect, GenerateCommands, StartExtraction, ExtractFile, ExtractionFails,
       Postprocess, ParseAgain, ParseInterface, ParseStructure, ParseFunction, Walked, ParseRaw,
       NextScript, ScriptFails, ParseRawFails, Following, Scripts, Stop

\* The extraction writes what is listed, and it writes all that is.
LEMMA OnlyTakenNext ==
  ASSUME OnlyTaken, Next
  PROVE  OnlyTaken'
<1>1. CASE StartExtraction
  BY <1>1, TakenStays DEF StartExtraction, OnlyTaken
<1>2. CASE ExtractFile \/ ExtractionFails
  BY <1>2, TakenStays DEF ExtractFile, ExtractionFails, Extracted, OnlyTaken
<1>3. CASE ~StartExtraction /\ ~ExtractFile /\ ~ExtractionFails
  BY <1>3, TakenStays, DataStays DEF OnlyTaken
<1>4. QED BY <1>1, <1>2, <1>3

LEMMA UnlistedNext ==
  ASSUME Unlisted, Next
  PROVE  Unlisted'
<1>1. CASE StartExtraction \/ ExtractFile \/ ExtractionFails
  BY <1>1 DEF StartExtraction, ExtractFile, ExtractionFails, Extracted, Defined, Unlisted
<1>2. CASE ~StartExtraction /\ ~ExtractFile /\ ~ExtractionFails
  BY <1>2, DataStays DEF Unlisted
<1>3. QED BY <1>1, <1>2

\* The marks of the functions: what is added is in the rough data, and a script runs.
LEMMA MarkedAdded ==
  ASSUME TypeOK, TodoFits, Next
  PROVE  \A f \in markedF' \ markedF :
           f \in data /\ Kind[f] \in {"misc", "special"} /\ stage \in Scripts
<1>1. CASE Collect \/ GenerateCommands \/ StartExtraction \/ ExtractFile \/ ExtractionFails
  BY <1>1 DEF Collect, GenerateCommands, StartExtraction, ExtractFile, ExtractionFails, marks
<1>2. CASE Postprocess \/ ParseAgain \/ ParseRaw \/ NextScript \/ Stop
  BY <1>2 DEF Postprocess, ParseAgain, ParseRaw, NextScript, Stop, marks
<1>3. CASE ParseInterface \/ ParseStructure \/ ParseFunction
  BY <1>3 DEF ParseInterface, ParseStructure, ParseFunction, AsFunctionMark, TodoFits, Scripts
<1>4. CASE ScriptFails \/ ParseRawFails
  BY <1>4 DEF ScriptFails, ParseRawFails, MarksOfFailure, AsFunctionMark, TodoFits, Scripts, marks
<1>5. QED BY <1>1, <1>2, <1>3, <1>4 DEF Next

LEMMA MarkedTakenNext ==
  ASSUME TypeOK, TodoFits, OnlyTaken, MarkedTaken, Next
  PROVE  MarkedTaken'
<1> SUFFICES ASSUME NEW f \in markedF'
             PROVE  f \in Listable /\ IsTaken(f)'
  BY DEF MarkedTaken
<1>1. CASE f \in markedF
  BY <1>1, TakenStays DEF MarkedTaken
<1>2. CASE f \notin markedF
  <2>1. f \in data \cap Listable
    BY <1>2, MarkedAdded DEF TypeOK, Listable
  <2>2. QED BY <2>1, TakenStays DEF OnlyTaken
<1>3. QED BY <1>1, <1>2

\* A function whose name is among the names of parsed functions is in the rough data, if
\* its file has been compiled: the extraction writes it with its file, and a script
\* marks a name only when the extraction is complete.
LEMMA MarkedSpreadNext ==
  ASSUME TypeOK, TodoFits, MarkedTaken, MarkedSpread, AfterSession, Next
  PROVE  MarkedSpread'
<1> SUFFICES ASSUME NEW f \in Listable, FileOf[f] \in preprocessed',
                    NEW g \in markedF', Last[g] = Last[f]
             PROVE  f \in data' \/ IsConfused(f)'
  BY DEF MarkedSpread, Names
<1>1. CASE StartExtraction
  BY <1>1, TakenStays DEF StartExtraction, MarkedSpread, Names, marks
<1>2. CASE ExtractFile
  <2>1. PICK F \in todoFiles : data' = data \cup Extracted(F) /\ preprocessed' = preprocessed \cup {F}
    BY <1>2 DEF ExtractFile
  <2>2. g \in markedF
    BY <1>2 DEF ExtractFile, marks
  <2>3. CASE FileOf[f] = F
    <3>1. f \in Functions /\ g \in Functions /\ IsTaken(g)
      BY <2>2 DEF MarkedTaken, Listable
    <3>2. IsTaken(f)
      BY <3>1, NamesAssumption DEF IsTaken
    <3>3. f \in Extracted(F)
      BY <2>3, <3>1, <3>2 DEF Extracted, Defined
    <3>4. QED BY <2>1, <3>3
  <2>4. CASE FileOf[f] # F
    BY <2>1, <2>2, <2>4, TakenStays DEF MarkedSpread, Names
  <2>5. QED BY <2>3, <2>4
<1>3. CASE ExtractionFails
  BY <1>3, TakenStays DEF ExtractionFails, MarkedSpread, Names, marks
<1>4. CASE ~StartExtraction /\ ~ExtractFile /\ ~ExtractionFails
  <2>1. data' = data /\ preprocessed' = preprocessed
    BY <1>4, DataStays
  <2>2. CASE g \in markedF
    BY <2>1, <2>2, TakenStays DEF MarkedSpread, Names
  <2>3. CASE g \notin markedF
    <3>1. g \in data /\ stage \in Scripts
      BY <2>3, MarkedAdded
    <3>2. Last[f] \in Names(data) /\ Parsing
      BY <3>1 DEF Names, Parsing
    <3>3. QED BY <2>1, <3>2, TakenStays DEF AfterSession
  <2>4. QED BY <2>2, <2>3
<1>5. QED BY <1>1, <1>2, <1>3, <1>4

\* A session of the extraction has, of each file it is done with, what is listed.
LEMMA InSessionNext ==
  ASSUME TypeOK, MarkedTaken, MarkedSpread, CollectedAll, InSession, Next
  PROVE  InSession'
<1> SUFFICES ASSUME stage' = "extract"
             PROVE  /\ commands' \subseteq preprocessed' \cup todoFiles'
                    /\ \A f \in Listable :
                         FileOf[f] \in preprocessed' \ todoFiles' /\ Last[f] \in Names(listed')
                           => f \in data' \/ IsConfused(f)'
  BY DEF InSession
<1>1. CASE StartExtraction
  <2>1. listed' = listed /\ commands' = commands
    BY <1>1 DEF StartExtraction, lists
  <2>2. CASE preprocessed' = {} /\ data' = {} /\ todoFiles' = commands
    BY <2>1, <2>2
  <2>3. CASE todoFiles' = FilesToProcess /\ UNCHANGED <<preprocessed, data>>
    <3>1. commands' \subseteq preprocessed' \cup todoFiles'
      BY <2>1, <2>3 DEF FilesToProcess
    <3>2. ASSUME NEW f \in Listable, FileOf[f] \in preprocessed' \ todoFiles',
                 Last[f] \in Names(listed')
          PROVE  f \in data' \/ IsConfused(f)'
      <4>1. FileOf[f] \in commands /\ ~IsContained(FileOf[f])
        BY <2>3, <3>2 DEF FilesToProcess, CollectedAll
      <4>2. f \in Functions /\ f \in Defined(FileOf[f])
        BY DEF Defined, Listable
      <4>3. PICK l \in listed : Last[l] = Last[f]
        BY <2>1, <3>2 DEF Names
      <4>4. l \in Functions
        BY <4>3 DEF TypeOK, Listable
      <4>5. f \in Ending[l] /\ Passing[l] = Passing[f]
        BY <4>2, <4>3, <4>4, NamesAssumption
      <4>6. Passing[f] \cap markedF # {}
        BY <4>1, <4>2, <4>3, <4>5 DEF IsContained, ToProcess
      <4>7. f \in data \/ IsConfused(f)
        BY <2>3, <3>2, <4>6, PassedOver DEF MarkedSpread
      <4>8. QED BY <2>3, <4>7, TakenStays
    <3>3. QED BY <3>1, <3>2
  <2>4. QED BY <1>1, <2>2, <2>3 DEF StartExtraction
<1>2. CASE ExtractFile
  <2>1. PICK F \in todoFiles : /\ data' = data \cup Extracted(F)
                               /\ preprocessed' = preprocessed \cup {F}
                               /\ todoFiles' = todoFiles \ {F}
    BY <1>2 DEF ExtractFile
  <2>2. stage = "extract" /\ listed' = listed /\ commands' = commands
    BY <1>2 DEF ExtractFile, lists
  <2>3. ASSUME NEW f \in Listable, FileOf[f] = F, Last[f] \in Names(listed)
        PROVE  f \in Extracted(F)
    <3>1. PICK l \in listed : Last[l] = Last[f]
      BY <2>3 DEF Names
    <3>2. f \in Functions /\ l \in Functions
      BY <3>1 DEF TypeOK, Listable
    <3>3. l \in Alike[f]
      BY <3>1, <3>2, NamesAssumption
    <3>4. QED BY <2>3, <3>1, <3>2, <3>3 DEF Extracted, Defined, IsTaken
  <2>4. QED BY <2>1, <2>2, <2>3, TakenStays DEF InSession
<1>3. CASE ~StartExtraction /\ ~ExtractFile
  BY <1>3 DEF Next, Collect, GenerateCommands, ExtractionFails, Postprocess, ParseAgain,
              ParseInterface, ParseStructure, ParseFunction, Walked, ParseRaw, NextScript,
              ScriptFails, ParseRawFails, Following, Scripts, Stop
<1>4. QED BY <1>1, <1>2, <1>3

\* What is wanted comes from a file that the collector takes.
LEMMA WantedIsRelated ==
  ASSUME TypeOK, NEW f \in Functions,
         Kind[f] \in {"interface", "structure"} \/ f \in listed
  PROVE  FileOf[f] \in Files /\ IsServiceRelated(FileOf[f])
<1>1. FileOf[f] \in Files /\ f \in Defined(FileOf[f])
  BY SourceAssumption DEF Defined
<1>2. CASE HasInterface(FileOf[f])
  <2>1. PICK h \in Functions : FileOf[h] = FileOf[f] /\ Kind[h] \in {"interface", "hardware"}
    BY <1>2 DEF HasInterface, Defined
  <2>2. Kind[f] # "hardware"
    BY DEF TypeOK, Listable
  <2>3. \E i \in Functions : FileOf[i] = FileOf[f] /\ Kind[i] = "interface"
    BY <2>1, <2>2, HardwareAssumption
  <2>4. QED BY <1>1, <1>2, <2>3 DEF IsServiceRelated, Defined
<1>3. CASE ~HasInterface(FileOf[f])
  <2>1. Kind[f] # "interface"
    BY <1>1, <1>3 DEF HasInterface
  <2>2. f \in InText(FileOf[f])
    BY <1>1 DEF InText
  <2>3. Kind[f] = "structure" \/ \E g \in listed : f \in Ending[g]
    BY <2>1, NamesAssumption
  <2>4. QED BY <1>1, <1>3, <2>2, <2>3 DEF IsServiceRelated, IsInterfaceRelated
<1>4. QED BY <1>2, <1>3

\* When the rough data is handed to the scripts, it has all that was listed.
LEMMA AfterSessionNext ==
  ASSUME TypeOK, OnlyTaken, Unlisted, InSession, AfterSession, CollectedAll, Next
  PROVE  AfterSession'
<1> SUFFICES ASSUME Parsing'
             PROVE  /\ \A f \in Listable :
                         FileOf[f] \in preprocessed' /\ Last[f] \in Names(data')
                           => f \in data' \/ IsConfused(f)'
                    /\ ~news' => \A f \in Functions :
                         Kind[f] \in {"interface", "structure"} \/ f \in listed'
                           => f \in data' \/ IsConfused(f)'
  BY DEF AfterSession
<1>1. CASE stage = "extract" /\ Postprocess
  <2>1. /\ todoFiles = {} /\ commands \subseteq preprocessed /\ collected \subseteq commands
        /\ ~news => {F \in Files : IsServiceRelated(F)} \subseteq collected
    BY <1>1 DEF Postprocess, InSession, CollectedAll
  <2>2. data' = data /\ preprocessed' = preprocessed /\ listed' = listed /\ news' = news
    BY <1>1 DEF Postprocess, lists, rough
  <2>3. \A f \in Listable : FileOf[f] \in preprocessed /\ Last[f] \in Names(listed)
                           => f \in data \/ IsConfused(f)
    BY <1>1, <2>1 DEF InSession
  <2>4. ASSUME NEW f \in Listable, FileOf[f] \in preprocessed, Last[f] \in Names(data)
        PROVE  f \in data \/ IsConfused(f)
    <3>1. PICK g \in data : Last[g] = Last[f]
      BY <2>4 DEF Names
    <3>2. g \in Functions /\ g \in Listable
      BY <3>1, NamesAssumption DEF Listable, TypeOK
    <3>3. IsConfused(f) \/ Last[f] \in Names(listed)
      BY <3>1, <3>2, TakenByName DEF OnlyTaken, TypeOK
    <3>4. QED BY <2>3, <2>4, <3>3
  <2>5. ASSUME ~news, NEW f \in Functions,
               Kind[f] \in {"interface", "structure"} \/ f \in listed
        PROVE  f \in data \/ IsConfused(f)
    <3>1. FileOf[f] \in preprocessed
      BY <2>1, <2>5, WantedIsRelated
    <3>2. CASE f \in Listable
      <4>1. f \in listed
        BY <2>5, <3>2 DEF Listable
      <4>2. QED BY <2>3, <3>1, <3>2, <4>1 DEF Names
    <3>3. CASE f \notin Listable
      BY <3>1, <3>3 DEF Unlisted
    <3>4. QED BY <3>2, <3>3
  <2>6. QED BY <2>2, <2>4, <2>5, TakenStays
<1>2. CASE ~(stage = "extract" /\ Postprocess)
  <2>1. Parsing /\ stage' # "commands"
    BY <1>2 DEF Parsing, Next, Collect, GenerateCommands, StartExtraction, ExtractFile,
                ExtractionFails, Postprocess, ParseAgain, ParseInterface, ParseStructure,
                ParseFunction, Walked, ParseRaw, NextScript, ScriptFails, ParseRawFails,
                Scripts, Stop
  <2>2. data' = data /\ preprocessed' = preprocessed
    BY <2>1, DataStays DEF Parsing, Scripts, StartExtraction, ExtractFile, ExtractionFails
  <2>3. ~news' => listed' = listed /\ ~news
    BY <2>1, ListedGrows
  <2>4. QED BY <2>1, <2>2, <2>3, TakenStays DEF AfterSession
<1>3. QED BY <1>1, <1>2

LEMMA CollectedAllNext ==
  ASSUME TypeOK, TodoFits, CollectedAll, Finished, Next
  PROVE  CollectedAll'
<1>1. CASE Collect
  <2>1. listed' = listed /\ commands' = commands /\ todoFiles' = todoFiles
        /\ preprocessed' = preprocessed /\ stage' = "commands"
    BY <1>1 DEF Collect, rough
  <2>2. \A F \in Files : IsServiceRelated(F)' = IsServiceRelated(F)
    BY <2>1 DEF IsServiceRelated, IsInterfaceRelated, HasInterface, InText
  <2>3. QED BY <1>1, <2>1, <2>2 DEF Collect, CollectedAll
<1>2. CASE ~Collect
  <2>1. stage # "collect" /\ stage' \notin {"collect", "commands"}
    BY <1>2
       DEF Next, Collect, GenerateCommands, StartExtraction, ExtractFile, ExtractionFails,
           Postprocess, ParseAgain, ParseInterface, ParseStructure, ParseFunction, Walked,
           ParseRaw, NextScript, Following, ScriptFails, ParseRawFails, Scripts, Stop
  <2>2. ~news' => listed' = listed /\ ~news
    BY <2>1, ListedGrows
  <2>3. ~news' => \A F \in Files : IsServiceRelated(F)' = IsServiceRelated(F)
    BY <2>2 DEF IsServiceRelated, IsInterfaceRelated, HasInterface, InText
  <2>4. collected' = collected
    BY <1>2 DEF Next, GenerateCommands, StartExtraction, ExtractFile, ExtractionFails,
           Postprocess, ParseAgain, ParseInterface, ParseStructure, ParseFunction, Walked,
           ParseRaw, NextScript, ScriptFails, ParseRawFails, Stop, lists
  <2>5. CASE GenerateCommands
    BY <2>1, <2>2, <2>3, <2>4, <2>5 DEF CollectedAll, GenerateCommands, rough
  <2>6. CASE StartExtraction \/ ExtractFile \/ ExtractionFails
    <3>1. commands' = commands /\ stage \notin {"collect", "commands"}
      BY <2>6 DEF StartExtraction, ExtractFile, ExtractionFails, lists
    <3>2. preprocessed' \cup todoFiles' \subseteq commands
      BY <2>6 DEF StartExtraction, FilesToProcess, ExtractFile, ExtractionFails, CollectedAll
    <3>3. QED BY <2>1, <2>2, <2>3, <2>4, <3>1, <3>2 DEF CollectedAll
  <2>7. CASE ~GenerateCommands /\ ~StartExtraction /\ ~ExtractFile /\ ~ExtractionFails
    <3>1. /\ commands' = commands /\ preprocessed' = preprocessed /\ todoFiles' = todoFiles
          /\ stage \notin {"collect", "commands"}
      BY <1>2, <2>7 DEF Next, Postprocess, ParseAgain, ParseInterface, ParseStructure,
           ParseFunction, Walked, ParseRaw, NextScript, ScriptFails, ParseRawFails, Stop,
           lists, rough, Scripts
    <3>2. QED BY <2>1, <2>2, <2>3, <2>4, <3>1 DEF CollectedAll
  <2>8. QED BY <2>5, <2>6, <2>7
<1>3. QED BY <1>1, <1>2

LEMMA NeedsListedNext ==
  ASSUME NeedsListed, Next
  PROVE  NeedsListed'
<1>1. listed \subseteq listed'
  BY ListedGrows
<1>2. CASE Collect \/ GenerateCommands \/ StartExtraction \/ ExtractFile \/ ExtractionFails
  BY <1>1, <1>2 DEF Collect, GenerateCommands, StartExtraction, ExtractFile, ExtractionFails,
                    raws, NeedsListed, Found
<1>3. CASE Postprocess
  BY <1>3 DEF Postprocess, NeedsListed
<1>4. CASE ParseInterface \/ ParseStructure \/ ParseFunction
  BY <1>4 DEF ParseInterface, ParseStructure, ParseFunction, Walked, Store, NeedsListed, Found
<1>5. CASE ParseAgain \/ ParseRaw \/ NextScript \/ ScriptFails \/ ParseRawFails \/ Stop
  BY <1>1, <1>5 DEF ParseAgain, ParseRaw, NextScript, ScriptFails, ParseRawFails, Stop, raws,
                    NeedsListed, Found
<1>6. QED BY <1>2, <1>3, <1>4, <1>5 DEF Next

\* The script of the raw structures goes on from what it has reached; the list only grows
\* until there is no model any more.
LEMMA RawReachedNext ==
  ASSUME TypeOK, RawReached, RawDone, Next
  PROVE  RawReached'
<1> SUFFICES ASSUME NEW S \in SUBSET Raws, rawList' \subseteq S, \A r \in S : Fields[r] \subseteq S
             PROVE  rawModel' \subseteq S
  BY DEF RawReached
<1>1. CASE Postprocess
  BY <1>1 DEF Postprocess
<1>2. CASE ~Postprocess
  <2>1. rawList \subseteq rawList'
    BY <1>2 DEF Next, Collect, GenerateCommands, StartExtraction, ExtractFile, ExtractionFails,
                ParseAgain, ParseInterface, ParseStructure, ParseFunction, Walked, ParseRaw,
                NextScript, ScriptFails, ParseRawFails, Stop, raws
  <2>2. rawModel \subseteq S
    BY <2>1 DEF RawReached
  <2>3. CASE ParseRaw
    <3>1. PICK r \in RawToDo : rawModel' = rawModel \cup {r}
      BY <2>3 DEF ParseRaw
    <3>2. visited \subseteq S
      BY <2>2, <2>3 DEF ParseRaw, RawDone
    <3>3. r \in S
      BY <2>1, <3>1, <3>2 DEF RawToDo
    <3>4. QED BY <2>2, <3>1, <3>3
  <2>4. CASE ~ParseRaw
    <3>1. rawModel' = rawModel
      BY <1>2, <2>4
         DEF Next, Collect, GenerateCommands, StartExtraction, ExtractFile, ExtractionFails,
             ParseAgain, ParseInterface, ParseStructure, ParseFunction, Walked, NextScript,
             ScriptFails, ParseRawFails, Stop, raws
    <3>2. QED BY <2>2, <3>1
  <2>5. QED BY <2>3, <2>4
<1>3. QED BY <1>1, <1>2

LEMMA RawDoneNext ==
  ASSUME TypeOK, Finished, RawDone, Next
  PROVE  RawDone'
<1>1. CASE Collect \/ GenerateCommands \/ StartExtraction \/ ExtractFile \/ ExtractionFails
  BY <1>1 DEF Collect, GenerateCommands, StartExtraction, ExtractFile, ExtractionFails,
              raws, RawDone
<1>2. CASE Postprocess \/ ParseAgain
  BY <1>2 DEF Postprocess, ParseAgain, raws, RawDone
<1>3. CASE ParseInterface \/ ParseStructure \/ ParseFunction
  BY <1>3 DEF ParseInterface, ParseStructure, ParseFunction, Walked, RawDone
<1>4. CASE ParseRaw
  BY <1>4 DEF ParseRaw, RawDone
<1>5. CASE NextScript
  <2>1. CASE stage = "raw"
    <3>1. RawToDo = {} /\ visited' = visited /\ rawModel' = rawModel /\ stage' = "end"
          /\ rawList' = rawList \cup visited
      BY <1>5, <2>1 DEF NextScript, Following
    <3>2. RawToDo' = {}
      BY <3>1 DEF RawToDo
    <3>3. QED BY <2>1, <3>1, <3>2 DEF RawDone
  <2>2. CASE stage # "raw"
    BY <1>5, <2>2 DEF NextScript, Following, Scripts, RawDone
  <2>3. QED BY <2>1, <2>2
<1>6. CASE ScriptFails \/ ParseRawFails
  BY <1>6 DEF ScriptFails, ParseRawFails, Following, raws, RawDone
<1>7. CASE Stop
  BY <1>7 DEF Stop, raws, RawDone, RawToDo
<1>8. QED BY <1>1, <1>2, <1>3, <1>4, <1>5, <1>6, <1>7 DEF Next

LEMMA MarkedModelledNext ==
  ASSUME TypeOK, TodoFits, MarkedModelled, Next
  PROVE  MarkedModelled'
<1>1. CASE Collect \/ GenerateCommands \/ StartExtraction \/ ExtractFile \/ ExtractionFails
  BY <1>1 DEF Collect, GenerateCommands, StartExtraction, ExtractFile, ExtractionFails,
              marks, MarkedModelled
<1>2. CASE Postprocess \/ ParseAgain \/ ParseRaw \/ NextScript \/ Stop
  BY <1>2 DEF Postprocess, ParseAgain, ParseRaw, NextScript, Stop, marks, MarkedModelled
<1>3. CASE ParseInterface \/ ParseStructure \/ ParseFunction
  BY <1>3 DEF ParseInterface, ParseStructure, ParseFunction, Walked, AsFunctionMark,
              MarkedModelled
<1>4. CASE ScriptFails \/ ParseRawFails
  BY <1>4 DEF ScriptFails, ParseRawFails, MarksOfFailure, AsFunctionMark, MarkedModelled, marks
<1>5. QED BY <1>1, <1>2, <1>3, <1>4 DEF Next

\* A script begins with all that has no model; what is marked has one.
LEMMA ScriptBegins ==
  ASSUME MarkedModelled
  PROVE  /\ \A f \in data : Kind[f] = "interface" => f \in model \cup Interfaces(markedI)
         /\ \A L : \A f \in data :
              Kind[f] = "structure" \/ (Kind[f] = "special" /\ f \in L)
                => f \in model \cup Structures(L, markedS)
         /\ \A mF : (\A f \in mF : Kind[f] = "misc" => f \in model) =>
              \A f \in data : Kind[f] = "misc" => f \in model \cup MiscFunctions(mF)
BY DEF MarkedModelled, Interfaces, Structures, MiscFunctions

\* What the walk of a function leaves for its script and the ones before.
LEMMA WalkedDone ==
  ASSUME NEW f \in todo, Walked(f)
  PROVE  /\ InterfacesDone => InterfacesDone'
         /\ StructuresDone => StructuresDone'
         /\ FunctionsDone => FunctionsDone'
BY DEF Walked, Store, rough, InterfacesDone, StructuresDone, FunctionsDone

LEMMA ScriptsDoneNext ==
  ASSUME TypeOK, TodoFits, MarkedModelled, ScriptsDone, Next
  PROVE  ScriptsDone'
<1>1. CASE Collect \/ GenerateCommands \/ StartExtraction \/ ExtractFile \/ ExtractionFails
  BY <1>1 DEF Collect, GenerateCommands, StartExtraction, ExtractFile, ExtractionFails,
              ScriptsDone
<1>2. CASE Postprocess
  BY <1>2 DEF Postprocess, Interfaces, rough, ScriptsDone, InterfacesDone
<1>3. CASE ParseAgain
  <2>1. data' = data /\ model' = model /\ todo' = Interfaces(markedI) /\ stage' = "interface"
    BY <1>3 DEF ParseAgain, rough
  <2>2. InterfacesDone'
    BY <2>1, ScriptBegins DEF InterfacesDone
  <2>3. QED BY <2>1, <2>2 DEF ScriptsDone
<1>4. CASE ParseInterface \/ ParseStructure \/ ParseFunction
  <2>1. PICK f \in todo : Walked(f)
    BY <1>4 DEF ParseInterface, ParseStructure, ParseFunction
  <2>2. stage' = stage /\ failed' = failed
    BY <2>1 DEF Walked
  <2>3. QED BY <2>1, <2>2, WalkedDone DEF ScriptsDone
<1>5. CASE ParseRaw \/ Stop
  <2>1. data' = data /\ model' = model /\ todo' = todo /\ listed' = listed /\ news' = news
        /\ failed' = failed /\ stage \in {"raw", "end"} /\ stage' \in {"raw", "done"}
    BY <1>5 DEF ParseRaw, Stop, lists, rough
  <2>2. QED BY <2>1 DEF ScriptsDone, InterfacesDone, StructuresDone, FunctionsDone
<1>6. CASE NextScript
  <2>1. /\ data' = data /\ model' = model /\ listed' = listed /\ news' = news
        /\ failed' = failed /\ todo = {} /\ stage \in Scripts /\ stage' = Following(stage)
        /\ todo' = Work(stage', listed, markedS, markedF)
    BY <1>6 DEF NextScript, lists, rough
  <2>2. /\ InterfacesDone => InterfacesDone'
        /\ StructuresDone => StructuresDone'
        /\ FunctionsDone => FunctionsDone'
    BY <2>1 DEF InterfacesDone, StructuresDone, FunctionsDone
  <2>3. stage' = "structure" => StructuresDone'
    BY <2>1, ScriptBegins DEF StructuresDone, Work
  <2>4. stage' = "function" => FunctionsDone'
    BY <2>1, ScriptBegins DEF FunctionsDone, Work, MarkedModelled
  <2>5. QED BY <2>1, <2>2, <2>3, <2>4 DEF ScriptsDone, Following, Scripts
<1>7. CASE ScriptFails
  <2>1. /\ data' = data /\ model' = model /\ failed' = TRUE
        /\ stage \in {"interface", "structure", "function"} /\ stage' = Following(stage)
        /\ todo' = Work(stage', listed', markedS, markedF')
    BY <1>7 DEF ScriptFails, rough
  <2>2. \A f \in markedF' : Kind[f] = "misc" => f \in model
    BY <1>7 DEF ScriptFails, MarksOfFailure, AsFunctionMark, MarkedModelled
  <2>3. stage' = "structure" => StructuresDone'
    BY <2>1, ScriptBegins DEF StructuresDone, Work
  <2>4. stage' = "function" => FunctionsDone'
    BY <2>1, <2>2, ScriptBegins DEF FunctionsDone, Work
  <2>5. QED BY <2>1, <2>3, <2>4 DEF ScriptsDone, Following
<1>8. CASE ParseRawFails
  BY <1>8 DEF ParseRawFails, ScriptsDone
<1>9. QED BY <1>1, <1>2, <1>3, <1>4, <1>5, <1>6, <1>7, <1>8 DEF Next

-----------------------------------------------------------------------------
LEMMA StepIInv ==
  ASSUME IInv, [Next]_vars
  PROVE  IInv'
<1>1. CASE Next
  <2>1. TypeOK' /\ TodoFits' /\ Finished' /\ MarkedModelled'
    BY <1>1, TypeOKNext, TodoFitsNext, FinishedNext, MarkedModelledNext DEF IInv
  <2>2. OnlyTaken' /\ Unlisted' /\ MarkedTaken' /\ MarkedSpread'
    BY <1>1, OnlyTakenNext, UnlistedNext, MarkedTakenNext, MarkedSpreadNext DEF IInv
  <2>3. InSession' /\ AfterSession' /\ CollectedAll'
    BY <1>1, InSessionNext, AfterSessionNext, CollectedAllNext DEF IInv
  <2>4. NeedsListed' /\ ScriptsDone' /\ RawReached' /\ RawDone'
    BY <1>1, NeedsListedNext, ScriptsDoneNext, RawReachedNext, RawDoneNext DEF IInv
  <2>5. QED BY <2>1, <2>2, <2>3, <2>4 DEF IInv
<1>2. CASE UNCHANGED vars
  BY <1>2, Stutter
<1>3. QED BY <1>1, <1>2

THEOREM AlwaysIInv == Spec => []IInv
<1>1. Init => IInv
  BY InitIInv
<1>2. IInv /\ [Next]_vars => IInv'
  BY StepIInv
<1>3. QED BY <1>1, <1>2, PTL DEF Spec

\* The lists, marks and data of the tools keep their types.
THEOREM PipelineTypes == Spec => []TypeOK
<1>1. IInv => TypeOK
  BY DEF IInv
<1>2. QED BY <1>1, AlwaysIInv, PTL

\* The scripts of a round that has found nothing new have all the functions that are
\* listed, for any sources and however often the tools end early, unless the entry of
\* another name has theirs in it.
THEOREM PipelineExtractsListed == Spec => []ListedExtracted
<1>1. IInv => ListedExtracted
  BY DEF IInv, TypeOK, Listable, AfterSession, Parsing, ListedExtracted
<1>2. QED BY <1>1, AlwaysIInv, PTL

\* What a script passes over has its model.
THEOREM PipelineMarks == Spec => []MarkedModelled
<1>1. IInv => MarkedModelled
  BY DEF IInv
<1>2. QED BY <1>1, AlwaysIInv, PTL

\* Once done, all the rough data that a model needs has a model.
LEMMA DoneModelled ==
  ASSUME IInv, stage = "done"
  PROVE  \A f \in Functions :
           Kind[f] \in {"interface", "structure"} \/ f \in listed
             => f \in model \/ IsConfused(f)
<1> SUFFICES ASSUME NEW f \in Functions,
                    Kind[f] \in {"interface", "structure"} \/ f \in listed
             PROVE  f \in model \/ IsConfused(f)
  OBVIOUS
<1>1. ~failed /\ ~news /\ todo = {}
  BY DEF IInv, Finished, TodoFits
<1>2. f \in data \/ IsConfused(f)
  BY <1>1 DEF IInv, AfterSession, Parsing
<1>3. InterfacesDone /\ StructuresDone /\ FunctionsDone
  BY <1>1 DEF IInv, ScriptsDone
<1>4. Kind[f] \in {"interface", "structure"} \/ (f \in listed /\ Kind[f] \in {"special", "misc"})
  BY DEF IInv, TypeOK, Listable
<1>5. QED
  BY <1>1, <1>2, <1>3, <1>4 DEF InterfacesDone, StructuresDone, FunctionsDone

\* The rounds end with a model that is closed: whatever the sources are, however the
\* tools end early, and whether or not the user begins an extraction from nothing; what
\* it lacks is at most a function with another's entry that has its name in it.
THEOREM PipelineClosed == Spec => []Closed
<1>1. ASSUME IInv PROVE Closed
  <2> SUFFICES ASSUME stage = "done" PROVE
        /\ \A f \in Functions : Kind[f] = "interface" => f \in model
        /\ \A f \in model : \A g \in Calls[f] : g \in model \/ IsConfused(g)
        /\ \A f \in model : Reads[f] \subseteq rawModel
        /\ \A r \in rawModel : Fields[r] \subseteq rawModel
    BY DEF Closed
  <2>1. \A f \in Functions : Kind[f] = "interface" => f \in model
    BY <1>1, DoneModelled DEF IsConfused, Listable
  <2>2. ASSUME NEW f \in model, NEW g \in Calls[f] PROVE g \in model \/ IsConfused(g)
    <3>1. f \in Functions
      BY <1>1 DEF IInv, TypeOK
    <3>2. g \in Functions /\ Kind[g] \in {"structure", "misc", "special"}
      BY <3>1, SourceAssumption DEF Kinds
    <3>3. Kind[g] # "structure" => g \in listed
      BY <1>1, <3>2 DEF IInv, NeedsListed, Found, Listable
    <3>4. QED BY <1>1, <3>2, <3>3, DoneModelled
  <2>3. rawList \subseteq rawModel /\ \A r \in rawModel : Fields[r] \subseteq rawModel
    <3>1. visited \subseteq rawModel /\ RawToDo = {} /\ visited \in SUBSET Raws
      BY <1>1 DEF IInv, RawDone, Finished, TypeOK
    <3>2. rawList \subseteq visited /\ \A r \in visited : Fields[r] \subseteq visited
      BY <3>1 DEF RawToDo
    <3>3. rawModel \subseteq visited
      BY <1>1, <3>1, <3>2 DEF IInv, RawReached
    <3>4. QED BY <3>1, <3>2, <3>3
  <2>4. \A f \in model : Reads[f] \subseteq rawList
    BY <1>1 DEF IInv, NeedsListed
  <2>5. QED BY <2>1, <2>2, <2>3, <2>4
<1>2. QED BY <1>1, AlwaysIInv, PTL
=============================================================================
