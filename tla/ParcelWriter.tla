---------------------------- MODULE ParcelWriter ----------------------------
(***************************************************************************)
(* What class ParcelWriter writes for the variables of a parcel, and how   *)
(* the writers of structures, unions and functions follow one another:     *)
(* parcel_writer.cpp, structure_type.cpp, union_type.cpp, array_type.cpp,  *)
(* blob_type.cpp and function_type.cpp.                                    *)
(*                                                                         *)
(* A transaction, a structure, a union or a function has a symbol table,   *)
(* and a sequence of items, which are indexes into it.  Each gets a        *)
(* ParcelReaderWriter of its own; the C++ call stack is the variable       *)
(* writers.  Most write to the parcel at its position; those of raw        *)
(* structures and unions write bytes to a buffer, which is written as a    *)
(* whole when the structure is complete.                                   *)
(*                                                                         *)
(* One cell of the parcel is enough for a value.  Integers have WordSize   *)
(* values and two bytes of base Base in a buffer.  Items that are repeated *)
(* by a loop occur several times (ParcelTraversal has the loops); whether  *)
(* a constraint holds is a choice (ConstraintCache has the constraints).   *)
(***************************************************************************)
EXTENDS Naturals, SequencesExt

CONSTANTS
  Parcel,      \* of transactions, structures, unions and functions
  Message,     \* of transactions
  KeymasterBlob, \* that of keystore::readKeymasterBlob
  kind,        \* kind[p], see Kinds
  table,       \* table[p]: the symbol table
  items,       \* items[p]: the data items
  params,      \* params[p]: the parameters of a function, in its table
  Base,
  Ints,        \* the integers that are generated
  Sizes,       \* the sizes that are generated
  MaxArray,    \* MAX_ARRAY_SIZE
  BlobLimit    \* the largest blob that is written in place

WordSize == Base * Base
Minus1 == WordSize - 1

Kinds == {"transaction", "parcelable", "flattenable", "light", "fixed", "stats",
          "raw", "union", "function"}
Types == {"int8", "int", "bool", "flatbool", "string", "utf8", "token", "fd", "binder",
          "literal", "uuid", "blob", "array", "bytes", "parcel"}

\* of: what the structure, union or function may be, that of a function being chosen;
\* by, n: the size is that of a variable, a number, or a vector's own; for a literal
\* n is its value.  args: of a function, variables or what initArgv makes of their type.
Variable == [type : Types, of : SUBSET Parcel, by : {"own", "number", "name"}, n : Nat,
             args : Seq(Nat \X {"int", "bool", "ignored", "unsupported"}),
             present : BOOLEAN,   \* have_parcelable
             guarded : BOOLEAN,   \* has an under_constraint
             dependency : BOOLEAN,
             untried : BOOLEAN,   \* its self constraint is not found: no value is tried
             erases : SUBSET Nat] \* the variables whose names begin with its type

WriterAssumption ==
  /\ Message \subseteq Parcel /\ kind \in [Parcel -> Kinds]
  /\ table \in [Parcel -> Seq(Variable)]
  /\ items \in [Parcel -> Seq(Nat)] /\ params \in [Parcel -> Seq(Nat)]
  /\ \A p \in Parcel : Range(items[p]) \cup Range(params[p]) \subseteq DOMAIN table[p]
  /\ Base \in Nat \ {0, 1} /\ MaxArray \in 1..WordSize - 1 /\ BlobLimit \in 1..WordSize - 2
  /\ Ints \subseteq 0..WordSize - 1 /\ Sizes \subseteq 0..WordSize - 1

IsArray(v) == v.type \in {"array", "bytes"}
IsElement(p, x) == \E y \in DOMAIN table[p] : x = y + 1 /\ IsArray(table[p][y])

\* The models have the variable of an element behind that of its array, unless bytes are
\* written at once, and as many variables as items in a union.
ElementsFollow ==
  \A p \in Parcel :
    /\ \A x \in DOMAIN table[p] :
         table[p][x].type = "array" \/ (table[p][x].type = "bytes" /\ kind[p] \in {"raw", "union"})
           => x + 1 \in DOMAIN table[p]
    /\ kind[p] = "union" => DOMAIN items[p] \subseteq DOMAIN table[p]

\* No model has an array whose size is an element of another array, or a call that passes
\* an element: its value is not cleared with the array (see ElementsKnown).
SizesWhole ==
  \A p \in Parcel : \A x \in DOMAIN table[p] :
    IsArray(table[p][x]) /\ table[p][x].by = "name" => ~IsElement(p, table[p][x].n)
ArgumentsWhole ==
  \A p \in Parcel : \A x \in DOMAIN table[p] : \A i \in DOMAIN table[p][x].args :
    ~IsElement(p, table[p][x].args[i][1])

\* A function has different parameters, at least as many as a call passes; that with a
\* default, which readKeymasterBlob has alone, is its second and last one.
ParametersFit ==
  /\ \A q \in Parcel : IsInjective(params[q])
  /\ \A p \in Parcel : \A x \in DOMAIN table[p] : \A q \in table[p][x].of :
       kind[q] = "function" =>
         \A i \in DOMAIN table[p][x].args :
           table[p][x].args[i][2] \in {"int", "bool"} => i \in DOMAIN params[q]
  /\ KeymasterBlob \in Parcel => Len(params[KeymasterBlob]) = 2

VARIABLES
  parcel,    \* data: a sequence of cells
  position,  \* dataPosition
  writers,   \* the active ParcelReaderWriters, innermost last
  exited     \* exit(0), or a failed assertion

vars == <<parcel, position, writers, exited>>

\* fds, level: fdCount and flattenableLevel; value: the values of the variables that are
\* cached; start, startFds: what the structure's function remembers of its parent.
\* History: said, what the parcel or the buffer tells of a variable that was written
\* last; wanted, the bytes that the buffer should have.
Writer(p, todo, raw, level) ==
  [of |-> p, todo |-> todo, isRaw |-> raw, level |-> level, fds |-> 0, arrays |-> <<>>,
   rawData |-> <<>>, value |-> <<>>, start |-> 0, startFds |-> 0,
   said |-> <<>>, wanted |-> <<>>]

Init ==
  /\ parcel = <<>> /\ position = 0 /\ exited = FALSE
  /\ \E p \in Message : writers = <<Writer(p, items[p], FALSE, 0)>>

-----------------------------------------------------------------------------
Top    == Last(writers)
Parent == writers[Len(writers) - 1]
Array  == Last(Top.arrays)
SetTop(w) == writers' = [writers EXCEPT ![Len(writers)] = w]

\* An element's variable follows that of its array.
Ready == ~exited /\ IF Top.arrays = <<>> THEN Top.todo # <<>> ELSE Array.left > 0
Idx   == IF Top.arrays = <<>> THEN Head(Top.todo) ELSE Array.var + 1
V     == table[Top.of][Idx]

OneMade(f) == [var |-> f.var, left |-> f.left - 1, made |-> f.made + 1]
Done(w) ==
  IF w.arrays = <<>> THEN [w EXCEPT !.todo = Tail(@)]
  ELSE [w EXCEPT !.arrays[Len(w.arrays)] = OneMade(@)]

Without(f, S) == [x \in DOMAIN f \ S |-> f[x]]
With(f, x, y) == [z \in DOMAIN f \cup {x} |-> IF z = x THEN y ELSE f[z]]

\* Mutant: the value of an earlier iteration stays.
Uncleared == [Top EXCEPT !.said = Without(@, {Idx})]

\* write() begins by clearing the cached status of the variable.
Cleared == [Top EXCEPT !.value = Without(@, {Idx}), !.said = Without(@, {Idx})]

\* generate: the last value tried is stored; when no value is tried, none is.
Stored(w, v) == IF V.untried THEN w ELSE [w EXCEPT !.value = With(@, Idx, v)]
Said(w, v)   == [w EXCEPT !.said = With(@, Idx, v)]

-----------------------------------------------------------------------------
(* android::Parcel, and the buffer *)

\* The cells that are not integers.  A C string ends at the first zero in the string.
Strings    == {WordSize, WordSize + 1}
CString(s) == IF s = WordSize + 1 THEN WordSize + 2 ELSE s
Token  == WordSize + 3
Fd     == WordSize + 4
Binder == WordSize + 5
Uuid   == WordSize + 6
Byte   == WordSize + 7
Hole   == WordSize + 8
Cell   == 0..Hole

\* The parcel d with these cells from position p on; setDataPosition may leave a hole.
Put(d, cells, p) ==
  [i \in 1..Max({Len(d), p + Len(cells)}) |->
     IF i \in p + 1..p + Len(cells) THEN cells[i - p]
     ELSE IF i \in DOMAIN d THEN d[i] ELSE Hole]
Write(cells) ==
  parcel' = Put(parcel, cells, position) /\ position' = position + Len(cells)

BytesOf(v) == <<v % Base, v \div Base>>

\* strncpy copies until the first byte that is zero, and fills up with zeros.
StrnCopy(bytes) ==
  [i \in DOMAIN bytes |-> IF 0 \in Range(SubSeq(bytes, 1, i)) THEN 0 ELSE bytes[i]]

\* Mutant: the buffer is not extended.
WriteRawOver(w, bytes, wanted) ==
  [w EXCEPT !.rawData = StrnCopy(bytes), !.wanted = @ \o wanted]

\* writeRawToData
WriteRawToData(w, bytes, wanted) ==
  [w EXCEPT !.rawData = @ \o StrnCopy(bytes), !.wanted = @ \o wanted]


-----------------------------------------------------------------------------
(* Values *)

Unchanged == UNCHANGED <<parcel, position, exited>>

\* The array stops the fuzzer when an element of a buffer is a dependency.
Stuck == Top.arrays # <<>> /\ Top.isRaw /\ V.dependency
Item  == Ready /\ ~Stuck

\* checkUnderConstraint fails.
SkipItem == Item /\ V.guarded /\ SetTop(Done(Top)) /\ Unchanged

\* What a reply had is written to the parcel, from a buffer's writer as well; the value is
\* not stored.  For an element the array does it, before write() is called, or write() does.
Solved(w, v) == SetTop(Done(Said(w, v))) /\ Write(<<v>>) /\ UNCHANGED exited
FromDependency        == Item /\ V.dependency /\ \E v \in Ints : Solved(Cleared, v)
ElementFromDependency == Item /\ V.dependency /\ Top.arrays # <<>> /\ \E v \in Ints : Solved(Top, v)

WriteInt8 ==
  /\ Item /\ V.type = "int8" /\ Top.isRaw
  /\ \E b \in {v % Base : v \in Ints} : SetTop(Done(WriteRawToData(Cleared, <<b>>, <<b>>)))
  /\ Unchanged

Values == IF V.type \in {"bool", "flatbool"} THEN {0, 1} ELSE Ints

\* When no value is tried, an uninitialized one is written.
WriteInt ==
  /\ Item /\ V.type \in {"int", "bool"} \cup (IF Top.isRaw THEN {"flatbool"} ELSE {})
  /\ \E v \in Values :
       LET w == Said(Stored(Cleared, v), v) IN
       IF Top.isRaw
       THEN SetTop(Done(WriteRawToData(w, BytesOf(v), BytesOf(v)))) /\ Unchanged
       ELSE SetTop(Done(w)) /\ Write(<<v>>) /\ UNCHANGED exited

\* "here we should just write one byte": data() is the beginning of the parcel.
WriteFlattenableBool ==
  /\ Item /\ V.type = "flatbool" /\ ~Top.isRaw
  /\ \E v \in Values : SetTop(Done(Stored(Cleared, v)))
  /\ parcel' = Put(parcel, <<Byte>>, 0) /\ position' = position + 1
  /\ UNCHANGED exited

\* writeString16, writeString8 and writeCString; those of "utf8" are written whole.
WriteString ==
  /\ Item /\ V.type \in {"string", "utf8"} /\ ~Top.isRaw
  /\ \E v \in IF V.untried THEN {WordSize} ELSE Strings :
       LET written == IF V.type = "utf8" THEN v ELSE CString(v) IN
       SetTop(Done(Said(Stored(Cleared, v), written))) /\ Write(<<written>>)
  /\ UNCHANGED exited

\* The interface token is stored when it is written.
WriteToken ==
  /\ Item /\ V.type = "token" /\ ~Top.isRaw
  /\ SetTop(Done(Said(Stored(Cleared, Token), Token))) /\ Write(<<Token>>)
  /\ UNCHANGED exited

\* Within a flattenable structure a descriptor is counted only.
WriteFileDescriptor ==
  /\ Item /\ V.type = "fd" /\ ~Top.isRaw /\ UNCHANGED exited
  /\ IF Top.level > 0
     THEN SetTop(Done([Cleared EXCEPT !.fds = @ + 1])) /\ UNCHANGED <<parcel, position>>
     ELSE SetTop(Done(Said(Stored(Cleared, Fd), Fd))) /\ Write(<<Fd>>)

WriteStrongBinder ==
  /\ Item /\ V.type = "binder" /\ ~Top.isRaw
  /\ SetTop(Done(Cleared)) /\ Write(<<Binder>>) /\ UNCHANGED exited

Erased(w) == [w EXCEPT !.value = Without(@, table[w.of][Idx].erases)]

\* A literal, and struct audio_uuid_s, are written to the parcel, even from the writer
\* of a buffer.
WriteLiteral ==
  /\ Item /\ V.type = "literal"
  /\ SetTop(Done(Cleared)) /\ Write(<<V.n>>) /\ UNCHANGED exited
WriteUuid ==
  /\ Item /\ V.type = "uuid"
  /\ SetTop(Done(Erased(Cleared))) /\ Write(<<Uuid>>) /\ UNCHANGED exited

-----------------------------------------------------------------------------
(* Arrays and blobs *)

\* getVarSize; a vector has no "size", which is 0.
VarSize ==
  CASE V.by = "number" -> V.n
    [] V.by = "own" -> 0
    [] V.by = "name" -> IF V.n \in DOMAIN Cleared.value THEN Cleared.value[V.n] ELSE Minus1

\* Mutant: one element more.
ElementsOneMore(size) == Min({size + 1, MaxArray})

Elements(size) == Min({size, MaxArray})

Frame(n) == [var |-> Idx, left |-> n, made |-> 0]
Pushed(w, f) == [w EXCEPT !.arrays = Append(@, f)]

\* A vector writes a size of its own; another array's is that of VarSize.
ArraySizes   == IF V.by = "own" THEN Sizes ELSE {VarSize}
SizeCells(n) == IF V.by = "own" THEN <<n>> ELSE <<>>

WriteArray ==
  /\ Item /\ V.type = "array" /\ ~Top.isRaw
  /\ \E n \in ArraySizes :
       /\ Write(SizeCells(n))
       /\ SetTop(Pushed(IF V.by = "own" THEN Said(Cleared, n) ELSE Cleared, Frame(Elements(n))))
  /\ UNCHANGED exited

\* Arrays of bytes are written at once; so is the one named uuid, of 16 bytes.
WriteBytes ==
  /\ Item /\ V.type = "bytes" /\ ~Top.isRaw
  /\ \E n \in ArraySizes : Write(SizeCells(n) \o [i \in 1..Elements(n) |-> Byte])
  /\ SetTop(Done(Cleared)) /\ UNCHANGED exited

\* ArrayType::generateRaw has no limit, but an assertion.
WriteRawArray ==
  /\ Item /\ V.type \in {"array", "bytes"} /\ Top.isRaw /\ VarSize # Minus1
  /\ SetTop(Pushed(Cleared, Frame(VarSize))) /\ Unchanged

LeaveArray ==
  /\ ~exited /\ Top.arrays # <<>> /\ Array.left = 0
  /\ SetTop(Done([Top EXCEPT !.arrays = Front(@)])) /\ Unchanged

\* A blob that is too large is in a file.
WriteBlob ==
  /\ Item /\ V.type = "blob" /\ ~Top.isRaw
  /\ IF VarSize <= BlobLimit THEN Write(<<0>> \o [i \in 1..VarSize |-> Byte])
     ELSE \E blobType \in {1, 2} : Write(<<blobType, Fd>>)
  /\ SetTop(Done(Cleared)) /\ UNCHANGED exited

-----------------------------------------------------------------------------
(* Structures, unions and functions *)

Started(child) == [child EXCEPT !.start = position, !.startFds = Top.fds]
Call(w, child) ==
  /\ writers' = Append([writers EXCEPT ![Len(writers)] = w], Started(child))
  /\ UNCHANGED exited
Enters(p, kinds) == Item /\ V.type = "parcel" /\ p \in V.of /\ kind[p] \in kinds

EnterParcelable(p) ==
  /\ Enters(p, {"parcelable"})
  /\ Write(IF V.present THEN <<1>> ELSE <<>>)
  /\ Call(Cleared, Writer(p, items[p], FALSE, 0))

\* The length, and the number of descriptors, are not known yet.
EnterFlattenable(p) ==
  /\ Enters(p, {"flattenable"})
  /\ Write(<<0, 0>>)
  /\ Call([Cleared EXCEPT !.level = @ + 1], Writer(p, items[p], FALSE, Top.level + 1))

EnterLightFlattenable(p) ==
  /\ Enters(p, {"light", "fixed"})
  /\ Write(IF kind[p] = "light" THEN <<0>> ELSE <<>>)
  /\ Call(Cleared, Writer(p, items[p], FALSE, 0))

EnterRaw(p) ==
  /\ Enters(p, {"raw"})
  /\ Call(Cleared, Writer(p, items[p], TRUE, 0)) /\ UNCHANGED <<parcel, position>>

\* One variable is written; the number of the items is taken for that of the variables.
EnterUnion(p) ==
  /\ Enters(p, {"union"})
  /\ \E i \in DOMAIN items[p] : Call(Cleared, Writer(p, <<i>>, TRUE, 0))
  /\ UNCHANGED <<parcel, position>>

\* initArgv: a value that is not known is passed as -1.
Passed == {i \in DOMAIN V.args : V.args[i][2] \in {"int", "bool"}}
Argument(i) ==
  LET x == V.args[i][1] IN
  IF x \in DOMAIN Cleared.value THEN Cleared.value[x] ELSE IF V.args[i][2] = "bool" THEN 1 ELSE Minus1
Arguments(p, given) ==
  [x \in {params[p][i] : i \in DOMAIN given} |->
     given[CHOOSE i \in DOMAIN given : params[p][i] = x]]
ArgumentSaid(i) == Top.said[V.args[i][1]]
HasDefault(p) == Len(V.args) < Len(params[p])
Defaults(p, f) == IF HasDefault(p) THEN With(f, params[p][2], 1) ELSE f
CanInitArgv(p) ==
  /\ \A i \in DOMAIN V.args : V.args[i][2] # "unsupported"
  /\ HasDefault(p) => p = KeymasterBlob

EnterFunction(p) ==
  /\ Enters(p, {"function"}) /\ CanInitArgv(p)
  /\ LET known == {i \in Passed : V.args[i][1] \in DOMAIN Cleared.value \cap DOMAIN Top.said}
     IN Call(Cleared, [Writer(p, items[p], FALSE, 0) EXCEPT
                         !.value = Defaults(p, Arguments(p, [i \in Passed |-> Argument(i)])),
                         !.said  = Arguments(p, [i \in known |-> ArgumentSaid(i)])])
  /\ UNCHANGED <<parcel, position>>

-----------------------------------------------------------------------------
(* Their ends *)

Ended(kinds) ==
  /\ ~exited /\ Len(writers) > 1 /\ Top.arrays = <<>> /\ Top.todo = <<>>
  /\ kind[Top.of] \in kinds /\ UNCHANGED exited

\* The parent goes on, after eraseStructStatus; a union has none.
ParentIdx == IF Parent.arrays = <<>> THEN Head(Parent.todo) ELSE Last(Parent.arrays).var + 1
ErasedIn(w) == [w EXCEPT !.value = Without(@, table[w.of][ParentIdx].erases)]
Return(w) == writers' = Append(SubSeq(writers, 1, Len(writers) - 2), Done(w))

LeaveStructure ==
  /\ Ended({"parcelable", "fixed", "function"})
  /\ Return(ErasedIn(Parent)) /\ UNCHANGED <<parcel, position>>

\* The position is set back to the start, and only then taken for the end.
End == Top.start

LeaveLightFlattenable ==
  /\ Ended({"light"})
  /\ parcel' = Put(parcel, <<End - Top.start>>, Top.start) /\ position' = End
  /\ Return(ErasedIn(Parent))

\* Nested flattenable structures leave their headers to the outermost one, which takes
\* the descriptors that its parent has counted.
LeaveFlattenable ==
  /\ Ended({"flattenable"})
  /\ IF Top.level - 1 > 0 THEN UNCHANGED <<parcel, position>>
     ELSE LET fdCount == Parent.fds - Top.startFds
              fixed   == Put(parcel, <<End - Top.start, fdCount>>, Top.start)
          IN parcel' = Put(fixed, [i \in 1..fdCount |-> Fd], End) /\ position' = End + fdCount
  /\ Return([ErasedIn(Parent) EXCEPT !.level = Top.level - 1])

\* The buffer is written to that of the parent, or to the parcel.
LeaveRaw ==
  /\ Ended({"raw", "union"})
  /\ LET p == IF kind[Top.of] = "raw" THEN ErasedIn(Parent) ELSE Parent IN
     IF Parent.isRaw
     THEN Return(WriteRawToData(p, Top.rawData, Top.wanted)) /\ UNCHANGED <<parcel, position>>
     ELSE Return(p) /\ Write(Top.rawData)

-----------------------------------------------------------------------------
\* The writer of class FrameStats stores frameCount to its parent, whose table has no such
\* variable.
NotSupported(p) == kind[p] = "stats" \/ (kind[p] = "function" /\ ~CanInitArgv(p))

\* What no writer is prepared for.
Refused ==
  \/ Stuck
  \/ Top.isRaw /\ V.type \in {"string", "utf8", "token", "fd", "binder", "blob"}
  \/ ~Top.isRaw /\ V.type = "int8"
  \/ Top.isRaw /\ V.type \in {"array", "bytes"} /\ VarSize = Minus1
  \/ V.type = "parcel" /\ (V.of = {} \/ \E p \in V.of : NotSupported(p))
Exit == Ready /\ Refused /\ exited' = TRUE /\ UNCHANGED <<parcel, position, writers>>

Enter(p) == \/ EnterParcelable(p) \/ EnterFlattenable(p) \/ EnterLightFlattenable(p)
            \/ EnterRaw(p) \/ EnterUnion(p) \/ EnterFunction(p)
Leave == LeaveArray \/ LeaveStructure \/ LeaveLightFlattenable \/ LeaveFlattenable \/ LeaveRaw

Next ==
  \/ SkipItem \/ FromDependency \/ ElementFromDependency
  \/ WriteInt8 \/ WriteInt \/ WriteFlattenableBool \/ WriteString \/ WriteToken
  \/ WriteFileDescriptor \/ WriteStrongBinder \/ WriteLiteral \/ WriteUuid
  \/ WriteArray \/ WriteBytes \/ WriteRawArray \/ WriteBlob
  \/ (\E p \in Parcel : Enter(p)) \/ Leave \/ Exit

Spec == Init /\ [][Next]_vars

-----------------------------------------------------------------------------
\* What the writer of a parcel knows of a variable, on which the constraints and the sizes
\* of arrays depend, is what the parcel tells the receiver, up to the end of a C string
\* (parcel_writer.cpp:457, "we need to clear its cached status").  Elements of arrays are
\* the subject of ElementsKnown.
Remembered(w) == {x \in DOMAIN w.value \cap DOMAIN w.said : ~w.isRaw}
Agrees(w, x) == w.said[x] \in {w.value[x], CString(w.value[x])}
KnownIsSaid ==
  \A k \in DOMAIN writers : \A x \in Remembered(writers[k]) :
    ~IsElement(writers[k].of, x) => Agrees(writers[k], x)
ElementsKnown ==
  \A k \in DOMAIN writers : \A x \in Remembered(writers[k]) : Agrees(writers[k], x)

\* An array in a parcel has the number of elements that the parcel says, up to MAX_ARRAY_SIZE:
\* the vector's own size, or the variable that gives it when the writer knows that
\* (array_type.cpp:54-87, 116).
SizeVariable == LET a == table[Top.of][Array.var] IN IF a.by = "own" THEN Array.var ELSE a.n
SizeKnown == LET a == table[Top.of][Array.var] IN
  /\ ~Top.isRaw /\ SizeVariable \in DOMAIN Top.said
  /\ a.by = "own" \/ (a.by = "name" /\ a.n \in DOMAIN Top.value)
ArraysSized ==
  [][LeaveArray /\ SizeKnown => Array.made = Min({Top.said[SizeVariable], MaxArray})]_vars

\* A buffer has as many bytes as the members that were written to it, each at its place:
\* it is the byte of the member, or a zero (parcel_writer.cpp:40-46).
RawBytes ==
  \A k \in DOMAIN writers : LET w == writers[k] IN
    /\ Len(w.rawData) = Len(w.wanted)
    /\ \A i \in DOMAIN w.rawData : w.rawData[i] \in {0, w.wanted[i]}

-----------------------------------------------------------------------------
(* What comments say, and is not so *)

\* When a flattenable structure, or a light one, has been written, the word in front of
\* it is its length, from its start to where its content ended (structure_type.cpp:54,
\* "fix buf len"; line 131 for the flattenable ones).
LengthFixed == [][LeaveLightFlattenable => parcel'[Top.start + 1] = position - Top.start]_vars

\* The next word of a flattenable structure that is not in another one is the number of
\* descriptors counted in it (structure_type.cpp:136, "fix fd count").
FdCountFixed ==
  [][LeaveFlattenable /\ Top.level = 1 => parcel'[Top.start + 2] = Top.fds]_vars

\* The buffer of a raw structure that is within another one becomes part of its buffer
\* (parcel_writer.cpp:288-289, "we should write it to the rawbuffer").
RawCopied ==
  [][LeaveRaw /\ Parent.isRaw => IsSuffix(Top.rawData, writers'[Len(writers')].rawData)]_vars

\* The one byte of a bool is written after what there is (parcel_writer.cpp:164, "here we
\* should just write one byte").
ByteInPlace ==
  [][WriteFlattenableBool => \A i \in 1..position : parcel'[i] = parcel[i]]_vars
=============================================================================
