------------------------- MODULE ParcelWriterProofs -------------------------
(***************************************************************************)
(* Theorems about ParcelWriter, for every table of variables, however      *)
(* structures, unions, functions and arrays are nested.                    *)
(*                                                                         *)
(* The actions differ in what they write.  For the writers each of them is *)
(* one of six shapes: the top writer is done with an item, begins or ends  *)
(* an array, calls another writer, returns to its caller, or nothing       *)
(* happens.  In all of them no writer comes to know anything but of the    *)
(* variable it is at (Learned).  Lemma StepShape classifies the actions;   *)
(* the invariant is proved from the shapes.                                *)
(***************************************************************************)
EXTENDS ParcelWriter, TLAPS, SequenceTheorems

-----------------------------------------------------------------------------
(* The operators *)

\* What is known of variables: values by their index.
Knowledge == UNION {[S -> Nat] : S \in SUBSET Nat}
FrameSet  == [var : Nat, left : Nat, made : Nat]
WriterSet == [of : Parcel, todo : Seq(Nat), isRaw : BOOLEAN, level : Int, fds : Nat,
              arrays : Seq(FrameSet), rawData : Seq(Nat), value : Knowledge, start : Nat,
              startFds : Nat, said : Knowledge, wanted : Seq(Nat)]

\* The numbers that the constants are made of.
LEMMA Numbers ==
  ASSUME WriterAssumption
  PROVE  /\ Base \in Nat /\ Base > 0 /\ WordSize \in Nat /\ WordSize > 0 /\ Minus1 \in Nat
         /\ MaxArray \in Nat /\ MaxArray > 0 /\ MaxArray < WordSize
         /\ Ints \subseteq Nat /\ Sizes \subseteq Nat
<1>1. Base \in Nat /\ Base > 0
  BY DEF WriterAssumption
<1>2. Base * Base \in Nat
  BY <1>1
<1>3. WordSize \in Nat /\ MaxArray \in 1..WordSize - 1
  BY <1>2 DEF WriterAssumption, WordSize
<1>4. Ints \subseteq 0..WordSize - 1 /\ Sizes \subseteq 0..WordSize - 1
  BY DEF WriterAssumption
<1> QED
  BY <1>1, <1>3, <1>4 DEF Minus1

\* What With adds and Without takes away.
LEMMA WithLemma ==
  ASSUME NEW f \in Knowledge, NEW x \in Nat, NEW y \in Nat
  PROVE  /\ With(f, x, y) \in Knowledge
         /\ DOMAIN With(f, x, y) = DOMAIN f \cup {x} /\ With(f, x, y)[x] = y
         /\ \A z \in DOMAIN f : z # x => With(f, x, y)[z] = f[z]
<1>1. DOMAIN f \in SUBSET Nat /\ \A z \in DOMAIN f : f[z] \in Nat
  BY DEF Knowledge
<1>2. With(f, x, y) \in [DOMAIN f \cup {x} -> Nat] /\ DOMAIN f \cup {x} \in SUBSET Nat
  BY <1>1 DEF With
<1>3. With(f, x, y) \in Knowledge
  BY <1>2 DEF Knowledge
<1> QED
  BY <1>3 DEF With

LEMMA WithoutLemma ==
  ASSUME NEW f \in Knowledge, NEW S
  PROVE  /\ Without(f, S) \in Knowledge
         /\ DOMAIN Without(f, S) = DOMAIN f \ S
         /\ \A z \in DOMAIN f \ S : Without(f, S)[z] = f[z]
<1>1. DOMAIN f \in SUBSET Nat /\ \A z \in DOMAIN f : f[z] \in Nat
  BY DEF Knowledge
<1>2. Without(f, S) \in [DOMAIN f \ S -> Nat] /\ DOMAIN f \ S \in SUBSET Nat
  BY <1>1 DEF Without
<1>3. Without(f, S) \in Knowledge
  BY <1>2 DEF Knowledge
<1> QED
  BY <1>3 DEF Without

\* The elements of an array are no more than MaxArray.
LEMMA ElementsLemma ==
  ASSUME WriterAssumption, NEW size \in Nat
  PROVE  /\ Elements(size) = IF size <= MaxArray THEN size ELSE MaxArray
         /\ Elements(size) \in Nat
<1>1. MaxArray \in Nat
  BY Numbers
<1> DEFINE m == IF size <= MaxArray THEN size ELSE MaxArray
<1>2. m \in {size, MaxArray} /\ \A y \in {size, MaxArray} : m <= y
  BY <1>1
<1>3. \A x \in {size, MaxArray} : (\A y \in {size, MaxArray} : x <= y) => x = m
  BY <1>1
<1>4. Min({size, MaxArray}) = m
  <2> HIDE DEF m
  <2> QED BY <1>2, <1>3 DEF Min
<1> QED
  BY <1>1, <1>4 DEF Elements

\* A string that is cut off is as good a size as the whole one.
LEMMA CStringLemma ==
  ASSUME WriterAssumption, NEW v \in Nat
  PROVE  CString(v) \in Nat /\ Elements(CString(v)) = Elements(v)
<1>1. WordSize \in Nat /\ MaxArray \in Nat /\ MaxArray < WordSize
  BY Numbers
<1>2. CString(v) \in Nat
  BY <1>1 DEF CString
<1>3. CASE v = WordSize + 1
  BY <1>1, <1>2, <1>3, ElementsLemma DEF CString
<1>4. CASE v # WordSize + 1
  BY <1>2, <1>4 DEF CString
<1> QED
  BY <1>3, <1>4

\* A buffer as RawBytes has it.
BytesFit(data, wanted) ==
  /\ data \in Seq(Nat) /\ wanted \in Seq(Nat) /\ Len(data) = Len(wanted)
  /\ \A i \in 1..Len(data) : data[i] \in {0, wanted[i]}

\* Copying bytes that fit, and appending bytes that fit, gives bytes that fit.
LEMMA StrnCopyFits ==
  ASSUME NEW data, NEW wanted, BytesFit(data, wanted)
  PROVE  BytesFit(StrnCopy(data), wanted)
<1>1. DOMAIN data = 1..Len(data) /\ Len(data) \in Nat
  BY DEF BytesFit
<1>2. \A i \in 1..Len(data) : StrnCopy(data)[i] \in {0, data[i]} /\ data[i] \in Nat
  BY <1>1 DEF StrnCopy, BytesFit
<1>3. DOMAIN StrnCopy(data) = 1..Len(data)
  BY <1>1 DEF StrnCopy
<1>4. StrnCopy(data) \in [1..Len(data) -> Nat]
  BY <1>1, <1>2, <1>3 DEF StrnCopy
<1>5. StrnCopy(data) \in Seq(Nat) /\ Len(StrnCopy(data)) = Len(data)
  BY <1>1, <1>3, <1>4
<1> QED
  BY <1>2, <1>5 DEF BytesFit

LEMMA AppendFits ==
  ASSUME NEW d1, NEW w1, NEW d2, NEW w2, BytesFit(d1, w1), BytesFit(d2, w2)
  PROVE  BytesFit(d1 \o d2, w1 \o w2)
<1>1. d1 \in Seq(Nat) /\ d2 \in Seq(Nat) /\ w1 \in Seq(Nat) /\ w2 \in Seq(Nat)
  BY DEF BytesFit
<1>2. Len(d1) = Len(w1) /\ Len(d2) = Len(w2)
  BY DEF BytesFit
<1>3. d1 \o d2 \in Seq(Nat) /\ w1 \o w2 \in Seq(Nat) /\ Len(d1 \o d2) = Len(w1 \o w2)
  <2>1. d1 \o d2 \in Seq(Nat) /\ Len(d1 \o d2) = Len(d1) + Len(d2)
    BY <1>1, ConcatProperties
  <2>2. w1 \o w2 \in Seq(Nat) /\ Len(w1 \o w2) = Len(w1) + Len(w2)
    BY <1>1, ConcatProperties
  <2> QED BY <1>2, <2>1, <2>2
<1>4. \A i \in 1..Len(d1 \o d2) :
        /\ (d1 \o d2)[i] = IF i <= Len(d1) THEN d1[i] ELSE d2[i - Len(d1)]
        /\ (w1 \o w2)[i] = IF i <= Len(d1) THEN w1[i] ELSE w2[i - Len(d1)]
        /\ IF i <= Len(d1) THEN i \in 1..Len(d1) ELSE i - Len(d1) \in 1..Len(d2)
  <2>1. Len(d1) \in Nat /\ Len(d2) \in Nat /\ Len(d1 \o d2) = Len(d1) + Len(d2)
    BY <1>1, ConcatProperties
  <2>2. \A i \in 1..Len(d1) + Len(d2) :
          (d1 \o d2)[i] = IF i <= Len(d1) THEN d1[i] ELSE d2[i - Len(d1)]
    BY <1>1, ConcatProperties
  <2>3. \A i \in 1..Len(w1) + Len(w2) :
          (w1 \o w2)[i] = IF i <= Len(w1) THEN w1[i] ELSE w2[i - Len(w1)]
    BY <1>1, ConcatProperties
  <2>4. \A i \in 1..Len(d1) + Len(d2) :
          IF i <= Len(d1) THEN i \in 1..Len(d1) ELSE i - Len(d1) \in 1..Len(d2)
    BY <2>1
  <2> QED BY <1>2, <2>1, <2>2, <2>3, <2>4
<1>5. ASSUME NEW i \in 1..Len(d1 \o d2) PROVE (d1 \o d2)[i] \in {0, (w1 \o w2)[i]}
  BY <1>4 DEF BytesFit
<1> QED
  BY <1>3, <1>5 DEF BytesFit

-----------------------------------------------------------------------------
(* One writer *)

\* The variable at which a writer is.
AtItem(w) == IF w.arrays = <<>> THEN w.todo # <<>> ELSE Last(w.arrays).left > 0
IdxOf(w)  == IF w.arrays = <<>> THEN Head(w.todo) ELSE Last(w.arrays).var + 1

\* Where a writer can be: at variables of its table, in arrays of which each is an element
\* of the one before.
Located(w) ==
  /\ \A i \in 1..Len(w.todo) : w.todo[i] \in DOMAIN table[w.of]
  /\ w.isRaw => kind[w.of] \in {"raw", "union"}
  /\ w.arrays # <<>> => w.todo # <<>>
  /\ \A k \in 1..Len(w.arrays) :
       /\ w.arrays[k].var \in DOMAIN table[w.of]
       /\ IsArray(table[w.of][w.arrays[k].var])
       /\ w.isRaw \/ table[w.of][w.arrays[k].var].type = "array"
       /\ k < Len(w.arrays) => w.arrays[k].left > 0
       /\ \A j \in 1..k - 1 : w.arrays[j].var < w.arrays[k].var

\* What a writer knows of a variable is what it has said.
Honest(w) ==
  \A x \in DOMAIN w.value \cap DOMAIN w.said : ~IsElement(w.of, x) => Agrees(w, x)

\* The elements of an array, those that are made and those that are left, are as many
\* as the parcel says.
FrameSized(w, f) ==
  LET a == table[w.of][f.var] IN
  /\ a.by = "own" /\ f.var \in DOMAIN w.said => f.made + f.left = Elements(w.said[f.var])
  /\ a.by = "name" /\ a.n \in DOMAIN w.value \cap DOMAIN w.said
       => f.made + f.left = Elements(w.said[a.n])
Sized(w) == ~w.isRaw => \A k \in 1..Len(w.arrays) : FrameSized(w, w.arrays[k])

WriterOK(w) == /\ w \in WriterSet /\ Located(w) /\ Honest(w) /\ Sized(w)
               /\ BytesFit(w.rawData, w.wanted)

WritersInv ==
  /\ writers \in Seq(WriterSet) /\ writers # <<>> /\ position \in Nat
  /\ \A k \in 1..Len(writers) : WriterOK(writers[k])
  /\ \A k \in 1..Len(writers) - 1 :
       AtItem(writers[k]) /\ writers[k + 1].startFds = writers[k].fds

\* u is the writer w after what it did with its variable x, of which alone it has learned
\* something.
Learned(u, w, x) ==
  /\ u \in WriterSet /\ BytesFit(u.rawData, u.wanted)
  /\ u.of = w.of /\ u.isRaw = w.isRaw /\ u.todo = w.todo /\ u.arrays = w.arrays
  /\ u.startFds = w.startFds
  /\ \A y \in DOMAIN u.value : y # x => y \in DOMAIN w.value /\ u.value[y] = w.value[y]
  /\ \A y \in DOMAIN u.said : y # x => y \in DOMAIN w.said /\ u.said[y] = w.said[y]
  /\ ~IsElement(u.of, x) /\ x \in DOMAIN u.value \cap DOMAIN u.said => Agrees(u, x)

-----------------------------------------------------------------------------
\* The frames of a writer.
LEMMA FrameLemma ==
  ASSUME NEW w \in WriterSet
  PROVE  /\ w.arrays \in Seq(FrameSet) /\ Len(w.arrays) \in Nat
         /\ \A k \in 1..Len(w.arrays) :
              /\ w.arrays[k] \in FrameSet
              /\ w.arrays[k].var \in Nat /\ w.arrays[k].left \in Nat /\ w.arrays[k].made \in Nat
         /\ w.arrays # <<>> => Len(w.arrays) \in 1..Len(w.arrays)
<1>1. w.arrays \in Seq(FrameSet)
  BY DEF WriterSet
<1>2. \A k \in 1..Len(w.arrays) : w.arrays[k] \in FrameSet
  BY <1>1
<1>3. \A f \in FrameSet : f.var \in Nat /\ f.left \in Nat /\ f.made \in Nat
  BY DEF FrameSet
<1>4. Len(w.arrays) \in Nat /\ (w.arrays # <<>> => Len(w.arrays) \in 1..Len(w.arrays))
  BY <1>1
<1> QED
  BY <1>1, <1>2, <1>3, <1>4

\* A writer that is at an item is at a variable of its table, which is an element when the
\* writer is in an array, and behind all the arrays it is in.
LEMMA IdxLemma ==
  ASSUME WriterAssumption, ElementsFollow, NEW w \in WriterSet, Located(w), AtItem(w)
  PROVE  /\ IdxOf(w) \in DOMAIN table[w.of] /\ IdxOf(w) \in Nat /\ w.todo # <<>>
         /\ w.arrays # <<>> => IsElement(w.of, IdxOf(w))
         /\ \A k \in 1..Len(w.arrays) : w.arrays[k].var < IdxOf(w)
<1>1. w.todo \in Seq(Nat) /\ w.arrays \in Seq(FrameSet) /\ w.of \in Parcel
  BY DEF WriterSet
<1>2. w.todo # <<>>
  BY DEF AtItem, Located
<1>3. CASE w.arrays = <<>>
  <2>1. IdxOf(w) = w.todo[1] /\ w.todo[1] \in DOMAIN table[w.of] /\ w.todo[1] \in Nat
    BY <1>1, <1>2, <1>3 DEF IdxOf, Located
  <2> QED BY <1>2, <1>3, <2>1
<1>4. CASE w.arrays # <<>>
  <2> DEFINE n == Len(w.arrays)
             f == w.arrays[n]
  <2>1. n \in 1..n /\ n \in Nat /\ IdxOf(w) = f.var + 1 /\ f.var \in Nat
    BY <1>4, FrameLemma DEF IdxOf, Last
  <2>2. f.var \in DOMAIN table[w.of] /\ IsArray(table[w.of][f.var])
    BY <2>1 DEF Located
  <2>3. w.isRaw => kind[w.of] \in {"raw", "union"}
    BY DEF Located
  <2>4. w.isRaw \/ table[w.of][f.var].type = "array"
    BY <2>1 DEF Located
  <2>5. f.var + 1 \in DOMAIN table[w.of]
    BY <1>1, <2>2, <2>3, <2>4 DEF ElementsFollow, IsArray
  <2>6. IsElement(w.of, IdxOf(w))
    BY <2>1, <2>2 DEF IsElement
  <2>7. ASSUME NEW k \in 1..n PROVE w.arrays[k].var < IdxOf(w)
    <3>1. w.arrays[k].var \in Nat
      BY FrameLemma
    <3>2. CASE k = n
      BY <2>1, <3>2
    <3>3. CASE k # n
      <4>1. k \in 1..n - 1
        BY <2>1, <3>3
      <4>2. w.arrays[k].var < f.var
        BY <2>1, <4>1 DEF Located
      <4> QED BY <2>1, <3>1, <4>2
    <3> QED BY <3>2, <3>3
  <2> QED BY <1>2, <2>1, <2>5, <2>6, <2>7
<1> QED
  BY <1>3, <1>4

\* Learning something of the variable at hand leaves a writer right about all it knows.
LEMMA LearnedLemma ==
  ASSUME WriterAssumption, ElementsFollow, SizesWhole,
         NEW w, WriterOK(w), AtItem(w), NEW u, Learned(u, w, IdxOf(w))
  PROVE  WriterOK(u) /\ AtItem(u) /\ IdxOf(u) = IdxOf(w)
<1> DEFINE x == IdxOf(w)
<1>1. u \in WriterSet /\ w \in WriterSet /\ BytesFit(u.rawData, u.wanted)
  BY DEF Learned, WriterOK
<1>2. u.of = w.of /\ u.isRaw = w.isRaw /\ u.todo = w.todo /\ u.arrays = w.arrays
  BY DEF Learned
<1>3. \A y \in DOMAIN u.value : y # x => y \in DOMAIN w.value /\ u.value[y] = w.value[y]
  BY DEF Learned
<1>4. \A y \in DOMAIN u.said : y # x => y \in DOMAIN w.said /\ u.said[y] = w.said[y]
  BY DEF Learned
<1>5. Located(u) /\ AtItem(u) /\ IdxOf(u) = x
  BY <1>2 DEF Located, AtItem, IdxOf, WriterOK
<1>6. Honest(u)
  <2> SUFFICES ASSUME NEW y \in DOMAIN u.value \cap DOMAIN u.said, ~IsElement(u.of, y)
               PROVE  Agrees(u, y)
    BY DEF Honest
  <2>1. CASE y = x
    BY <2>1 DEF Learned
  <2>2. CASE y # x
    BY <1>2, <1>3, <1>4, <2>2 DEF WriterOK, Honest, Agrees
  <2> QED BY <2>1, <2>2
<1>7. Sized(u)
  <2> SUFFICES ASSUME ~u.isRaw, NEW k \in 1..Len(u.arrays) PROVE FrameSized(u, u.arrays[k])
    BY DEF Sized
  <2> DEFINE f == w.arrays[k]
             a == table[w.of][f.var]
  <2>1. FrameSized(w, f) /\ u.arrays[k] = f
    BY <1>2 DEF WriterOK, Sized
  <2>2. f \in FrameSet /\ w.of \in Parcel /\ w.arrays # <<>>
    BY <1>1, <1>2, SMTT(30) DEF WriterSet
  <2>3. f.var \in Nat /\ x \in Nat /\ f.var < x /\ IsElement(w.of, x)
    BY <1>1, <1>2, <2>2, IdxLemma DEF FrameSet, WriterOK
  <2>4. f.var \in DOMAIN table[w.of] /\ IsArray(a)
    BY <1>2 DEF WriterOK, Located
  <2>5. a.by = "name" => a.n # x
    BY <2>2, <2>3, <2>4 DEF SizesWhole
  <2>6. f.var # x
    BY <2>3
  <2> HIDE DEF f, x
  <2> QED BY <1>2, <1>3, <1>4, <2>1, <2>5, <2>6 DEF FrameSized
<1> QED
  BY <1>1, <1>5, <1>6, <1>7 DEF WriterOK

\* u is the writer w in other arrays, or with other items to do.
Elsewhere(u, w) ==
  /\ u \in WriterSet /\ u.of = w.of /\ u.isRaw = w.isRaw /\ u.value = w.value /\ u.said = w.said
  /\ u.rawData = w.rawData /\ u.wanted = w.wanted
  /\ u.fds = w.fds /\ u.startFds = w.startFds

LEMMA ElsewhereLemma ==
  ASSUME NEW w, WriterOK(w), NEW u, Elsewhere(u, w), Located(u), Sized(u)
  PROVE  WriterOK(u)
<1>1. Honest(u)
  BY DEF Elsewhere, WriterOK, Honest, Agrees
<1> QED
  BY <1>1 DEF Elsewhere, WriterOK

LEMMA InArrays ==
  ASSUME NEW w \in WriterSet, NEW a \in Seq(FrameSet)
  PROVE  LET u == [w EXCEPT !.arrays = a] IN
         u \in WriterSet /\ u.arrays = a /\ u.todo = w.todo /\ Elsewhere(u, w)
<1> DEFINE u == [w EXCEPT !.arrays = a]
<1>1. u \in WriterSet
  BY DEF WriterSet
<1>2. u.arrays = a /\ u.todo = w.todo /\ Elsewhere(u, w)
  BY <1>1 DEF Elsewhere, WriterSet
<1> QED
  BY <1>1, <1>2

\* A writer is done with an item, or with an element.
LEMMA DoneLemma ==
  ASSUME NEW w, WriterOK(w), AtItem(w)
  PROVE  WriterOK(Done(w)) /\ Elsewhere(Done(w), w)
<1> DEFINE d == Done(w)
           n == Len(w.arrays)
<1>1. w \in WriterSet /\ w.todo \in Seq(Nat)
  BY DEF WriterOK, WriterSet
<1>2. CASE w.arrays = <<>>
  <2>1. d = [w EXCEPT !.todo = Tail(w.todo)] /\ w.todo # <<>>
    BY <1>2 DEF Done, AtItem
  <2>2. /\ Tail(w.todo) \in Seq(Nat)
        /\ \A i \in 1..Len(Tail(w.todo)) : i + 1 \in 1..Len(w.todo) /\ Tail(w.todo)[i] = w.todo[i + 1]
    BY <1>1, <2>1
  <2>3. d \in WriterSet /\ d.arrays = <<>> /\ d.todo = Tail(w.todo)
    BY <1>1, <1>2, <2>1, <2>2 DEF WriterSet
  <2>4. Elsewhere(d, w)
    BY <1>1, <2>1, <2>3 DEF Elsewhere, WriterSet
  <2>5. Located(d)
    <3>1. \A i \in 1..Len(d.todo) : d.todo[i] \in DOMAIN table[d.of]
      BY <2>2, <2>3, <2>4 DEF WriterOK, Located, Elsewhere
    <3>2. d.isRaw => kind[d.of] \in {"raw", "union"}
      BY <2>4 DEF WriterOK, Located, Elsewhere
    <3> QED BY <2>3, <3>1, <3>2 DEF Located
  <2>6. Sized(d)
    BY <2>3 DEF Sized
  <2> QED BY <2>4, <2>5, <2>6, ElsewhereLemma
<1>3. CASE w.arrays # <<>>
  <2> DEFINE f == w.arrays[n]
             g == OneMade(f)
  <2>1. n \in 1..n /\ n \in Nat /\ f \in FrameSet /\ f.var \in Nat /\ f.left \in Nat /\ f.made \in Nat
    BY <1>1, <1>3, FrameLemma
  <2>2. f.left > 0
    BY <1>3 DEF AtItem, Last
  <2>3. g \in FrameSet /\ g.var = f.var /\ g.made + g.left = f.made + f.left
    <3> HIDE DEF f
    <3> QED BY <2>1, <2>2 DEF OneMade, FrameSet
  <2> DEFINE a == [w.arrays EXCEPT ![n] = g]
  <2>4. d = [w EXCEPT !.arrays = a]
    BY <1>1, <1>3, <2>1 DEF Done, WriterSet
  <2>5. a \in Seq(FrameSet) /\ Len(a) = n /\ \A k \in 1..n : a[k] = IF k = n THEN g ELSE w.arrays[k]
    <3> HIDE DEF g
    <3> QED BY <1>1, <2>1, <2>3, FrameLemma
  <2> HIDE DEF a, g, f
  <2>6. d \in WriterSet /\ d.arrays = a /\ d.todo = w.todo /\ Elsewhere(d, w)
    BY <1>1, <2>4, <2>5, InArrays
  <2>7. Elsewhere(d, w)
    BY <2>6
  <2>8. \A k \in 1..n : a[k].var = w.arrays[k].var /\ (k < n => a[k] = w.arrays[k])
                        /\ a[k].made + a[k].left = w.arrays[k].made + w.arrays[k].left
    BY <2>1, <2>3, <2>5 DEF f
  <2>9. Located(d)
    <3>1. \A i \in 1..Len(d.todo) : d.todo[i] \in DOMAIN table[d.of]
      BY <2>6, <2>7 DEF WriterOK, Located, Elsewhere
    <3>2. d.isRaw => kind[d.of] \in {"raw", "union"}
      BY <2>7 DEF WriterOK, Located, Elsewhere
    <3>3. d.todo # <<>>
      BY <1>3, <2>6 DEF WriterOK, Located
    <3>4. ASSUME NEW k \in 1..Len(d.arrays)
          PROVE  /\ d.arrays[k].var \in DOMAIN table[d.of]
                 /\ IsArray(table[d.of][d.arrays[k].var])
                 /\ d.isRaw \/ table[d.of][d.arrays[k].var].type = "array"
                 /\ k < Len(d.arrays) => d.arrays[k].left > 0
      <4>1. k \in 1..n /\ d.arrays[k].var = w.arrays[k].var /\ (k < n => d.arrays[k] = w.arrays[k])
        BY <2>5, <2>6, <2>8
      <4> QED BY <2>5, <2>6, <2>7, <4>1 DEF WriterOK, Located, Elsewhere
    <3>5. ASSUME NEW k \in 1..Len(d.arrays), NEW j \in 1..k - 1
          PROVE  d.arrays[j].var < d.arrays[k].var
      <4>1. k \in 1..n /\ j \in 1..n
        BY <2>1, <2>5, <2>6
      <4>2. w.arrays[j].var < w.arrays[k].var
        BY <4>1 DEF WriterOK, Located
      <4> QED BY <2>6, <2>8, <4>1, <4>2
    <3> QED BY <3>1, <3>2, <3>3, <3>4, <3>5 DEF Located
  <2>10. Sized(d)
    <3> SUFFICES ASSUME ~d.isRaw, NEW k \in 1..Len(d.arrays) PROVE FrameSized(d, d.arrays[k])
      BY DEF Sized
    <3>1. k \in 1..n /\ FrameSized(w, w.arrays[k])
      BY <2>5, <2>6, <2>7 DEF WriterOK, Sized, Elsewhere
    <3>2. d.arrays[k].var = w.arrays[k].var
          /\ d.arrays[k].made + d.arrays[k].left = w.arrays[k].made + w.arrays[k].left
      BY <2>6, <2>8, <3>1
    <3> QED BY <2>7, <3>1, <3>2 DEF FrameSized, Elsewhere
  <2> QED BY <2>7, <2>9, <2>10, ElsewhereLemma
<1> QED
  BY <1>2, <1>3

\* A writer begins an array.
LEMMA PushLemma ==
  ASSUME WriterAssumption, ElementsFollow, NEW w, WriterOK(w), AtItem(w), NEW f \in FrameSet,
         f.var = IdxOf(w), IsArray(table[w.of][f.var]),
         w.isRaw \/ table[w.of][f.var].type = "array",
         w.isRaw \/ FrameSized(w, f)
  PROVE  WriterOK(Pushed(w, f)) /\ Elsewhere(Pushed(w, f), w)
<1> DEFINE a == Append(w.arrays, f)
           u == Pushed(w, f)
           n == Len(w.arrays)
<1>1. w \in WriterSet /\ Located(w) /\ Sized(w) /\ n \in Nat /\ w.arrays \in Seq(FrameSet)
  BY FrameLemma DEF WriterOK
<1>2. /\ a \in Seq(FrameSet) /\ Len(a) = n + 1
      /\ \A k \in 1..n : a[k] = w.arrays[k]
      /\ a[n + 1] = f
  BY <1>1
<1>3. u \in WriterSet /\ u.arrays = a /\ u.todo = w.todo /\ Elsewhere(u, w)
  <2>1. u = [w EXCEPT !.arrays = a]
    BY DEF Pushed
  <2> HIDE DEF a, u
  <2> QED BY <1>1, <1>2, <2>1, InArrays
<1> HIDE DEF a, u
<1>4. /\ f.var \in DOMAIN table[w.of] /\ f.var \in Nat /\ w.todo # <<>>
      /\ \A k \in 1..n : w.arrays[k].var < f.var
  BY <1>1, IdxLemma
<1>5. \A k \in 1..n + 1 : k = n + 1 \/ k \in 1..n
  BY <1>1
<1>6. \A k \in 1..n : w.arrays[k].left > 0
  <2> SUFFICES ASSUME NEW k \in 1..n PROVE w.arrays[k].left > 0
    OBVIOUS
  <2>1. CASE k = n
    BY <1>1, <2>1 DEF AtItem, Last
  <2>2. CASE k # n
    BY <1>1, <2>2, SMTT(30) DEF Located
  <2> QED BY <2>1, <2>2
<1>7. Located(u)
  <2>1. \A i \in 1..Len(u.todo) : u.todo[i] \in DOMAIN table[u.of]
    BY <1>1, <1>3 DEF Located, Elsewhere
  <2>2. u.isRaw => kind[u.of] \in {"raw", "union"}
    BY <1>1, <1>3 DEF Located, Elsewhere
  <2>3. u.todo # <<>>
    BY <1>3, <1>4
  <2>4. ASSUME NEW k \in 1..Len(u.arrays)
        PROVE  /\ u.arrays[k].var \in DOMAIN table[u.of]
               /\ IsArray(table[u.of][u.arrays[k].var])
               /\ u.isRaw \/ table[u.of][u.arrays[k].var].type = "array"
               /\ k < Len(u.arrays) => u.arrays[k].left > 0
    <3>1. CASE k = n + 1
      BY <1>1, <1>2, <1>3, <1>4, <3>1, SMTT(30) DEF Elsewhere
    <3>2. CASE k \in 1..n
      <4>1. u.arrays[k] = w.arrays[k] /\ u.of = w.of /\ u.isRaw = w.isRaw
        BY <1>2, <1>3, <3>2 DEF Elsewhere
      <4> QED BY <1>1, <1>6, <3>2, <4>1 DEF Located
    <3> QED BY <1>2, <1>3, <1>5, <3>1, <3>2
  <2>5. ASSUME NEW k \in 1..Len(u.arrays), NEW j \in 1..k - 1
        PROVE  u.arrays[j].var < u.arrays[k].var
    <3>1. j \in 1..n
      BY <1>1, <1>2, <1>3
    <3>2. CASE k = n + 1
      BY <1>2, <1>3, <1>4, <3>1, <3>2
    <3>3. CASE k \in 1..n
      BY <1>1, <1>2, <1>3, <3>1, <3>3 DEF Located
    <3> QED BY <1>2, <1>3, <1>5, <3>2, <3>3
  <2> QED BY <2>1, <2>2, <2>3, <2>4, <2>5 DEF Located
<1>8. Sized(u)
  <2> SUFFICES ASSUME ~u.isRaw, NEW k \in 1..Len(u.arrays) PROVE FrameSized(u, u.arrays[k])
    BY DEF Sized
  <2>1. FrameSized(w, u.arrays[k])
    BY <1>1, <1>2, <1>3, <1>5 DEF Sized, Elsewhere
  <2> QED BY <1>3, <2>1 DEF FrameSized, Elsewhere
<1> QED
  BY <1>3, <1>7, <1>8, ElsewhereLemma DEF u

\* A writer is back from an array at its variable.
LEMMA LeaveLemma ==
  ASSUME NEW w, WriterOK(w), w.arrays # <<>>
  PROVE  LET u == [w EXCEPT !.arrays = Front(@)] IN
         WriterOK(u) /\ AtItem(u) /\ Elsewhere(u, w)
<1> DEFINE a == Front(w.arrays)
           u == [w EXCEPT !.arrays = a]
           n == Len(w.arrays)
<1>1. w \in WriterSet /\ Located(w) /\ Sized(w) /\ n \in Nat /\ w.arrays \in Seq(FrameSet) /\ n > 0
  BY FrameLemma DEF WriterOK
<1>2. a \in Seq(FrameSet) /\ Len(a) = n - 1 /\ \A k \in 1..n - 1 : k \in 1..n /\ a[k] = w.arrays[k]
  BY <1>1 DEF Front
<1> HIDE DEF a
<1>3. u \in WriterSet /\ u.arrays = a /\ u.todo = w.todo /\ Elsewhere(u, w)
  BY <1>1, <1>2, InArrays
<1> HIDE DEF u
<1>4. Located(u)
  <2>1. \A i \in 1..Len(u.todo) : u.todo[i] \in DOMAIN table[u.of]
    BY <1>1, <1>3 DEF Located, Elsewhere
  <2>2. u.isRaw => kind[u.of] \in {"raw", "union"}
    BY <1>1, <1>3 DEF Located, Elsewhere
  <2>3. u.todo # <<>>
    BY <1>1, <1>3 DEF Located
  <2>4. ASSUME NEW k \in 1..Len(u.arrays)
        PROVE  /\ u.arrays[k].var \in DOMAIN table[u.of]
               /\ IsArray(table[u.of][u.arrays[k].var])
               /\ u.isRaw \/ table[u.of][u.arrays[k].var].type = "array"
               /\ k < Len(u.arrays) => u.arrays[k].left > 0
    <3>1. k \in 1..n /\ k < n /\ u.arrays[k] = w.arrays[k] /\ u.of = w.of /\ u.isRaw = w.isRaw
      BY <1>1, <1>2, <1>3 DEF Elsewhere
    <3> QED BY <1>1, <3>1 DEF Located
  <2>5. ASSUME NEW k \in 1..Len(u.arrays), NEW j \in 1..k - 1
        PROVE  u.arrays[j].var < u.arrays[k].var
    <3>1. k \in 1..n - 1 /\ j \in 1..n - 1
      BY <1>1, <1>2, <1>3
    <3> QED BY <1>1, <1>2, <1>3, <3>1 DEF Located
  <2> QED BY <2>1, <2>2, <2>3, <2>4, <2>5 DEF Located
<1>5. AtItem(u)
  <2>1. CASE a = <<>>
    BY <1>1, <1>3, <2>1 DEF Located, AtItem
  <2>2. CASE a # <<>>
    <3>1. n - 1 \in 1..n - 1
      BY <1>1, <1>2, <2>2
    <3>2. a[n - 1] = w.arrays[n - 1] /\ w.arrays[n - 1].left > 0
      BY <1>1, <1>2, <3>1 DEF Located
    <3> QED BY <1>2, <1>3, <2>2, <3>2 DEF AtItem, Last
  <2> QED BY <2>1, <2>2
<1>6. Sized(u)
  <2> SUFFICES ASSUME ~u.isRaw, NEW k \in 1..Len(u.arrays) PROVE FrameSized(u, u.arrays[k])
    BY DEF Sized
  <2>1. FrameSized(w, u.arrays[k])
    BY <1>1, <1>2, <1>3 DEF Sized, Elsewhere
  <2> QED BY <1>3, <2>1 DEF FrameSized, Elsewhere
<1>7. WriterOK(u)
  BY <1>3, <1>4, <1>6, ElsewhereLemma
<1> QED
  BY <1>3, <1>5, <1>7 DEF u, a

-----------------------------------------------------------------------------
(* The shapes of a step *)

Moves ==
  /\ AtItem(Top)
  /\ \E u : Learned(u, Top, IdxOf(Top)) /\ SetTop(Done(u))
Begins ==
  /\ AtItem(Top)
  /\ \E u : \E f \in FrameSet :
       /\ Learned(u, Top, IdxOf(Top))
       /\ f.var = IdxOf(Top) /\ IsArray(table[Top.of][f.var])
       /\ Top.isRaw \/ (table[Top.of][f.var].type = "array" /\ FrameSized(u, f))
       /\ SetTop(Pushed(u, f))
Ends == Top.arrays # <<>> /\ SetTop(Done([Top EXCEPT !.arrays = Front(@)]))
Calls ==
  /\ AtItem(Top)
  /\ \E u, child :
       /\ Learned(u, Top, IdxOf(Top)) /\ u.fds = Top.fds
       /\ WriterOK(child) /\ child.startFds = Top.fds
       /\ writers' = Append([writers EXCEPT ![Len(writers)] = u], child)
Returns ==
  /\ Len(writers) > 1
  /\ \E u : Learned(u, Parent, IdxOf(Parent)) /\ Return(u)

Shape == \/ Moves \/ Begins \/ Ends \/ Calls \/ Returns
         \/ writers' = writers

\* The top writer, and what is below it.
LEMMA TopLemma ==
  ASSUME WritersInv
  PROVE  /\ Len(writers) \in Nat /\ Len(writers) > 0 /\ Len(writers) \in 1..Len(writers)
         /\ Top = writers[Len(writers)] /\ WriterOK(Top) /\ Top \in WriterSet
         /\ Len(writers) > 1 => /\ Len(writers) - 1 \in 1..Len(writers)
                                /\ Parent \in WriterSet /\ WriterOK(Parent) /\ AtItem(Parent)
<1>1. Len(writers) \in Nat /\ Len(writers) > 0 /\ Len(writers) \in 1..Len(writers)
  BY DEF WritersInv
<1>2. Top = writers[Len(writers)] /\ WriterOK(Top)
  BY <1>1 DEF WritersInv, Top, Last
<1>3. ASSUME Len(writers) > 1
      PROVE  Len(writers) - 1 \in 1..Len(writers) /\ WriterOK(Parent) /\ AtItem(Parent)
  <2>1. Len(writers) - 1 \in 1..Len(writers) /\ Len(writers) - 1 \in 1..Len(writers) - 1
    BY <1>1, <1>3
  <2> QED BY <2>1 DEF WritersInv, Parent
<1> QED
  BY <1>1, <1>2, <1>3 DEF WriterOK

\* Another writer in the place of the top one.
LEMMA SetTopKeeps ==
  ASSUME WritersInv, NEW u, WriterOK(u), u.startFds = Top.startFds, SetTop(u), position' \in Nat
  PROVE  WritersInv'
<1> DEFINE n == Len(writers)
<1>1. n \in Nat /\ n > 0 /\ n \in 1..n /\ writers \in Seq(WriterSet) /\ Top = writers[n]
  BY TopLemma DEF WritersInv
<1>2. u \in WriterSet
  BY DEF WriterOK
<1>3. /\ writers' \in Seq(WriterSet) /\ Len(writers') = n
      /\ \A k \in 1..n : writers'[k] = IF k = n THEN u ELSE writers[k]
  BY <1>1, <1>2 DEF SetTop
<1>4. \A k \in 1..n : WriterOK(writers'[k])
  BY <1>3 DEF WritersInv
<1>5. ASSUME NEW k \in 1..n - 1
      PROVE  AtItem(writers'[k]) /\ writers'[k + 1].startFds = writers'[k].fds
  <2>1. k \in 1..n /\ k + 1 \in 1..n /\ k # n
    BY <1>1
  <2>2. writers'[k] = writers[k] /\ writers'[k + 1].startFds = writers[k + 1].startFds
    BY <1>1, <1>3, <2>1
  <2> QED BY <2>2 DEF WritersInv
<1>6. writers' # <<>>
  BY <1>1, <1>3
<1> QED
  BY <1>3, <1>4, <1>5, <1>6 DEF WritersInv

\* Another writer on top.
LEMMA CallKeeps ==
  ASSUME WritersInv, NEW u, WriterOK(u), AtItem(u), u.startFds = Top.startFds,
         NEW child, WriterOK(child), child.startFds = u.fds,
         writers' = Append([writers EXCEPT ![Len(writers)] = u], child), position' \in Nat
  PROVE  WritersInv'
<1> DEFINE n == Len(writers)
           s == [writers EXCEPT ![n] = u]
<1>1. n \in Nat /\ n > 0 /\ n \in 1..n /\ writers \in Seq(WriterSet) /\ Top = writers[n]
  BY TopLemma DEF WritersInv
<1>2. u \in WriterSet /\ child \in WriterSet
  BY DEF WriterOK
<1>3. s \in Seq(WriterSet) /\ Len(s) = n /\ \A k \in 1..n : s[k] = IF k = n THEN u ELSE writers[k]
  BY <1>1, <1>2
<1>4. /\ writers' \in Seq(WriterSet) /\ Len(writers') = n + 1 /\ writers'[n + 1] = child
      /\ \A k \in 1..n : writers'[k] = s[k]
  <2> HIDE DEF s
  <2>1. writers' = Append(s, child)
    BY DEF s
  <2> QED BY <1>1, <1>2, <1>3, <2>1
<1> HIDE DEF s
<1>5. \A k \in 1..n + 1 : WriterOK(writers'[k])
  <2> SUFFICES ASSUME NEW k \in 1..n + 1 PROVE WriterOK(writers'[k])
    OBVIOUS
  <2>1. k = n + 1 \/ k \in 1..n
    BY <1>1
  <2> QED BY <1>3, <1>4, <2>1 DEF WritersInv
<1>6. ASSUME NEW k \in 1..n
      PROVE  AtItem(writers'[k]) /\ writers'[k + 1].startFds = writers'[k].fds
  <2>1. CASE k = n
    BY <1>3, <1>4, <2>1
  <2>2. CASE k # n
    <3>1. k \in 1..n - 1 /\ k + 1 \in 1..n
      BY <1>1, <2>2
    <3>2. writers'[k] = writers[k] /\ writers'[k + 1].startFds = writers[k + 1].startFds
      BY <1>1, <1>3, <1>4, <2>2, <3>1
    <3> QED BY <3>1, <3>2 DEF WritersInv
  <2> QED BY <2>1, <2>2
<1>7. writers' # <<>> /\ Len(writers') - 1 = n
  BY <1>1, <1>4
<1> QED
  BY <1>4, <1>5, <1>6, <1>7 DEF WritersInv

\* Another writer in the place of the two upper ones.
LEMMA ReturnKeeps ==
  ASSUME WritersInv, Len(writers) > 1, NEW u, WriterOK(u), u.startFds = Parent.startFds,
         writers' = Append(SubSeq(writers, 1, Len(writers) - 2), u), position' \in Nat
  PROVE  WritersInv'
<1> DEFINE n == Len(writers)
           s == SubSeq(writers, 1, n - 2)
<1>1. n \in Nat /\ n > 1 /\ writers \in Seq(WriterSet) /\ Parent = writers[n - 1]
  BY TopLemma DEF WritersInv, Parent
<1>2. u \in WriterSet
  BY DEF WriterOK
<1>3. s \in Seq(WriterSet) /\ Len(s) = n - 2 /\ \A k \in 1..n - 2 : s[k] = writers[k]
  <2>1. n - 2 \in 0..n /\ n - 2 + 1 - 1 = n - 2 /\ \A k \in 1..n - 2 : 1 + k - 1 = k
    BY <1>1
  <2> QED BY <1>1, <2>1, SubSeqProperties
<1>4. /\ writers' \in Seq(WriterSet) /\ Len(writers') = n - 1 /\ writers'[n - 1] = u
      /\ \A k \in 1..n - 2 : writers'[k] = writers[k]
  <2> HIDE DEF s
  <2>1. writers' = Append(s, u)
    BY DEF s
  <2>2. Len(s) + 1 = n - 1
    BY <1>1, <1>3
  <2> QED BY <1>1, <1>2, <1>3, <2>1, <2>2
<1> HIDE DEF s
<1>5. ASSUME NEW k \in 1..n - 1 PROVE WriterOK(writers'[k])
  <2>1. k \in 1..n /\ (k = n - 1 \/ k \in 1..n - 2)
    BY <1>1
  <2> QED BY <1>4, <2>1 DEF WritersInv
<1>6. ASSUME NEW k \in 1..n - 2
      PROVE  AtItem(writers'[k]) /\ writers'[k + 1].startFds = writers'[k].fds
  <2>1. k \in 1..n - 1 /\ (k + 1 = n - 1 \/ k + 1 \in 1..n - 2)
    BY <1>1
  <2>2. writers'[k] = writers[k] /\ writers'[k + 1].startFds = writers[k + 1].startFds
    BY <1>1, <1>4, <2>1
  <2> QED BY <2>1, <2>2 DEF WritersInv
<1>7. writers' # <<>> /\ Len(writers') - 1 = n - 2
  BY <1>1, <1>4
<1> QED
  BY <1>4, <1>5, <1>6, <1>7 DEF WritersInv

\* Every shape keeps the invariant.
LEMMA ShapeKeeps ==
  ASSUME WriterAssumption, ElementsFollow, SizesWhole, WritersInv, Shape, position' \in Nat
  PROVE  WritersInv'
<1>1. WriterOK(Top) /\ Top \in WriterSet
  BY TopLemma
<1>2. CASE Moves
  <2>1. AtItem(Top)
    BY <1>2 DEF Moves
  <2>2. PICK u : Learned(u, Top, IdxOf(Top)) /\ SetTop(Done(u))
    BY <1>2 DEF Moves
  <2>3. WriterOK(u) /\ AtItem(u) /\ u.startFds = Top.startFds
    BY <1>1, <2>1, <2>2, LearnedLemma DEF Learned
  <2>4. WriterOK(Done(u)) /\ Done(u).startFds = Top.startFds
    BY <2>3, DoneLemma DEF Elsewhere
  <2> QED BY <2>2, <2>4, SetTopKeeps
<1>3. CASE Begins
  <2>1. AtItem(Top)
    BY <1>3 DEF Begins
  <2> DEFINE Begun(u, f) ==
          /\ Learned(u, Top, IdxOf(Top))
          /\ f.var = IdxOf(Top) /\ IsArray(table[Top.of][f.var])
          /\ Top.isRaw \/ (table[Top.of][f.var].type = "array" /\ FrameSized(u, f))
          /\ SetTop(Pushed(u, f))
  <2>2. PICK u : \E f \in FrameSet : Begun(u, f)
    BY <1>3 DEF Begins
  <2>3. PICK f \in FrameSet : Begun(u, f)
    BY <2>2
  <2>4. /\ WriterOK(u) /\ AtItem(u) /\ u.startFds = Top.startFds /\ IdxOf(u) = IdxOf(Top)
        /\ u.of = Top.of /\ u.isRaw = Top.isRaw
    BY <1>1, <2>1, <2>3, LearnedLemma DEF Learned
  <2>5. WriterOK(Pushed(u, f)) /\ Pushed(u, f).startFds = Top.startFds
    BY <2>3, <2>4, PushLemma DEF Elsewhere
  <2> QED BY <2>3, <2>5, SetTopKeeps
<1>4. CASE Ends
  <2> DEFINE u == [Top EXCEPT !.arrays = Front(@)]
  <2>1. Top.arrays # <<>> /\ SetTop(Done(u))
    BY <1>4 DEF Ends
  <2>2. WriterOK(u) /\ AtItem(u) /\ Elsewhere(u, Top)
    BY <1>1, <2>1, LeaveLemma
  <2> HIDE DEF u
  <2>3. WriterOK(Done(u)) /\ Done(u).startFds = Top.startFds
    BY <2>2, DoneLemma DEF Elsewhere
  <2> QED BY <2>1, <2>3, SetTopKeeps
<1>5. CASE Calls
  <2>1. AtItem(Top)
    BY <1>5 DEF Calls
  <2>2. PICK u, child :
          /\ Learned(u, Top, IdxOf(Top)) /\ u.fds = Top.fds
          /\ WriterOK(child) /\ child.startFds = Top.fds
          /\ writers' = Append([writers EXCEPT ![Len(writers)] = u], child)
    BY <1>5 DEF Calls
  <2>3. WriterOK(u) /\ AtItem(u) /\ u.startFds = Top.startFds
    BY <1>1, <2>1, <2>2, LearnedLemma DEF Learned
  <2> QED BY <2>2, <2>3, CallKeeps
<1>6. CASE Returns
  <2>1. Len(writers) > 1 /\ WriterOK(Parent) /\ AtItem(Parent)
    BY <1>6, TopLemma DEF Returns
  <2>2. PICK u : Learned(u, Parent, IdxOf(Parent)) /\ Return(u)
    BY <1>6 DEF Returns
  <2>3. WriterOK(u) /\ AtItem(u) /\ u.startFds = Parent.startFds
    BY <2>1, <2>2, LearnedLemma DEF Learned
  <2>4. WriterOK(Done(u)) /\ Done(u).startFds = Parent.startFds
    BY <2>3, DoneLemma DEF Elsewhere
  <2>5. writers' = Append(SubSeq(writers, 1, Len(writers) - 2), Done(u))
    BY <2>2 DEF Return
  <2> QED BY <2>1, <2>4, <2>5, ReturnKeeps
<1>7. CASE writers' = writers
  BY <1>7 DEF WritersInv
<1> QED
  BY <1>2, <1>3, <1>4, <1>5, <1>6, <1>7 DEF Shape

-----------------------------------------------------------------------------
(* What a writer learns *)

\* The variable at hand.
LEMMA ItemLemma ==
  ASSUME WriterAssumption, ElementsFollow, WritersInv, Ready
  PROVE  /\ AtItem(Top) /\ Top \in WriterSet /\ Top.of \in Parcel
         /\ Idx = IdxOf(Top) /\ Idx \in Nat /\ Idx \in DOMAIN table[Top.of]
         /\ V \in Variable /\ V = table[Top.of][Idx]
         /\ Top.arrays # <<>> => IsElement(Top.of, Idx)
<1>1. Top \in WriterSet /\ Located(Top) /\ Top.of \in Parcel
  BY TopLemma DEF WriterOK, WriterSet
<1>2. AtItem(Top) /\ Idx = IdxOf(Top)
  BY DEF Ready, AtItem, Idx, IdxOf, Array
<1>3. /\ Idx \in Nat /\ Idx \in DOMAIN table[Top.of]
      /\ Top.arrays # <<>> => IsElement(Top.of, Idx)
  BY <1>1, <1>2, IdxLemma
<1>4. table[Top.of] \in Seq(Variable)
  BY <1>1 DEF WriterAssumption
<1> QED
  BY <1>1, <1>2, <1>3, <1>4 DEF V

\* The top writer, when it has learned nothing yet but to forget.
LEMMA ClearedLemma ==
  ASSUME WriterAssumption, ElementsFollow, WritersInv, Ready
  PROVE  /\ Learned(Cleared, Top, Idx) /\ Learned(Top, Top, Idx)
         /\ Cleared.value = Without(Top.value, {Idx}) /\ Cleared.said = Without(Top.said, {Idx})
         /\ Idx \notin DOMAIN Cleared.value /\ Idx \notin DOMAIN Cleared.said
         /\ Cleared.fds = Top.fds /\ Cleared.level = Top.level
         /\ DOMAIN Cleared.value \subseteq DOMAIN Top.value
         /\ \A x \in DOMAIN Cleared.value : Cleared.value[x] = Top.value[x]
<1> DEFINE c == Cleared
           k == Without(Top.value, {Idx})
           s == Without(Top.said, {Idx})
<1>1. WriterOK(Top) /\ Top \in WriterSet /\ Top.value \in Knowledge /\ Top.said \in Knowledge
  BY TopLemma DEF WriterSet
<1>2. /\ k \in Knowledge /\ DOMAIN k = DOMAIN Top.value \ {Idx}
      /\ \A z \in DOMAIN Top.value \ {Idx} : k[z] = Top.value[z]
  BY <1>1, WithoutLemma
<1>3. /\ s \in Knowledge /\ DOMAIN s = DOMAIN Top.said \ {Idx}
      /\ \A z \in DOMAIN Top.said \ {Idx} : s[z] = Top.said[z]
  BY <1>1, WithoutLemma
<1>4. c = [Top EXCEPT !.value = k, !.said = s]
  BY DEF Cleared
<1> HIDE DEF k, s, c
<1>5. c \in WriterSet /\ c.value = k /\ c.said = s
  BY <1>1, <1>2, <1>3, <1>4 DEF WriterSet
<1>6. /\ c.of = Top.of /\ c.isRaw = Top.isRaw /\ c.todo = Top.todo /\ c.arrays = Top.arrays
      /\ c.startFds = Top.startFds /\ c.rawData = Top.rawData /\ c.wanted = Top.wanted
      /\ c.fds = Top.fds /\ c.level = Top.level
  BY <1>1, <1>4 DEF WriterSet
<1>7. Learned(c, Top, Idx)
  BY <1>1, <1>2, <1>3, <1>5, <1>6 DEF Learned, WriterOK
<1>8. Learned(Top, Top, Idx)
  BY <1>1 DEF Learned, WriterOK, Honest
<1> QED
  BY <1>2, <1>3, <1>5, <1>6, <1>7, <1>8 DEF c, k, s

\* What is said of the variable at hand.
LEMMA SaidLemma ==
  ASSUME WriterAssumption, ElementsFollow, WritersInv, Ready,
         NEW u, Learned(u, Top, Idx), NEW v \in Nat,
         \/ Idx \notin DOMAIN u.value
         \/ v \in {u.value[Idx], CString(u.value[Idx])}
         \/ IsElement(Top.of, Idx)
  PROVE  Learned(Said(u, v), Top, Idx) /\ Said(u, v).fds = u.fds /\ Said(u, v).said[Idx] = v
<1> DEFINE c == Said(u, v)
           s == With(u.said, Idx, v)
<1>1. u \in WriterSet /\ u.said \in Knowledge /\ Idx \in Nat
  BY ItemLemma DEF Learned, WriterSet
<1>2. /\ s \in Knowledge /\ DOMAIN s = DOMAIN u.said \cup {Idx} /\ s[Idx] = v
      /\ \A z \in DOMAIN u.said : z # Idx => s[z] = u.said[z]
  BY <1>1, WithLemma
<1>3. c = [u EXCEPT !.said = s]
  BY DEF Said
<1> HIDE DEF s, c
<1>4. c \in WriterSet /\ c.said = s
  BY <1>1, <1>2, <1>3 DEF WriterSet
<1>5. /\ c.of = u.of /\ c.isRaw = u.isRaw /\ c.todo = u.todo /\ c.arrays = u.arrays
      /\ c.startFds = u.startFds /\ c.rawData = u.rawData /\ c.wanted = u.wanted
      /\ c.fds = u.fds /\ c.value = u.value
  BY <1>1, <1>3 DEF WriterSet
<1>6. ~IsElement(c.of, Idx) /\ Idx \in DOMAIN c.value => Agrees(c, Idx)
  BY <1>2, <1>4, <1>5 DEF Agrees, Learned
<1>7. Learned(c, Top, Idx)
  BY <1>2, <1>4, <1>5, <1>6 DEF Learned
<1> QED
  BY <1>2, <1>4, <1>5, <1>7 DEF c

\* What is stored as its value, before anything is said.
LEMMA StoredLemma ==
  ASSUME WriterAssumption, ElementsFollow, WritersInv, Ready,
         NEW v \in Nat
  PROVE  LET u == Stored(Cleared, v) IN
         /\ Learned(u, Top, Idx) /\ u.fds = Top.fds
         /\ Idx \notin DOMAIN u.value \/ u.value[Idx] = v
<1> DEFINE u == Cleared
           c == Stored(u, v)
           s == With(u.value, Idx, v)
<1>1. /\ Learned(u, Top, Idx) /\ Idx \notin DOMAIN u.value /\ Idx \notin DOMAIN u.said
      /\ u.fds = Top.fds
  BY ClearedLemma
<1>2. CASE V.untried
  BY <1>1, <1>2 DEF Stored
<1>3. CASE ~V.untried
  <2>1. u \in WriterSet /\ u.value \in Knowledge /\ Idx \in Nat
    BY <1>1, ItemLemma DEF Learned, WriterSet
  <2>2. /\ s \in Knowledge /\ DOMAIN s = DOMAIN u.value \cup {Idx} /\ s[Idx] = v
        /\ \A z \in DOMAIN u.value : z # Idx => s[z] = u.value[z]
    BY <2>1, WithLemma, ZenonT(30)
  <2>3. c = [u EXCEPT !.value = s]
    BY <1>3 DEF Stored
  <2> HIDE DEF s, c, u
  <2>4. c \in WriterSet /\ c.value = s
    BY <2>1, <2>2, <2>3 DEF WriterSet
  <2>5. /\ c.of = u.of /\ c.isRaw = u.isRaw /\ c.todo = u.todo /\ c.arrays = u.arrays
        /\ c.startFds = u.startFds /\ c.rawData = u.rawData /\ c.wanted = u.wanted
        /\ c.fds = u.fds /\ c.said = u.said
    BY <2>1, <2>3 DEF WriterSet
  <2>6. Learned(c, Top, Idx)
    BY <1>1, <2>2, <2>4, <2>5 DEF Learned
  <2> QED BY <1>1, <2>2, <2>4, <2>5, <2>6 DEF c, u
<1> QED
  BY <1>2, <1>3

\* What is stored and said.
LEMMA StoredSaid ==
  ASSUME WriterAssumption, ElementsFollow, WritersInv, Ready,
         NEW v \in Nat, NEW s \in {v, CString(v)}
  PROVE  LET u == Said(Stored(Cleared, v), s) IN Learned(u, Top, Idx) /\ u.fds = Top.fds
<1> DEFINE u == Stored(Cleared, v)
<1>1. /\ Learned(u, Top, Idx) /\ u.fds = Top.fds
      /\ Idx \notin DOMAIN u.value \/ u.value[Idx] = v
  BY StoredLemma
<1>2. s \in Nat
  BY CStringLemma
<1> HIDE DEF u
<1>3. Idx \notin DOMAIN u.value \/ s \in {u.value[Idx], CString(u.value[Idx])}
  BY <1>1
<1>4. Learned(Said(u, s), Top, Idx) /\ Said(u, s).fds = u.fds
  BY <1>1, <1>2, <1>3, SaidLemma
<1> QED
  BY <1>1, <1>4 DEF u

\* What else a writer does to itself.
LEMMA RawLemma ==
  ASSUME NEW w, NEW x, NEW u, Learned(u, w, x), NEW data, NEW wanted, BytesFit(data, wanted)
  PROVE  LET c == WriteRawToData(u, data, wanted) IN Learned(c, w, x) /\ c.fds = u.fds
<1> DEFINE c == WriteRawToData(u, data, wanted)
           d == u.rawData \o StrnCopy(data)
           m == u.wanted \o wanted
<1>1. u \in WriterSet /\ BytesFit(d, m)
  BY StrnCopyFits, AppendFits DEF Learned
<1>2. c = [u EXCEPT !.rawData = d, !.wanted = m]
  BY DEF WriteRawToData
<1> HIDE DEF c, d, m
<1>3. c \in WriterSet /\ c.rawData = d /\ c.wanted = m
  BY <1>1, <1>2 DEF WriterSet, BytesFit
<1>4. /\ c.of = u.of /\ c.isRaw = u.isRaw /\ c.todo = u.todo /\ c.arrays = u.arrays
      /\ c.startFds = u.startFds /\ c.value = u.value /\ c.said = u.said /\ c.fds = u.fds
  BY <1>1, <1>2 DEF WriterSet
<1>5. Learned(c, w, x)
  BY <1>1, <1>3, <1>4 DEF Learned, Agrees
<1> QED
  BY <1>4, <1>5 DEF c

LEMMA ErasedLemma ==
  ASSUME NEW w, NEW x, NEW u, Learned(u, w, x), NEW S
  PROVE  LET c == [u EXCEPT !.value = Without(@, S)] IN Learned(c, w, x) /\ c.fds = u.fds
<1> DEFINE s == Without(u.value, S)
           c == [u EXCEPT !.value = s]
<1>1. u \in WriterSet /\ u.value \in Knowledge
  BY DEF Learned, WriterSet
<1>2. /\ s \in Knowledge /\ DOMAIN s = DOMAIN u.value \ S
      /\ \A z \in DOMAIN u.value \ S : s[z] = u.value[z]
  BY <1>1, WithoutLemma
<1> HIDE DEF s
<1>3. c \in WriterSet /\ c.value = s
  BY <1>1, <1>2 DEF WriterSet
<1>4. /\ c.of = u.of /\ c.isRaw = u.isRaw /\ c.todo = u.todo /\ c.arrays = u.arrays
      /\ c.startFds = u.startFds /\ c.rawData = u.rawData /\ c.wanted = u.wanted
      /\ c.fds = u.fds /\ c.said = u.said
  BY <1>1 DEF WriterSet
<1> HIDE DEF c
<1>5. Learned(c, w, x)
  BY <1>2, <1>3, <1>4 DEF Learned, Agrees
<1> QED
  BY <1>4, <1>5 DEF c, s

LEMMA CountedLemma ==
  ASSUME NEW w, NEW x, NEW u, Learned(u, w, x)
  PROVE  Learned([u EXCEPT !.fds = @ + 1], w, x)
<1> DEFINE c == [u EXCEPT !.fds = u.fds + 1]
<1>1. u \in WriterSet /\ u.fds + 1 \in Nat
  BY DEF Learned, WriterSet
<1>2. c \in WriterSet
  BY <1>1 DEF WriterSet
<1>3. /\ c.of = u.of /\ c.isRaw = u.isRaw /\ c.todo = u.todo /\ c.arrays = u.arrays
      /\ c.startFds = u.startFds /\ c.rawData = u.rawData /\ c.wanted = u.wanted
      /\ c.value = u.value /\ c.said = u.said
  BY <1>1 DEF WriterSet
<1>4. Learned(c, w, x)
  <2> HIDE DEF c
  <2> QED BY <1>2, <1>3 DEF Learned, Agrees
<1> QED
  BY <1>4

LEMMA LevelLemma ==
  ASSUME NEW w, NEW x, NEW u, Learned(u, w, x), NEW l \in Int
  PROVE  Learned([u EXCEPT !.level = l], w, x) /\ [u EXCEPT !.level = l].fds = u.fds
<1> DEFINE d == [u EXCEPT !.level = l]
<1>1. u \in WriterSet
  BY DEF Learned
<1>2. d \in WriterSet
  BY <1>1 DEF WriterSet
<1>3. /\ d.of = u.of /\ d.isRaw = u.isRaw /\ d.todo = u.todo /\ d.arrays = u.arrays
      /\ d.startFds = u.startFds /\ d.rawData = u.rawData /\ d.wanted = u.wanted
      /\ d.value = u.value /\ d.said = u.said /\ d.fds = u.fds
  BY <1>1 DEF WriterSet
<1>4. Learned(d, w, x)
  <2> HIDE DEF d
  <2> QED BY <1>2, <1>3 DEF Learned, Agrees
<1> QED
  BY <1>3, <1>4

\* The bytes of an integer.
LEMMA BytesLemma ==
  ASSUME WriterAssumption
  PROVE  /\ \A b \in Nat : BytesFit(<<b>>, <<b>>)
         /\ \A v \in Nat : BytesFit(BytesOf(v), BytesOf(v)) /\ v % Base \in Nat
<1>1. \A b \in Nat : BytesFit(<<b>>, <<b>>)
  BY DEF BytesFit
<1>2. ASSUME NEW v \in Nat PROVE v % Base \in Nat /\ v \div Base \in Nat
  BY Numbers
<1>3. \A b, c \in Nat : BytesFit(<<b, c>>, <<b, c>>)
  BY DEF BytesFit
<1> QED
  BY <1>1, <1>2, <1>3 DEF BytesOf

-----------------------------------------------------------------------------
(* Every step has a shape *)

\* Being done with an item, as the actions say it.
LEMMA MovesIntro ==
  ASSUME WriterAssumption, ElementsFollow, WritersInv, Ready,
         NEW u, Learned(u, Top, Idx), SetTop(Done(u))
  PROVE  Moves
<1>1. AtItem(Top) /\ Idx = IdxOf(Top)
  BY ItemLemma
<1> QED
  BY <1>1 DEF Moves

\* Writing cells moves the position by their number.
LEMMA WriteLemma ==
  ASSUME WriterAssumption, WritersInv
  PROVE  /\ \A cells \in Seq(Nat) : Write(cells) => position' \in Nat
         /\ \A v \in Nat : Write(<<v>>) => position' \in Nat
         /\ Token \in Nat /\ Fd \in Nat /\ Binder \in Nat /\ Uuid \in Nat /\ Byte \in Nat
<1>1. position \in Nat /\ WordSize \in Nat
  BY Numbers DEF WritersInv
<1>2. Token \in Nat /\ Fd \in Nat /\ Binder \in Nat /\ Uuid \in Nat /\ Byte \in Nat
  BY <1>1 DEF Token, Fd, Binder, Uuid, Byte
<1>3. \A cells \in Seq(Nat) : Write(cells) => position' \in Nat
  BY <1>1 DEF Write
<1>4. \A v \in Nat : <<v>> \in Seq(Nat)
  OBVIOUS
<1> QED
  BY <1>2, <1>3, <1>4

\* The actions that write a value, or none.
ValueStep ==
  \/ SkipItem \/ FromDependency \/ ElementFromDependency
  \/ WriteInt8 \/ WriteInt \/ WriteFlattenableBool \/ WriteString \/ WriteToken
  \/ WriteFileDescriptor \/ WriteStrongBinder \/ WriteLiteral \/ WriteUuid
  \/ WriteBytes \/ WriteBlob

LEMMA VarSizeLemma ==
  ASSUME WriterAssumption, ElementsFollow, WritersInv, Ready
  PROVE  VarSize \in Nat /\ ArraySizes \subseteq Nat
<1>1. V \in Variable
  BY ItemLemma
<1>2. V.by \in {"own", "number", "name"} /\ V.n \in Nat
  BY <1>1 DEF Variable
<1>3. Cleared.value \in Knowledge
  BY ClearedLemma DEF Learned, WriterSet
<1>4. \A x \in DOMAIN Cleared.value : Cleared.value[x] \in Nat
  BY <1>3 DEF Knowledge
<1>5. VarSize \in Nat
  BY <1>2, <1>4, Numbers DEF VarSize
<1> QED
  BY <1>5, Numbers DEF ArraySizes

LEMMA ValueShape ==
  ASSUME WriterAssumption, ElementsFollow, WritersInv, ValueStep
  PROVE  Moves /\ position' \in Nat
<1>1. position \in Nat /\ Ints \subseteq Nat /\ WordSize \in Nat
  BY Numbers DEF WritersInv
<1>2. Unchanged => position' \in Nat
  BY <1>1 DEF Unchanged
<1>3. CASE SkipItem
  <2>1. Ready /\ SetTop(Done(Top)) /\ Unchanged
    BY <1>3 DEF SkipItem, Item
  <2> QED BY <1>2, <2>1, ClearedLemma, MovesIntro
<1>4. CASE FromDependency
  <2>1. Ready
    BY <1>4 DEF FromDependency, Item
  <2>2. PICK v \in Ints : Solved(Cleared, v)
    BY <1>4 DEF FromDependency
  <2>3. Learned(Said(Cleared, v), Top, Idx)
    BY <1>1, <2>1, ClearedLemma, SaidLemma
  <2> QED BY <1>1, <2>1, <2>2, <2>3, MovesIntro, WriteLemma DEF Solved
<1>5. CASE ElementFromDependency
  <2>1. Ready /\ IsElement(Top.of, Idx)
    BY <1>5, ItemLemma DEF ElementFromDependency, Item
  <2>2. PICK v \in Ints : Solved(Top, v)
    BY <1>5 DEF ElementFromDependency
  <2>3. Learned(Said(Top, v), Top, Idx)
    BY <1>1, <2>1, ClearedLemma, SaidLemma
  <2> QED BY <1>1, <2>1, <2>2, <2>3, MovesIntro, WriteLemma DEF Solved
<1>6. CASE WriteInt8
  <2>1. Ready /\ Unchanged
    BY <1>6 DEF WriteInt8, Item
  <2>2. PICK b \in {v % Base : v \in Ints} : SetTop(Done(WriteRawToData(Cleared, <<b>>, <<b>>)))
    BY <1>6 DEF WriteInt8
  <2>3. BytesFit(<<b>>, <<b>>)
    BY <1>1, BytesLemma
  <2>4. Learned(WriteRawToData(Cleared, <<b>>, <<b>>), Top, Idx)
    BY <2>1, <2>3, ClearedLemma, RawLemma
  <2> QED BY <1>2, <2>1, <2>2, <2>4, MovesIntro
<1>7. CASE WriteInt
  <2>1. Ready
    BY <1>7 DEF WriteInt, Item
  <2> DEFINE w(v) == Said(Stored(Cleared, v), v)
  <2>2. PICK v \in Values :
          IF Top.isRaw
          THEN SetTop(Done(WriteRawToData(w(v), BytesOf(v), BytesOf(v)))) /\ Unchanged
          ELSE SetTop(Done(w(v))) /\ Write(<<v>>) /\ UNCHANGED exited
    BY <1>7 DEF WriteInt
  <2>3. v \in Nat
    BY <1>1 DEF Values
  <2>4. Learned(w(v), Top, Idx)
    BY <2>1, <2>3, StoredSaid
  <2> HIDE DEF w
  <2>5. Learned(WriteRawToData(w(v), BytesOf(v), BytesOf(v)), Top, Idx)
    BY <2>3, <2>4, BytesLemma, RawLemma
  <2> QED BY <1>2, <2>1, <2>2, <2>3, <2>4, <2>5, MovesIntro, WriteLemma
<1>8. CASE WriteFlattenableBool
  <2>1. Ready /\ position' = position + 1
    BY <1>8 DEF WriteFlattenableBool, Item
  <2>2. PICK v \in Values : SetTop(Done(Stored(Cleared, v)))
    BY <1>8 DEF WriteFlattenableBool
  <2>3. Learned(Stored(Cleared, v), Top, Idx)
    BY <1>1, <2>1, StoredLemma DEF Values
  <2> QED BY <1>1, <2>1, <2>2, <2>3, MovesIntro
<1>9. CASE WriteString
  <2>1. Ready
    BY <1>9 DEF WriteString, Item
  <2> DEFINE written(v) == IF V.type = "utf8" THEN v ELSE CString(v)
  <2>2. PICK v \in IF V.untried THEN {WordSize} ELSE Strings :
          SetTop(Done(Said(Stored(Cleared, v), written(v)))) /\ Write(<<written(v)>>)
    BY <1>9 DEF WriteString
  <2>3. v \in Nat /\ written(v) \in {v, CString(v)}
    BY <1>1 DEF Strings
  <2>4. written(v) \in Nat
    BY <2>3, CStringLemma
  <2> HIDE DEF written
  <2>5. Learned(Said(Stored(Cleared, v), written(v)), Top, Idx)
    BY <2>1, <2>3, StoredSaid
  <2> QED BY <2>1, <2>2, <2>4, <2>5, MovesIntro, WriteLemma
<1>10. CASE WriteToken
  <2>1. Ready /\ SetTop(Done(Said(Stored(Cleared, Token), Token))) /\ Write(<<Token>>)
    BY <1>10 DEF WriteToken, Item
  <2>2. Learned(Said(Stored(Cleared, Token), Token), Top, Idx)
    BY <2>1, StoredSaid, WriteLemma
  <2> QED BY <2>1, <2>2, MovesIntro, WriteLemma
<1>11. CASE WriteFileDescriptor
  <2>1. Ready
    BY <1>11 DEF WriteFileDescriptor, Item
  <2>2. CASE Top.level > 0
    <3>1. SetTop(Done([Cleared EXCEPT !.fds = @ + 1])) /\ position' = position
      BY <1>11, <2>2 DEF WriteFileDescriptor
    <3>2. Learned([Cleared EXCEPT !.fds = @ + 1], Top, Idx)
      BY <2>1, ClearedLemma, CountedLemma
    <3> QED BY <1>1, <2>1, <3>1, <3>2, MovesIntro
  <2>3. CASE ~(Top.level > 0)
    <3>1. SetTop(Done(Said(Stored(Cleared, Fd), Fd))) /\ Write(<<Fd>>)
      BY <1>11, <2>3 DEF WriteFileDescriptor
    <3>2. Learned(Said(Stored(Cleared, Fd), Fd), Top, Idx)
      BY <2>1, StoredSaid, WriteLemma
    <3> QED BY <2>1, <3>1, <3>2, MovesIntro, WriteLemma
  <2> QED BY <2>2, <2>3
<1>12. CASE WriteStrongBinder
  <2>1. Ready /\ SetTop(Done(Cleared)) /\ Write(<<Binder>>)
    BY <1>12 DEF WriteStrongBinder, Item
  <2> QED BY <2>1, ClearedLemma, MovesIntro, WriteLemma
<1>13. CASE WriteLiteral
  <2>1. Ready /\ SetTop(Done(Cleared)) /\ Write(<<V.n>>)
    BY <1>13 DEF WriteLiteral, Item
  <2>2. V.n \in Nat
    BY <2>1, ItemLemma DEF Variable
  <2> QED BY <2>1, <2>2, ClearedLemma, MovesIntro, WriteLemma
<1>14. CASE WriteUuid
  <2>1. Ready /\ SetTop(Done(Erased(Cleared))) /\ Write(<<Uuid>>)
    BY <1>14 DEF WriteUuid, Item
  <2>2. Learned(Erased(Cleared), Top, Idx)
    BY <2>1, ClearedLemma, ErasedLemma DEF Erased
  <2> QED BY <2>1, <2>2, MovesIntro, WriteLemma
<1>15. CASE WriteBytes
  <2>1. Ready /\ SetTop(Done(Cleared))
    BY <1>15 DEF WriteBytes, Item
  <2>2. PICK n \in ArraySizes : Write(SizeCells(n) \o [i \in 1..Elements(n) |-> Byte])
    BY <1>15 DEF WriteBytes
  <2>3. n \in Nat /\ Elements(n) \in Nat
    BY <2>1, VarSizeLemma, ElementsLemma
  <2>4. [i \in 1..Elements(n) |-> Byte] \in Seq(Nat)
    BY <2>3, WriteLemma
  <2>5. SizeCells(n) \in Seq(Nat)
    BY <2>3 DEF SizeCells
  <2>6. SizeCells(n) \o [i \in 1..Elements(n) |-> Byte] \in Seq(Nat)
    BY <2>4, <2>5, ConcatProperties
  <2> QED BY <2>1, <2>2, <2>6, ClearedLemma, MovesIntro, WriteLemma
<1>16. CASE WriteBlob
  <2>1. Ready /\ SetTop(Done(Cleared))
    BY <1>16 DEF WriteBlob, Item
  <2>2. VarSize \in Nat /\ Byte \in Nat /\ Fd \in Nat
    BY <2>1, VarSizeLemma, WriteLemma
  <2>3. [i \in 1..VarSize |-> Byte] \in Seq(Nat) /\ <<0>> \in Seq(Nat)
    BY <2>2
  <2>4. <<0>> \o [i \in 1..VarSize |-> Byte] \in Seq(Nat)
    BY <2>3, ConcatProperties
  <2>5. \A blobType \in {1, 2} : <<blobType, Fd>> \in Seq(Nat)
    BY <2>2
  <2>6. \E cells \in Seq(Nat) : Write(cells)
    BY <1>16, <2>4, <2>5 DEF WriteBlob
  <2> QED BY <2>1, <2>6, ClearedLemma, MovesIntro, WriteLemma
<1> QED
  BY <1>3, <1>4, <1>5, <1>6, <1>7, <1>8, <1>9, <1>10, <1>11, <1>12, <1>13, <1>14, <1>15, <1>16
     DEF ValueStep

\* An array begins with as many elements as the parcel says.
LEMMA ArrayShape ==
  ASSUME WriterAssumption, ElementsFollow, SizesWhole, WritersInv, WriteArray \/ WriteRawArray
  PROVE  Begins /\ position' \in Nat
<1> USE DEF Frame
<1>1. Ready /\ IsArray(V) /\ (Top.isRaw \/ V.type = "array")
  BY DEF WriteArray, WriteRawArray, Item, IsArray
<1>2. /\ AtItem(Top) /\ Idx = IdxOf(Top) /\ Idx \in Nat /\ V = table[Top.of][Idx]
      /\ V \in Variable /\ Top.of \in Parcel /\ Idx \in DOMAIN table[Top.of]
  BY <1>1, ItemLemma
<1>3. VarSize \in Nat /\ ArraySizes \subseteq Nat /\ position \in Nat
  BY <1>1, VarSizeLemma DEF WritersInv
<1>4. Learned(Cleared, Top, Idx)
  BY <1>1, ClearedLemma
<1>5. \A m \in Nat : Frame(m) \in FrameSet /\ Frame(m).var = Idx
  BY <1>2 DEF FrameSet
<1>6. CASE WriteRawArray
  <2>1. Top.isRaw /\ SetTop(Pushed(Cleared, Frame(VarSize))) /\ position' = position
    BY <1>6 DEF WriteRawArray, Unchanged
  <2> QED BY <1>1, <1>2, <1>3, <1>4, <1>5, <2>1 DEF Begins
<1>7. CASE WriteArray
  <2> DEFINE u(n) == IF V.by = "own" THEN Said(Cleared, n) ELSE Cleared
  <2>1. PICK n \in ArraySizes : Write(SizeCells(n)) /\ SetTop(Pushed(u(n), Frame(Elements(n))))
    BY <1>7 DEF WriteArray
  <2>2. n \in Nat /\ Elements(n) \in Nat /\ V.type = "array"
    BY <1>3, <1>7, <2>1, ElementsLemma DEF WriteArray
  <2>3. SizeCells(n) \in Seq(Nat)
    BY <2>2 DEF SizeCells
  <2>4. position' \in Nat
    BY <2>1, <2>3, WriteLemma
  <2>5. Learned(u(n), Top, Idx)
    BY <1>1, <1>4, <2>2, ClearedLemma, SaidLemma
  <2>6. FrameSized(u(n), Frame(Elements(n)))
    <3> DEFINE f == Frame(Elements(n))
    <3>1. f.var = Idx /\ f.made + f.left = Elements(n) /\ table[u(n).of][f.var] = V
      <4> HIDE DEF u
      <4>1. f.var = Idx /\ f.made = 0 /\ f.left = Elements(n)
        OBVIOUS
      <4>2. f.made + f.left = Elements(n)
        BY <2>2, <4>1
      <4>3. u(n).of = Top.of
        BY <2>5 DEF Learned
      <4> QED BY <1>2, <4>1, <4>2, <4>3
    <3>2. V.by = "own" => f.made + f.left = Elements(u(n).said[f.var])
      BY <1>1, <1>4, <2>2, <3>1, ClearedLemma, SaidLemma
    <3>3. ASSUME V.by = "name", V.n \in DOMAIN u(n).value \cap DOMAIN u(n).said
          PROVE  f.made + f.left = Elements(u(n).said[V.n])
      <4>1. u(n) = Cleared /\ n = Cleared.value[V.n]
        BY <2>1, <3>3 DEF ArraySizes, VarSize
      <4>2. Honest(Cleared) /\ Cleared.of = Top.of
        BY <1>2, <1>4, LearnedLemma, TopLemma DEF WriterOK, Learned
      <4>3. ~IsElement(Top.of, V.n)
        BY <1>1, <1>2, <3>3 DEF SizesWhole
      <4>4. Cleared.said[V.n] \in {n, CString(n)}
        BY <3>3, <4>1, <4>2, <4>3 DEF Honest, Agrees
      <4>5. Elements(Cleared.said[V.n]) = Elements(n)
        BY <2>2, <4>4, CStringLemma
      <4> QED BY <3>1, <4>1, <4>5
    <3>4. FrameSized(u(n), f)
      <4> HIDE DEF f, u
      <4> QED BY <3>1, <3>2, <3>3 DEF FrameSized
    <3> QED BY <3>4
  <2> HIDE DEF u
  <2> QED BY <1>1, <1>2, <1>5, <2>1, <2>2, <2>4, <2>5, <2>6 DEF Begins
<1> QED
  BY <1>6, <1>7

LEMMA LeaveArrayShape ==
  ASSUME WritersInv, LeaveArray
  PROVE  Ends /\ position' \in Nat
BY DEF LeaveArray, Ends, Unchanged, WritersInv

\* A writer that has just been made.
LEMMA FreshLemma ==
  ASSUME NEW c \in WriterSet, c.arrays = <<>>, c.rawData = <<>>, c.wanted = <<>>, Honest(c),
         \A i \in 1..Len(c.todo) : c.todo[i] \in DOMAIN table[c.of],
         c.isRaw => kind[c.of] \in {"raw", "union"}
  PROVE  WriterOK(c)
<1>1. Located(c) /\ Sized(c)
  BY DEF Located, Sized
<1>2. BytesFit(c.rawData, c.wanted)
  BY DEF BytesFit
<1> QED
  BY <1>1, <1>2 DEF WriterOK

\* Being started changes nothing else.
LEMMA StartedLemma ==
  ASSUME WritersInv, NEW c \in WriterSet
  PROVE  /\ Started(c) \in WriterSet /\ Started(c).startFds = Top.fds
         /\ WriterOK(c) => WriterOK(Started(c))
<1> DEFINE d == Started(c)
<1>1. position \in Nat /\ Top.fds \in Nat
  BY TopLemma DEF WritersInv, WriterSet
<1>2. d \in WriterSet /\ d.startFds = Top.fds
  BY <1>1 DEF WriterSet, Started
<1>3. /\ d.of = c.of /\ d.todo = c.todo /\ d.isRaw = c.isRaw /\ d.arrays = c.arrays
      /\ d.rawData = c.rawData /\ d.wanted = c.wanted /\ d.value = c.value /\ d.said = c.said
  BY DEF WriterSet, Started
<1> HIDE DEF d
<1>4. WriterOK(c) => WriterOK(d)
  BY <1>2, <1>3 DEF WriterOK, Located, Honest, Agrees, Sized, FrameSized
<1> QED
  BY <1>2, <1>4 DEF d

\* The writer of a structure knows nothing yet.
LEMMA WriterLemma ==
  ASSUME NEW p \in Parcel, NEW todo \in Seq(Nat), NEW level \in Int,
         \A i \in 1..Len(todo) : todo[i] \in DOMAIN table[p]
  PROVE  /\ WriterOK(Writer(p, todo, FALSE, level))
         /\ kind[p] \in {"raw", "union"} => WriterOK(Writer(p, todo, TRUE, level))
<1>1. <<>> \in Knowledge
  <2>1. <<>> \in [{} -> Nat] /\ {} \in SUBSET Nat
    OBVIOUS
  <2> QED BY <2>1 DEF Knowledge
<1>2. ASSUME NEW raw \in BOOLEAN, raw => kind[p] \in {"raw", "union"}, NEW c,
             c = Writer(p, todo, raw, level)
      PROVE  WriterOK(c)
  <2>1. c \in WriterSet
    BY <1>1, <1>2 DEF WriterSet, Writer
  <2>2. /\ c.of = p /\ c.todo = todo /\ c.isRaw = raw /\ c.arrays = <<>> /\ c.rawData = <<>>
        /\ c.wanted = <<>> /\ c.value = <<>> /\ c.said = <<>>
    BY <1>2 DEF Writer
  <2>3. Honest(c)
    BY <2>2 DEF Honest
  <2> QED BY <1>2, <2>1, <2>2, <2>3, FreshLemma
<1>3. WriterOK(Writer(p, todo, FALSE, level))
  BY <1>2, Zenon
<1>4. kind[p] \in {"raw", "union"} => WriterOK(Writer(p, todo, TRUE, level))
  BY <1>2, Zenon
<1> QED
  BY <1>3, <1>4

\* A call, as the actions say it.
LEMMA CallsIntro ==
  ASSUME WriterAssumption, ElementsFollow, WritersInv, Ready,
         NEW u, Learned(u, Top, Idx), u.fds = Top.fds,
         NEW child, WriterOK(child), Call(u, child)
  PROVE  Calls
<1>1. AtItem(Top) /\ Idx = IdxOf(Top)
  BY ItemLemma
<1>2. WriterOK(Started(child)) /\ Started(child).startFds = Top.fds
  BY StartedLemma DEF WriterOK
<1> QED
  BY <1>1, <1>2 DEF Calls, Call

\* The items of a parcel are variables of its table.
LEMMA ItemsLemma ==
  ASSUME WriterAssumption, NEW p \in Parcel
  PROVE  /\ items[p] \in Seq(Nat)
         /\ \A i \in 1..Len(items[p]) : items[p][i] \in DOMAIN table[p]
<1>1. items[p] \in Seq(Nat) /\ Range(items[p]) \subseteq DOMAIN table[p]
  BY DEF WriterAssumption
<1> QED
  BY <1>1 DEF Range

StructureCall(p) ==
  EnterParcelable(p) \/ EnterFlattenable(p) \/ EnterLightFlattenable(p) \/ EnterRaw(p) \/ EnterUnion(p)

LEMMA StructureShape ==
  ASSUME WriterAssumption, ElementsFollow, WritersInv, NEW p \in Parcel, StructureCall(p)
  PROVE  Calls /\ position' \in Nat
<1>1. position \in Nat /\ Top.level + 1 \in Int
  BY TopLemma DEF WritersInv, WriterSet
<1>2. Ready
  BY DEF StructureCall, EnterParcelable, EnterFlattenable, EnterLightFlattenable, EnterRaw,
         EnterUnion, Enters, Item
<1>3. Learned(Cleared, Top, Idx) /\ Cleared.fds = Top.fds /\ Cleared.level = Top.level
  BY <1>2, ClearedLemma
<1>4. <<>> \in Seq(Nat) /\ <<0>> \in Seq(Nat) /\ <<1>> \in Seq(Nat) /\ <<0, 0>> \in Seq(Nat)
  OBVIOUS
<1>5. /\ WriterOK(Writer(p, items[p], FALSE, 0))
      /\ WriterOK(Writer(p, items[p], FALSE, Top.level + 1))
      /\ kind[p] = "raw" => WriterOK(Writer(p, items[p], TRUE, 0))
  <2>1. \A l \in Int : WriterOK(Writer(p, items[p], FALSE, l))
    BY ItemsLemma, WriterLemma, Zenon
  <2>2. \A l \in Int : kind[p] = "raw" => WriterOK(Writer(p, items[p], TRUE, l))
    <3>1. kind[p] = "raw" => kind[p] \in {"raw", "union"}
      OBVIOUS
    <3> QED BY <3>1, ItemsLemma, WriterLemma, Zenon
  <2>3. 0 \in Int
    OBVIOUS
  <2> QED BY <1>1, <2>1, <2>2, <2>3, Zenon
<1>6. CASE EnterParcelable(p)
  <2>1. Call(Cleared, Writer(p, items[p], FALSE, 0)) /\ \E cells \in Seq(Nat) : Write(cells)
    BY <1>4, <1>6 DEF EnterParcelable
  <2>2. Calls
    BY <1>2, <1>3, <2>1, <1>5, CallsIntro
  <2> QED BY <2>1, <2>2, WriteLemma
<1>7. CASE EnterFlattenable(p)
  <2> DEFINE u == [Cleared EXCEPT !.level = Cleared.level + 1]
  <2>1. Call(u, Writer(p, items[p], FALSE, Top.level + 1)) /\ Write(<<0, 0>>)
    BY <1>7 DEF EnterFlattenable
  <2>2. Learned(u, Top, Idx) /\ u.fds = Top.fds
    BY <1>1, <1>3, LevelLemma
  <2> HIDE DEF u
  <2>3. Calls
    BY <1>1, <1>2, <2>1, <2>2, <1>5, CallsIntro
  <2> QED BY <1>4, <2>1, <2>3, WriteLemma
<1>8. CASE EnterLightFlattenable(p)
  <2>1. Call(Cleared, Writer(p, items[p], FALSE, 0)) /\ \E cells \in Seq(Nat) : Write(cells)
    BY <1>4, <1>8 DEF EnterLightFlattenable
  <2>2. Calls
    BY <1>2, <1>3, <2>1, <1>5, CallsIntro
  <2> QED BY <2>1, <2>2, WriteLemma
<1>9. CASE EnterRaw(p)
  <2>1. Call(Cleared, Writer(p, items[p], TRUE, 0)) /\ position' = position /\ kind[p] = "raw"
    BY <1>9 DEF EnterRaw, Enters
  <2>2. Calls
    BY <1>2, <1>3, <2>1, <1>5, CallsIntro
  <2> QED BY <1>1, <2>1, <2>2
<1>10. CASE EnterUnion(p)
  <2>1. position' = position /\ kind[p] = "union"
    BY <1>10 DEF EnterUnion, Enters
  <2>2. PICK i \in DOMAIN items[p] : Call(Cleared, Writer(p, <<i>>, TRUE, 0))
    BY <1>10 DEF EnterUnion
  <2>3. i \in Nat /\ i \in DOMAIN table[p]
    BY <2>1, ItemsLemma DEF ElementsFollow
  <2>4. <<i>> \in Seq(Nat) /\ \A j \in 1..Len(<<i>>) : <<i>>[j] \in DOMAIN table[p]
    BY <2>3
  <2>5. WriterOK(Writer(p, <<i>>, TRUE, 0))
    <3>1. 0 \in Int /\ kind[p] \in {"raw", "union"}
      BY <2>1
    <3> QED BY <2>4, <3>1, WriterLemma, Zenon
  <2>6. Calls
    BY <1>2, <1>3, <2>2, <2>5, CallsIntro
  <2> QED BY <1>1, <2>1, <2>6
<1> QED
  BY <1>6, <1>7, <1>8, <1>9, <1>10 DEF StructureCall

\* The parameters of a function get the arguments that are passed for them.
LEMMA ArgumentsLemma ==
  ASSUME WriterAssumption, ParametersFit, NEW p \in Parcel,
         NEW S \in SUBSET DOMAIN params[p], NEW given \in [S -> Nat]
  PROVE  /\ Arguments(p, given) \in Knowledge
         /\ DOMAIN Arguments(p, given) = {params[p][i] : i \in S}
         /\ \A i \in S : Arguments(p, given)[params[p][i]] = given[i]
<1> DEFINE D == {params[p][i] : i \in S}
           f == Arguments(p, given)
           Of(x) == CHOOSE i \in S : params[p][i] = x
<1>1. params[p] \in Seq(Nat) /\ \A a, b \in DOMAIN params[p] : params[p][a] = params[p][b] => a = b
  BY DEF WriterAssumption, ParametersFit, IsInjective
<1>2. D \in SUBSET Nat
  BY <1>1
<1>3. \A i \in S : Of(params[p][i]) = i
  <2> SUFFICES ASSUME NEW i \in S PROVE Of(params[p][i]) = i
    OBVIOUS
  <2>1. \E j \in S : params[p][j] = params[p][i]
    OBVIOUS
  <2>2. Of(params[p][i]) \in S /\ params[p][Of(params[p][i])] = params[p][i]
    BY <2>1
  <2> HIDE DEF Of
  <2> QED BY <1>1, <2>2
<1>4. f = [x \in D |-> given[Of(x)]]
  BY DEF Arguments
<1> HIDE DEF f, Of
<1>5. \A i \in S : f[params[p][i]] = given[i]
  BY <1>3, <1>4
<1>6. \A x \in D : f[x] \in Nat
  BY <1>5
<1>7. f \in [D -> Nat] /\ DOMAIN f = D
  BY <1>4, <1>6
<1>8. f \in Knowledge
  BY <1>2, <1>7 DEF Knowledge
<1> QED
  BY <1>5, <1>7, <1>8 DEF f

\* A function is called with what is known of its arguments.
LEMMA FunctionShape ==
  ASSUME WriterAssumption, ElementsFollow, ArgumentsWhole, ParametersFit, WritersInv,
         NEW p \in Parcel, EnterFunction(p)
  PROVE  Calls /\ position' \in Nat
<1> DEFINE known == {i \in Passed : V.args[i][1] \in DOMAIN Cleared.value \cap DOMAIN Top.said}
           given == [i \in Passed |-> Argument(i)]
           told  == [i \in known |-> ArgumentSaid(i)]
           a     == Arguments(p, given)
           d     == Defaults(p, a)
           s     == Arguments(p, told)
           child == [Writer(p, items[p], FALSE, 0) EXCEPT !.value = d, !.said = s]
<1>1. Ready /\ V.type = "parcel" /\ p \in V.of /\ kind[p] = "function" /\ CanInitArgv(p)
  BY DEF EnterFunction, Enters, Item
<1>2. Call(Cleared, child) /\ position' \in Nat
  BY DEF EnterFunction, WritersInv
<1>3. /\ Top.of \in Parcel /\ Idx \in DOMAIN table[Top.of] /\ V = table[Top.of][Idx]
      /\ V.args \in Seq(Nat \X {"int", "bool", "ignored", "unsupported"})
  BY <1>1, ItemLemma DEF Variable
<1>4. \A i \in DOMAIN V.args : V.args[i][1] \in Nat /\ ~IsElement(Top.of, V.args[i][1])
  BY <1>3 DEF ArgumentsWhole
<1>5. Passed \in SUBSET DOMAIN params[p] /\ Passed \subseteq DOMAIN V.args
  BY <1>1, <1>3 DEF ParametersFit, Passed
<1>6. known \in SUBSET DOMAIN params[p] /\ known \subseteq Passed
  BY <1>5
<1>7. /\ Cleared.value \in Knowledge /\ Top.said \in Knowledge /\ Honest(Top)
      /\ DOMAIN Cleared.value \subseteq DOMAIN Top.value
      /\ \A x \in DOMAIN Cleared.value : Cleared.value[x] = Top.value[x]
  BY <1>1, ClearedLemma, TopLemma DEF Learned, WriterSet, WriterOK
<1>8. /\ \A x \in DOMAIN Cleared.value : Cleared.value[x] \in Nat
      /\ \A x \in DOMAIN Top.said : Top.said[x] \in Nat
  <2>1. \A f \in Knowledge : \A x \in DOMAIN f : f[x] \in Nat
    BY DEF Knowledge
  <2> QED BY <1>7, <2>1
<1>9. given \in [Passed -> Nat]
  BY <1>8, Numbers DEF Argument
<1>10. told \in [known -> Nat]
  BY <1>8 DEF ArgumentSaid
<1>11. /\ a \in Knowledge /\ DOMAIN a = {params[p][i] : i \in Passed}
       /\ \A i \in Passed : a[params[p][i]] = given[i]
  BY <1>5, <1>9, ArgumentsLemma
<1>12. /\ s \in Knowledge /\ DOMAIN s = {params[p][i] : i \in known}
       /\ \A i \in known : s[params[p][i]] = told[i]
  BY <1>6, <1>10, ArgumentsLemma
<1>13. /\ params[p] \in Seq(Nat)
       /\ \A i, j \in DOMAIN params[p] : params[p][i] = params[p][j] => i = j
       /\ p = KeymasterBlob => Len(params[p]) = 2
  BY DEF WriterAssumption, ParametersFit, IsInjective
<1>14. /\ d \in Knowledge
       /\ \A i \in known : params[p][i] \in DOMAIN d => d[params[p][i]] = a[params[p][i]]
  <2>1. CASE ~HasDefault(p)
    BY <1>11, <2>1 DEF Defaults
  <2>2. CASE HasDefault(p)
    <3>1. p = KeymasterBlob /\ Len(V.args) < Len(params[p])
      BY <1>1, <2>2 DEF CanInitArgv, HasDefault
    <3>2. 2 \in DOMAIN params[p] /\ 2 \notin DOMAIN V.args /\ params[p][2] \in Nat
      <4>1. DOMAIN V.args = 1..Len(V.args) /\ Len(V.args) \in Nat
        BY <1>3
      <4>2. DOMAIN params[p] = 1..2 /\ Len(V.args) < 2
        BY <1>13, <3>1
      <4>3. 2 \in DOMAIN params[p] /\ 2 \notin DOMAIN V.args
        BY <4>1, <4>2
      <4> QED BY <1>13, <4>3
    <3>3. d = With(a, params[p][2], 1)
      BY <2>2 DEF Defaults
    <3>4. \A i \in known : params[p][i] # params[p][2] /\ params[p][i] \in DOMAIN a
      BY <1>5, <1>6, <1>11, <1>13, <3>2
    <3> HIDE DEF a, d, known
    <3>5. 1 \in Nat /\ a \in Knowledge
      BY <1>11
    <3>6. /\ With(a, params[p][2], 1) \in Knowledge
          /\ \A z \in DOMAIN a : z # params[p][2] => With(a, params[p][2], 1)[z] = a[z]
      <4>1. \A x, y \in Nat :
              /\ With(a, x, y) \in Knowledge
              /\ \A z \in DOMAIN a : z # x => With(a, x, y)[z] = a[z]
        BY <3>5, WithLemma, ZenonT(30)
      <4>2. params[p][2] \in Nat
        BY <3>2
      <4> QED BY <3>5, <4>1, <4>2, Zenon
    <3> QED BY <3>3, <3>4, <3>6
  <2> QED BY <2>1, <2>2
<1>15. ASSUME NEW i \in known
       PROVE  told[i] \in {given[i], CString(given[i])}
  <2> DEFINE x == V.args[i][1]
  <2>1. x \in DOMAIN Cleared.value /\ x \in DOMAIN Top.said /\ i \in Passed /\ ~IsElement(Top.of, x)
    BY <1>4, <1>5
  <2>2. given[i] = Top.value[x] /\ told[i] = Top.said[x] /\ x \in DOMAIN Top.value
    BY <1>7, <2>1 DEF Argument, ArgumentSaid
  <2> QED BY <1>7, <2>1, <2>2 DEF Honest, Agrees
<1> HIDE DEF known, given, told, a, d, s
<1>16. WriterOK(child)
  <2> DEFINE w == Writer(p, items[p], FALSE, 0)
  <2>1. WriterOK(w) /\ w \in WriterSet
    <3>1. 0 \in Int
      OBVIOUS
    <3>2. WriterOK(w)
      BY <3>1, ItemsLemma, WriterLemma, Zenon
    <3> QED BY <3>2 DEF WriterOK
  <2>2. w.arrays = <<>> /\ w.rawData = <<>> /\ w.wanted = <<>>
    BY DEF Writer
  <2> HIDE DEF w
  <2>3. child = [w EXCEPT !.value = d, !.said = s]
    BY DEF w
  <2> HIDE DEF child
  <2>4. child \in WriterSet /\ child.value = d /\ child.said = s
    BY <1>12, <1>14, <2>1, <2>3 DEF WriterSet
  <2>5. /\ child.of = w.of /\ child.todo = w.todo /\ child.isRaw = w.isRaw /\ child.arrays = <<>>
        /\ child.rawData = <<>> /\ child.wanted = <<>>
    BY <2>1, <2>2, <2>3 DEF WriterSet
  <2>6. Honest(child)
    <3> SUFFICES ASSUME NEW x \in DOMAIN d \cap DOMAIN s PROVE Agrees(child, x)
      BY <2>4 DEF Honest
    <3>1. PICK i \in known : x = params[p][i]
      BY <1>12
    <3>2. s[x] = told[i] /\ d[x] = given[i]
      BY <1>6, <1>11, <1>12, <1>14, <3>1
    <3> QED BY <1>15, <2>4, <3>2 DEF Agrees
  <2>7. /\ \A i \in 1..Len(child.todo) : child.todo[i] \in DOMAIN table[child.of]
        /\ child.isRaw => kind[child.of] \in {"raw", "union"}
    BY <2>1, <2>5 DEF WriterOK, Located
  <2> QED BY <2>4, <2>5, <2>6, <2>7, FreshLemma
<1>17. Learned(Cleared, Top, Idx) /\ Cleared.fds = Top.fds
  BY <1>1, ClearedLemma
<1> HIDE DEF child
<1> QED
  BY <1>1, <1>2, <1>16, <1>17, CallsIntro

\* A structure is done, and its caller goes on.
StructureReturn == LeaveStructure \/ LeaveLightFlattenable \/ LeaveFlattenable \/ LeaveRaw

LEMMA ReturnShape ==
  ASSUME WriterAssumption, WritersInv, StructureReturn
  PROVE  Returns /\ position' \in Nat
<1> DEFINE P == Parent
           x == ParentIdx
<1>1. Len(writers) > 1
  BY DEF StructureReturn, LeaveStructure, LeaveLightFlattenable, LeaveFlattenable, LeaveRaw, Ended
<1>2. /\ Len(writers) \in Nat /\ Top = writers[Len(writers)] /\ Top \in WriterSet /\ WriterOK(Top)
      /\ P \in WriterSet /\ WriterOK(P) /\ position \in Nat
  BY <1>1, TopLemma DEF WritersInv
<1>3. x = IdxOf(P)
  BY DEF ParentIdx, IdxOf
<1>4. Learned(P, P, x)
  BY <1>2 DEF Learned, WriterOK, Honest
<1>5. Learned(ErasedIn(P), P, x)
  BY <1>4, ErasedLemma DEF ErasedIn
<1>6. \A u : Learned(u, P, x) /\ Return(u) => Returns
  BY <1>1, <1>3 DEF Returns
<1>7. /\ Top.start \in Nat /\ Top.level - 1 \in Int /\ P.fds \in Nat /\ Top.rawData \in Seq(Nat)
      /\ BytesFit(Top.rawData, Top.wanted)
  <2>1. \A w \in WriterSet : w.start \in Nat /\ w.level \in Int /\ w.fds \in Nat /\ w.rawData \in Seq(Nat)
    BY DEF WriterSet
  <2>2. BytesFit(Top.rawData, Top.wanted)
    BY <1>2 DEF WriterOK
  <2>3. Top \in WriterSet /\ P \in WriterSet
    BY <1>2
  <2> HIDE DEF P
  <2>4. Top.level - 1 \in Int
    BY <2>1, <2>3
  <2> QED BY <2>1, <2>2, <2>3, <2>4
<1>8. CASE LeaveStructure
  BY <1>2, <1>5, <1>6, <1>8 DEF LeaveStructure
<1>9. CASE LeaveLightFlattenable
  BY <1>5, <1>6, <1>7, <1>9 DEF LeaveLightFlattenable, End
<1>10. CASE LeaveFlattenable
  <2> DEFINE u == [ErasedIn(P) EXCEPT !.level = Top.level - 1]
  <2>1. Return(u)
    BY <1>10 DEF LeaveFlattenable
  <2>2. Learned(u, P, x)
    BY <1>5, <1>7, LevelLemma
  <2>3. Returns
    <3> HIDE DEF u
    <3> QED BY <1>6, <2>1, <2>2
  <2>4. Parent.fds - Top.startFds = 0
    <3>1. Len(writers) - 1 \in 1..Len(writers) - 1 /\ Len(writers) - 1 + 1 = Len(writers)
      BY <1>1, <1>2
    <3>2. Top.startFds = Parent.fds
      BY <1>2, <3>1 DEF WritersInv, Parent
    <3> QED BY <1>7, <3>2
  <2>5. position' = position \/ position' = Top.start + (Parent.fds - Top.startFds)
    BY <1>10 DEF LeaveFlattenable, End
  <2> QED BY <1>2, <1>7, <2>3, <2>4, <2>5
<1>11. CASE LeaveRaw
  <2> DEFINE p == IF kind[Top.of] = "raw" THEN ErasedIn(P) ELSE P
  <2>1. IF P.isRaw
        THEN Return(WriteRawToData(p, Top.rawData, Top.wanted)) /\ position' = position
        ELSE Return(p) /\ Write(Top.rawData)
    BY <1>11 DEF LeaveRaw
  <2>2. Learned(p, P, x)
    BY <1>4, <1>5
  <2> HIDE DEF p
  <2>3. Learned(WriteRawToData(p, Top.rawData, Top.wanted), P, x)
    BY <1>7, <2>2, RawLemma
  <2> QED BY <1>2, <1>6, <1>7, <2>1, <2>2, <2>3, WriteLemma
<1> QED
  BY <1>8, <1>9, <1>10, <1>11 DEF StructureReturn

-----------------------------------------------------------------------------
(* The theorems *)

\* What is assumed of the data.
DataAssumption ==
  WriterAssumption /\ ElementsFollow /\ SizesWhole /\ ArgumentsWhole /\ ParametersFit

LEMMA StepShape ==
  ASSUME DataAssumption, WritersInv, Next
  PROVE  Shape /\ position' \in Nat
<1> USE DEF DataAssumption
<1>1. ASSUME ValueStep PROVE Shape /\ position' \in Nat
  BY <1>1, ValueShape DEF Shape
<1>2. ASSUME WriteArray \/ WriteRawArray PROVE Shape /\ position' \in Nat
  BY <1>2, ArrayShape DEF Shape
<1>3. ASSUME NEW p \in Parcel, Enter(p) PROVE Shape /\ position' \in Nat
  <2>1. CASE StructureCall(p)
    BY <2>1, StructureShape DEF Shape
  <2>2. CASE EnterFunction(p)
    BY <2>2, FunctionShape DEF Shape
  <2> QED BY <1>3, <2>1, <2>2 DEF Enter, StructureCall
<1>4. ASSUME LeaveArray PROVE Shape /\ position' \in Nat
  BY <1>4, LeaveArrayShape DEF Shape
<1>5. ASSUME StructureReturn PROVE Shape /\ position' \in Nat
  BY <1>5, ReturnShape DEF Shape
<1>6. ASSUME Exit PROVE Shape /\ position' \in Nat
  BY <1>6 DEF Exit, Shape, WritersInv
<1> QED
  BY <1>1, <1>2, <1>3, <1>4, <1>5, <1>6 DEF Next, ValueStep, Leave, StructureReturn

LEMMA WritersInit ==
  ASSUME WriterAssumption, Init
  PROVE  WritersInv
<1>1. PICK p \in Message : writers = <<Writer(p, items[p], FALSE, 0)>>
  BY DEF Init
<1>2. p \in Parcel /\ position = 0
  BY DEF WriterAssumption, Init
<1> DEFINE w == Writer(p, items[p], FALSE, 0)
<1>3. WriterOK(w)
  <2>1. 0 \in Int
    OBVIOUS
  <2> QED BY <1>2, <2>1, ItemsLemma, WriterLemma, Zenon
<1>4. w \in WriterSet
  BY <1>3 DEF WriterOK
<1> HIDE DEF w
<1>5. writers = <<w>>
  BY <1>1 DEF w
<1> QED
  BY <1>2, <1>3, <1>4, <1>5 DEF WritersInv

LEMMA WritersStep ==
  ASSUME DataAssumption, WritersInv, [Next]_vars
  PROVE  WritersInv'
<1>1. CASE Next
  BY <1>1, StepShape, ShapeKeeps DEF DataAssumption
<1>2. CASE UNCHANGED vars
  BY <1>2 DEF vars, WritersInv
<1> QED
  BY <1>1, <1>2

LEMMA WritersInvariant ==
  ASSUME DataAssumption
  PROVE  Spec => []WritersInv
<1>1. Init => WritersInv
  BY WritersInit DEF DataAssumption
<1>2. WritersInv /\ [Next]_vars => WritersInv'
  BY WritersStep
<1> QED
  BY <1>1, <1>2, PTL DEF Spec

\* What a writer knows of a variable that is not an element is what the parcel says: the
\* cached status of a variable is cleared when write() begins, a call passes only what is
\* known, and the end of a structure only forgets.
THEOREM KnownIsSaidAlways ==
  ASSUME DataAssumption
  PROVE  Spec => []KnownIsSaid
<1>1. WritersInv => KnownIsSaid
  BY DEF WritersInv, WriterOK, Honest, KnownIsSaid, Remembered
<1> QED
  BY <1>1, WritersInvariant, PTL

\* A buffer has its members' bytes, or zeros, each at its place, however deep raw
\* structures and unions are nested.
THEOREM RawBytesAlways ==
  ASSUME DataAssumption
  PROVE  Spec => []RawBytes
<1>1. WritersInv => RawBytes
  <2> SUFFICES ASSUME WritersInv, NEW k \in DOMAIN writers
               PROVE  /\ Len(writers[k].rawData) = Len(writers[k].wanted)
                      /\ \A i \in DOMAIN writers[k].rawData :
                           writers[k].rawData[i] \in {0, writers[k].wanted[i]}
    BY DEF RawBytes
  <2>1. BytesFit(writers[k].rawData, writers[k].wanted)
    BY DEF WritersInv, WriterOK
  <2> QED BY <2>1 DEF BytesFit
<1> QED
  BY <1>1, WritersInvariant, PTL

\* An array that is left has as many elements as the size that the parcel has for it, up to
\* MAX_ARRAY_SIZE, whatever was written in it.
THEOREM ArraysSizedAlways ==
  ASSUME DataAssumption
  PROVE  Spec => ArraysSized
<1>1. ASSUME WritersInv, LeaveArray, SizeKnown
      PROVE  Array.made = Min({Top.said[SizeVariable], MaxArray})
  <2> DEFINE n == Len(Top.arrays)
             f == Top.arrays[n]
             a == table[Top.of][f.var]
  <2>1. Top \in WriterSet /\ Sized(Top) /\ Top.arrays # <<>> /\ ~Top.isRaw
    BY <1>1, TopLemma DEF WriterOK, LeaveArray, SizeKnown
  <2>2. Array = f /\ n \in 1..n /\ f.left = 0 /\ f.made \in Nat
    BY <1>1, <2>1, FrameLemma DEF Array, Last, LeaveArray
  <2>3. FrameSized(Top, f)
    BY <2>1, <2>2 DEF Sized
  <2>4. Elements(Top.said[SizeVariable]) = f.made + f.left
    BY <1>1, <2>2, <2>3 DEF SizeKnown, SizeVariable, FrameSized
  <2> QED BY <2>2, <2>4 DEF Elements
<1>2. WritersInv /\ [Next]_vars
        => [LeaveArray /\ SizeKnown => Array.made = Min({Top.said[SizeVariable], MaxArray})]_vars
  BY <1>1
<1> QED
  BY <1>2, WritersInvariant, PTL DEF Spec, ArraysSized
=============================================================================
