----------------------- MODULE ParcelTraversalProofs -----------------------
(***************************************************************************)
(* Theorems about ParcelTraversal, for all parcels, loops and arrays.      *)
(*                                                                         *)
(* The argument is about the stack of readers: a reader that has created   *)
(* another waits at the item that the other is for, and hands it whether   *)
(* the item is a dependency.  Each reader, in its frames, is somewhere in  *)
(* its parcel (Placed, Waiting); what has been copied so far depends on    *)
(* where it is and on the element chosen in the array that it is in        *)
(* (Independent, Copying, Solving).                                        *)
(***************************************************************************)
EXTENDS ParcelTraversal, SequenceTheorems, WellFoundedInduction, TLAPS

Frame == RangeFrame \cup ArrayFrame

ReaderSet ==
  [parcel : Parcel, idx : Nat, dependIdx : Nat, isDependency : BOOLEAN,
   frames : Seq(Frame), loopVisit : SUBSET Loop, whole : BOOLEAN, last : Nat,
   seen : SUBSET Nat, put : SUBSET Nat, empty : BOOLEAN]

-----------------------------------------------------------------------------
(* Where a reader is *)

Size(r) == Len(items[r.parcel])
TopOf(r) == r.frames[Len(r.frames)]
AtArray(r) == r.frames # <<>> /\ TopOf(r).kind = "array"

\* A range is made of items of its loop.
RangeOK(p, f) ==
  /\ 1 <= f.begin /\ f.begin < f.end /\ f.end <= Len(items[p]) + 1
  /\ f.at = Check \/ f.at \in f.begin..f.end
  /\ \A j \in f.begin..(f.end - 1) : f.loop \in LoopsOf(p, j)

FrameOK(p, f) == IF f.kind = "range" THEN RangeOK(p, f) ELSE f.at >= 1

\* The frame is at one of its items.
Within(f) == f.kind = "range" /\ f.at \in f.begin..(f.end - 1)

\* A reader in its parcel; an array is the innermost frame.
Placed(r) ==
  /\ r.idx \in 1..(Size(r) + 1)
  /\ \A k \in 1..Len(r.frames) : FrameOK(r.parcel, r.frames[k])
  /\ \A k \in 1..(Len(r.frames) - 1) : Within(r.frames[k])
  /\ r.frames # <<>> =>
       /\ r.idx <= Size(r)
       /\ r.frames[1].kind = "range" => r.frames[1].begin = r.idx
  /\ r.put \subseteq r.seen /\ r.seen \subseteq 1..Size(r)
  /\ AtArray(r) => r.last \in r.seen

\* It is at an item, and not at one that is behind the parcel or a range.
AtPlace(r) == IF r.frames = <<>> THEN r.idx <= Size(r) ELSE Within(TopOf(r))

\* A reader that waits for another is at an item, or at an element of an array.
Waiting(r) == r.last \in r.seen /\ (AtArray(r) \/ AtPlace(r))

Structure ==
  /\ operation \in {"write", "read"} /\ readers \in Seq(ReaderSet)
  /\ \A i \in 1..Len(readers) : Placed(readers[i])
  /\ \A i \in 1..(Len(readers) - 1) : Waiting(readers[i])

-----------------------------------------------------------------------------
(* What has been copied; waits says whether the reader waits for another *)

\* In an array that is the dependency: the element that was chosen has not been
\* dealt with, and while it is, the dependency is on.
Chosen(r, waits) ==
  LET f == TopOf(r) IN
  /\ f.chosen \in 1..f.size /\ f.at \in 1..f.chosen
  /\ r.isDependency => waits /\ f.at = f.chosen
  /\ waits /\ ~r.isDependency => f.at < f.chosen

\* A reader that is not to copy anything does not.
Independent(r) ==
  r.dependIdx = All /\ ~r.whole =>
    ~r.isDependency /\ r.put = {} /\ (AtArray(r) => TopOf(r).chosen = 0)

\* A reader for a structure that is the dependency copies all.
Copying(r, waits) ==
  r.whole =>
    /\ r.dependIdx = All
    /\ ~r.empty =>
         /\ r.seen \cap Plain(r.parcel) \subseteq r.put
         /\ IF AtArray(r) THEN Chosen(r, waits) ELSE r.isDependency

\* In front of the dependency, at it, and behind it.
Before(r) ==
  /\ r.idx < r.dependIdx
  /\ ~r.isDependency /\ r.put = {} /\ r.seen \subseteq 1..(r.dependIdx - 1)
  /\ \A k \in 1..Len(r.frames) :
       IF r.frames[k].kind = "range" THEN r.frames[k].end <= r.dependIdx
       ELSE r.frames[k].chosen = 0

AtDependency(r, waits) ==
  /\ r.idx = r.dependIdx
  /\ r.put = {} /\ r.seen \subseteq 1..r.dependIdx
  /\ waits \/ r.frames # <<>> => r.last = r.dependIdx
  /\ IF r.frames = <<>> THEN r.isDependency <=> waits
     ELSE Len(r.frames) = 1 /\ AtArray(r) /\ Chosen(r, waits)

Behind(r, waits) ==
  /\ r.idx = r.dependIdx + 1
  /\ r.isDependency /\ r.frames = <<>> /\ ~waits
  /\ r.put \subseteq {r.dependIdx} /\ r.seen \subseteq 1..r.dependIdx

Solving(r, waits) ==
  r.dependIdx # All /\ LoopsOf(r.parcel, r.dependIdx) = {} /\ ~r.empty =>
    Before(r) \/ AtDependency(r, waits) \/ Behind(r, waits)

Copied(r, waits) == Independent(r) /\ Copying(r, waits) /\ Solving(r, waits)

\* A reader is created for an item, and told whether it is the dependency.
Handed ==
  \A i \in 1..(Len(readers) - 1) :
    /\ readers[i + 1].whole = readers[i].isDependency
    /\ readers[i + 1].dependIdx = All

TraversalInv ==
  /\ Structure /\ Handed
  /\ \A i \in 1..(Len(readers) - 1) : Copied(readers[i], TRUE)
  /\ readers # <<>> => Copied(R, FALSE)

-----------------------------------------------------------------------------
(* Readers and their frames *)

LEMMA ItemsLemma ==
  ASSUME NEW p \in Parcel
  PROVE  /\ items[p] \in Seq(Item) /\ Len(items[p]) \in Nat
         /\ DOMAIN items[p] = 1..Len(items[p])
BY ParcelAssumption, LenProperties

\* What a step of a frame leaves of a reader.
Kept(s, r) ==
  /\ s.parcel = r.parcel /\ s.dependIdx = r.dependIdx /\ s.whole = r.whole
  /\ s.isDependency = r.isDependency /\ s.last = r.last
  /\ s.seen = r.seen /\ s.put = r.put /\ s.empty = r.empty

LEMMA FramesLemma ==
  ASSUME NEW r \in ReaderSet
  PROVE  /\ r.frames \in Seq(Frame) /\ Len(r.frames) \in Nat
         /\ r.frames # <<>> <=> Len(r.frames) >= 1
         /\ r.frames # <<>> => TopOf(r) = r.frames[Len(r.frames)] /\ TopOf(r) \in Frame
<1>1. r.frames \in Seq(Frame)
  BY DEF ReaderSet
<1>2. Len(r.frames) \in Nat /\ (r.frames # <<>> <=> Len(r.frames) >= 1)
  BY <1>1, EmptySeq, LenProperties
<1>3. r.frames # <<>> => TopOf(r) \in Frame
  BY <1>1, <1>2, ElementOfSeq DEF TopOf
<1> QED BY <1>1, <1>2, <1>3 DEF TopOf

\* A frame at another place is a frame.
LEMMA FrameLemma ==
  ASSUME NEW f \in Frame, NEW n \in Nat
  PROVE  /\ [f EXCEPT !.at = n] \in Frame
         /\ [f EXCEPT !.at = n].at = n /\ [f EXCEPT !.at = n].kind = f.kind
         /\ f.kind = "range" =>
              /\ [f EXCEPT !.at = n].begin = f.begin /\ [f EXCEPT !.at = n].end = f.end
              /\ [f EXCEPT !.at = n].loop = f.loop
         /\ f.kind # "range" =>
              /\ [f EXCEPT !.at = n].size = f.size /\ [f EXCEPT !.at = n].chosen = f.chosen
BY DEF Frame, RangeFrame, ArrayFrame

LEMMA FrameKind ==
  ASSUME NEW f \in Frame
  PROVE  /\ f.kind \in {"range", "array"} /\ f.at \in Nat /\ f.count \in Nat
         /\ f.kind = "range" => f.begin \in Nat /\ f.end \in Nat /\ f.loop \in Loop
         /\ f.kind = "array" => f.size \in 0..MaxArray /\ f.chosen \in 0..MaxArray
BY DEF Frame, RangeFrame, ArrayFrame

LEMMA PopLemma ==
  ASSUME NEW r \in ReaderSet, r.frames # <<>>
  PROVE  /\ PopFrame(r) \in ReaderSet /\ Kept(PopFrame(r), r) /\ PopFrame(r).idx = r.idx
         /\ PopFrame(r).loopVisit = r.loopVisit
         /\ Len(PopFrame(r).frames) = Len(r.frames) - 1
         /\ \A k \in 1..(Len(r.frames) - 1) : PopFrame(r).frames[k] = r.frames[k]
<1> DEFINE m == Len(r.frames) - 1
<1> DEFINE s == SubSeq(r.frames, 1, m)
<1>1. m \in Nat /\ r.frames \in Seq(Frame)
  BY FramesLemma
<1>2. \A k \in 1..m : r.frames[k] \in Frame
  BY <1>1, FramesLemma, ElementOfSeq
<1>3. s \in Seq(Frame) /\ Len(s) = m /\ \A k \in 1..m : s[k] = r.frames[k]
  <2> HIDE DEF m
  <2> QED BY <1>1, <1>2, SubSeqProperties
<1>4. PopFrame(r) = [r EXCEPT !.frames = s]
  BY DEF PopFrame
<1> HIDE DEF s
<1>5. /\ PopFrame(r) \in ReaderSet /\ Kept(PopFrame(r), r) /\ PopFrame(r).idx = r.idx
      /\ PopFrame(r).loopVisit = r.loopVisit /\ PopFrame(r).frames = s
  BY <1>3, <1>4 DEF ReaderSet, Kept
<1> QED BY <1>3, <1>5

LEMMA PushLemma ==
  ASSUME NEW r \in ReaderSet, NEW f \in Frame
  PROVE  /\ PushFrame(r, f) \in ReaderSet /\ Kept(PushFrame(r, f), r)
         /\ PushFrame(r, f).idx = r.idx /\ PushFrame(r, f).loopVisit = r.loopVisit
         /\ Len(PushFrame(r, f).frames) = Len(r.frames) + 1
         /\ \A k \in 1..Len(r.frames) : PushFrame(r, f).frames[k] = r.frames[k]
         /\ PushFrame(r, f).frames[Len(r.frames) + 1] = f
<1> DEFINE s == Append(r.frames, f)
<1>1. /\ s \in Seq(Frame) /\ Len(s) = Len(r.frames) + 1
      /\ \A k \in 1..Len(r.frames) : s[k] = r.frames[k]
      /\ s[Len(r.frames) + 1] = f
  BY FramesLemma, AppendProperties
<1>2. PushFrame(r, f) = [r EXCEPT !.frames = s]
  BY DEF PushFrame
<1> HIDE DEF s
<1>3. /\ PushFrame(r, f) \in ReaderSet /\ Kept(PushFrame(r, f), r)
      /\ PushFrame(r, f).idx = r.idx /\ PushFrame(r, f).loopVisit = r.loopVisit
      /\ PushFrame(r, f).frames = s
  BY <1>1, <1>2 DEF ReaderSet, Kept
<1> QED BY <1>1, <1>3

LEMMA SetFrameLemma ==
  ASSUME NEW r \in ReaderSet, NEW f \in Frame, r.frames # <<>>
  PROVE  /\ SetFrame(r, f) \in ReaderSet /\ Kept(SetFrame(r, f), r)
         /\ SetFrame(r, f).idx = r.idx /\ SetFrame(r, f).loopVisit = r.loopVisit
         /\ Len(SetFrame(r, f).frames) = Len(r.frames)
         /\ \A k \in 1..(Len(r.frames) - 1) : SetFrame(r, f).frames[k] = r.frames[k]
         /\ SetFrame(r, f).frames[Len(r.frames)] = f
<1> DEFINE s == [r.frames EXCEPT ![Len(r.frames)] = f]
<1>1. Len(r.frames) \in Nat /\ Len(r.frames) \in 1..Len(r.frames) /\ r.frames \in Seq(Frame)
  BY FramesLemma
<1>2. /\ s \in Seq(Frame) /\ Len(s) = Len(r.frames)
      /\ \A k \in 1..Len(r.frames) : s[k] = IF k = Len(r.frames) THEN f ELSE r.frames[k]
  BY <1>1, ExceptSeq
<1>3. SetFrame(r, f) = [r EXCEPT !.frames = s]
  BY DEF SetFrame
<1> HIDE DEF s
<1>4. /\ SetFrame(r, f) \in ReaderSet /\ Kept(SetFrame(r, f), r)
      /\ SetFrame(r, f).idx = r.idx /\ SetFrame(r, f).loopVisit = r.loopVisit
      /\ SetFrame(r, f).frames = s
  BY <1>2, <1>3 DEF ReaderSet, Kept
<1>5. \A k \in 1..(Len(r.frames) - 1) : k \in 1..Len(r.frames) /\ k # Len(r.frames)
  BY <1>1
<1> QED BY <1>1, <1>2, <1>4, <1>5

\* The innermost frame goes on by one.
Stepped(r) == [TopOf(r) EXCEPT !.at = @ + 1]

LEMMA SteppedLemma ==
  ASSUME NEW r \in ReaderSet, r.frames # <<>>
  PROVE  /\ Stepped(r) \in Frame /\ Stepped(r).at = TopOf(r).at + 1
         /\ Stepped(r).kind = TopOf(r).kind
         /\ TopOf(r).kind = "range" =>
              /\ Stepped(r).begin = TopOf(r).begin /\ Stepped(r).end = TopOf(r).end
              /\ Stepped(r).loop = TopOf(r).loop
         /\ TopOf(r).kind # "range" =>
              /\ Stepped(r).size = TopOf(r).size /\ Stepped(r).chosen = TopOf(r).chosen
         /\ [r EXCEPT !.frames[Len(r.frames)].at = @ + 1] = SetFrame(r, Stepped(r))
<1>1. TopOf(r) \in Frame /\ TopOf(r).at + 1 \in Nat
  BY FramesLemma, FrameKind
<1>2. Stepped(r) = [TopOf(r) EXCEPT !.at = TopOf(r).at + 1]
  BY DEF Stepped
<1>3. [r EXCEPT !.frames[Len(r.frames)].at = @ + 1] = SetFrame(r, Stepped(r))
  BY DEF SetFrame, Stepped, TopOf
<1> QED BY <1>1, <1>2, <1>3, FrameLemma

-----------------------------------------------------------------------------
(* A reader stays in its parcel *)

LEMMA PlacedSame ==
  ASSUME NEW r \in ReaderSet, NEW s \in ReaderSet, Placed(r),
         s.parcel = r.parcel, s.idx = r.idx, s.frames = r.frames,
         s.put \subseteq s.seen, s.seen \subseteq 1..Size(r), AtArray(r) => s.last \in s.seen
  PROVE  Placed(s) /\ (AtPlace(s) <=> AtPlace(r)) /\ (AtArray(s) <=> AtArray(r))
BY DEF Placed, AtPlace, AtArray, TopOf, Size

LEMMA PlacedPop ==
  ASSUME NEW r \in ReaderSet, r.frames # <<>>, Placed(r)
  PROVE  Placed(PopFrame(r)) /\ AtPlace(PopFrame(r)) /\ ~AtArray(PopFrame(r))
<1> DEFINE s == PopFrame(r)
<1>1. /\ s \in ReaderSet /\ Kept(s, r) /\ s.idx = r.idx
      /\ Len(s.frames) = Len(r.frames) - 1
      /\ \A k \in 1..(Len(r.frames) - 1) : s.frames[k] = r.frames[k]
  BY PopLemma
<1>2. /\ Len(r.frames) \in Nat /\ Len(r.frames) >= 1
      /\ s.frames # <<>> <=> Len(s.frames) >= 1
  BY <1>1, FramesLemma
<1> HIDE DEF s
<1>3. s.idx <= Size(s) /\ s.idx \in 1..(Size(s) + 1)
  BY <1>1 DEF Placed, Size, Kept
<1>4. /\ \A k \in 1..Len(s.frames) : FrameOK(s.parcel, s.frames[k])
      /\ \A k \in 1..Len(s.frames) : Within(s.frames[k])
  <2>1. \A k \in 1..Len(s.frames) : k \in 1..Len(r.frames) /\ k \in 1..(Len(r.frames) - 1)
    BY <1>1, <1>2
  <2> QED BY <1>1, <2>1 DEF Placed, Kept
<1>5. s.frames # <<>> /\ s.frames[1].kind = "range" => s.frames[1].begin = s.idx
  BY <1>1, <1>2 DEF Placed, Kept
<1>6. s.put \subseteq s.seen /\ s.seen \subseteq 1..Size(s)
  BY <1>1 DEF Placed, Kept, Size
<1>7. s.frames # <<>> => Within(TopOf(s)) /\ TopOf(s).kind # "array"
  BY <1>1, <1>2, <1>4, SMTT(30) DEF TopOf, Within
<1>8. AtPlace(s) /\ ~AtArray(s)
  BY <1>3, <1>7 DEF AtPlace, AtArray
<1>9. Placed(s)
  BY <1>1, <1>2, <1>3, <1>4, <1>5, <1>6, <1>8 DEF Placed
<1> QED BY <1>8, <1>9 DEF s

LEMMA PlacedSet ==
  ASSUME NEW r \in ReaderSet, NEW f \in Frame, r.frames # <<>>, Placed(r),
         FrameOK(r.parcel, f), f.kind = TopOf(r).kind,
         f.kind = "range" => f.begin = TopOf(r).begin
  PROVE  Placed(SetFrame(r, f)) /\ (AtArray(SetFrame(r, f)) <=> AtArray(r))
<1> DEFINE s == SetFrame(r, f)
<1>1. /\ s \in ReaderSet /\ Kept(s, r) /\ s.idx = r.idx
      /\ Len(s.frames) = Len(r.frames)
      /\ \A k \in 1..(Len(r.frames) - 1) : s.frames[k] = r.frames[k]
      /\ s.frames[Len(r.frames)] = f
  BY SetFrameLemma
<1>2. /\ Len(r.frames) \in Nat /\ Len(r.frames) >= 1 /\ s.frames # <<>>
      /\ TopOf(r) = r.frames[Len(r.frames)]
  BY <1>1, FramesLemma
<1> HIDE DEF s
<1>3. s.idx <= Size(s) /\ s.idx \in 1..(Size(s) + 1)
  BY <1>1 DEF Placed, Size, Kept
<1>4. \A k \in 1..Len(s.frames) : FrameOK(s.parcel, s.frames[k])
  <2>1. \A k \in 1..Len(s.frames) : k \in 1..(Len(r.frames) - 1) \/ k = Len(r.frames)
    BY <1>1, <1>2
  <2>2. \A k \in 1..(Len(r.frames) - 1) : k \in 1..Len(r.frames)
    BY <1>2
  <2> QED BY <1>1, <2>1, <2>2 DEF Placed, Kept
<1>5. \A k \in 1..(Len(s.frames) - 1) : Within(s.frames[k])
  BY <1>1, <1>2 DEF Placed
<1>6. s.frames[1].kind = "range" => s.frames[1].begin = s.idx
  <2>1. CASE Len(r.frames) = 1
    BY <1>1, <1>2, <2>1 DEF Placed
  <2>2. CASE Len(r.frames) # 1
    <3>1. s.frames[1] = r.frames[1]
      <4>1. \A n \in Nat : n >= 1 /\ n # 1 => 1 \in 1..(n - 1)
        OBVIOUS
      <4> QED BY <1>1, <1>2, <2>2, <4>1
    <3> QED BY <1>1, <1>2, <3>1 DEF Placed
  <2> QED BY <2>1, <2>2
<1>7. s.put \subseteq s.seen /\ s.seen \subseteq 1..Size(s)
  BY <1>1 DEF Placed, Kept, Size
<1>8. TopOf(s) = f
  BY <1>1 DEF TopOf
<1>9. (AtArray(s) <=> AtArray(r)) /\ (AtArray(s) => s.last \in s.seen)
  BY <1>1, <1>2, <1>8 DEF AtArray, Placed, Kept
<1>10. Placed(s)
  BY <1>1, <1>2, <1>3, <1>4, <1>5, <1>6, <1>7, <1>9 DEF Placed
<1> QED BY <1>9, <1>10 DEF s

LEMMA PlacedPush ==
  ASSUME NEW r \in ReaderSet, NEW f \in Frame, Placed(r), AtPlace(r),
         FrameOK(r.parcel, f),
         f.kind = "range" /\ r.frames = <<>> => f.begin = r.idx,
         f.kind = "array" => r.last \in r.seen
  PROVE  Placed(PushFrame(r, f)) /\ TopOf(PushFrame(r, f)) = f /\ PushFrame(r, f).frames # <<>>
<1> DEFINE s == PushFrame(r, f)
<1>1. /\ s \in ReaderSet /\ Kept(s, r) /\ s.idx = r.idx
      /\ Len(s.frames) = Len(r.frames) + 1
      /\ \A k \in 1..Len(r.frames) : s.frames[k] = r.frames[k]
      /\ s.frames[Len(r.frames) + 1] = f
  BY PushLemma
<1>2. /\ Len(r.frames) \in Nat /\ (r.frames # <<>> <=> Len(r.frames) >= 1)
      /\ s.frames # <<>> <=> Len(s.frames) >= 1
  BY <1>1, FramesLemma
<1> HIDE DEF s
<1>3. s.idx <= Size(s) /\ s.idx \in 1..(Size(s) + 1)
  BY <1>1 DEF Placed, AtPlace, Size, Kept
<1>4. \A k \in 1..Len(s.frames) : FrameOK(s.parcel, s.frames[k])
  <2>1. \A k \in 1..Len(s.frames) : k \in 1..Len(r.frames) \/ k = Len(r.frames) + 1
    BY <1>1, <1>2
  <2> QED BY <1>1, <2>1 DEF Placed, Kept
<1>5. \A k \in 1..(Len(s.frames) - 1) : Within(s.frames[k])
  <2>1. \A k \in 1..(Len(s.frames) - 1) :
          k \in 1..Len(r.frames) /\ (k \in 1..(Len(r.frames) - 1) \/ k = Len(r.frames))
    BY <1>1, <1>2
  <2>2. r.frames # <<>> => Within(r.frames[Len(r.frames)])
    BY DEF AtPlace, TopOf
  <2>3. \A k \in 1..Len(r.frames) : r.frames # <<>>
    BY <1>2
  <2> QED BY <1>1, <2>1, <2>2, <2>3 DEF Placed
<1>6. s.frames[1].kind = "range" => s.frames[1].begin = s.idx
  <2>1. CASE r.frames = <<>>
    <3>1. Len(r.frames) = 0
      BY <2>1
    <3> QED BY <1>1, <2>1, <3>1
  <2>2. CASE r.frames # <<>>
    BY <1>1, <1>2, <2>2 DEF Placed
  <2> QED BY <2>1, <2>2
<1>7. s.put \subseteq s.seen /\ s.seen \subseteq 1..Size(s)
  BY <1>1 DEF Placed, Kept, Size
<1>8. TopOf(s) = f /\ s.frames # <<>>
  BY <1>1, <1>2 DEF TopOf
<1>9. Placed(s)
  BY <1>1, <1>2, <1>3, <1>4, <1>5, <1>6, <1>7, <1>8 DEF Placed, AtArray, Kept
<1> QED BY <1>8, <1>9 DEF s

\* From an item the reader goes on by one.
LEMMA ReturnedLemma ==
  ASSUME NEW r \in ReaderSet, Placed(r), AtPlace(r), NEW n \in Nat
  PROVE  /\ Returned(r, n) \in ReaderSet /\ Kept(Returned(r, n), r)
         /\ Returned(r, n).loopVisit = r.loopVisit
         /\ r.frames = <<>> => Returned(r, n).frames = <<>> /\ Returned(r, n).idx = r.idx + n
         /\ r.frames # <<>> => /\ Returned(r, n) = SetFrame(r, Stepped(r))
                               /\ Returned(r, n).idx = r.idx
                               /\ Placed(Returned(r, n))
         /\ r.frames = <<>> /\ r.idx + n <= Size(r) + 1 => Placed(Returned(r, n))
         /\ ~AtArray(Returned(r, n))
<1> DEFINE s == Returned(r, n)
<1>1. CASE r.frames = <<>>
  <2>1. s = [r EXCEPT !.idx = @ + n]
    BY <1>1 DEF Returned
  <2>2. /\ s \in ReaderSet /\ Kept(s, r) /\ s.loopVisit = r.loopVisit
        /\ s.frames = r.frames /\ s.idx = r.idx + n
    BY <2>1 DEF ReaderSet, Kept
  <2> HIDE DEF s
  <2>3. r.idx \in Nat /\ r.idx >= 1 /\ Size(s) = Size(r) /\ Size(r) \in Nat
    BY <2>2, ItemsLemma DEF ReaderSet, Kept, Placed, Size
  <2>4. r.idx + n <= Size(r) + 1 => Placed(s)
    <3>1. Len(s.frames) = 0
      BY <1>1, <2>2
    <3> QED BY <1>1, <2>2, <2>3, <3>1 DEF Placed, AtArray, Kept
  <2>5. ~AtArray(s)
    BY <1>1, <2>2 DEF AtArray
  <2> QED BY <1>1, <2>2, <2>4, <2>5 DEF s
<1>2. CASE r.frames # <<>>
  <2>1. s = SetFrame(r, Stepped(r))
    BY <1>2, SteppedLemma DEF Returned
  <2>2. /\ s \in ReaderSet /\ Kept(s, r) /\ s.loopVisit = r.loopVisit /\ s.idx = r.idx
    <3>1. Stepped(r) \in Frame
      BY <1>2, SteppedLemma
    <3> HIDE DEF s
    <3> QED BY <1>2, <2>1, <3>1, SetFrameLemma
  <2> HIDE DEF s
  <2>3. TopOf(r) \in Frame /\ Within(TopOf(r)) /\ FrameOK(r.parcel, TopOf(r))
    BY <1>2, FramesLemma DEF AtPlace, Placed
  <2>4. FrameOK(r.parcel, Stepped(r))
    <3>1. /\ Stepped(r).kind = "range" /\ Stepped(r).at = TopOf(r).at + 1
          /\ Stepped(r).begin = TopOf(r).begin /\ Stepped(r).end = TopOf(r).end
          /\ Stepped(r).loop = TopOf(r).loop
      BY <1>2, <2>3, SteppedLemma DEF Within
    <3>2. RangeOK(r.parcel, TopOf(r)) /\ TopOf(r).begin \in Nat /\ TopOf(r).end \in Nat
      BY <2>3, FrameKind DEF Within, FrameOK
    <3>3. Stepped(r).at \in Stepped(r).begin..Stepped(r).end
      BY <2>3, <3>1, <3>2, FrameKind DEF Within
    <3> QED BY <3>1, <3>2, <3>3 DEF FrameOK, RangeOK
  <2>5. Placed(s) /\ (AtArray(s) <=> AtArray(r))
    <3>1. /\ Stepped(r) \in Frame /\ Stepped(r).kind = TopOf(r).kind
          /\ Stepped(r).begin = TopOf(r).begin
      BY <1>2, <2>3, SteppedLemma DEF Within
    <3> QED BY <1>2, <2>1, <2>4, <3>1, PlacedSet
  <2>6. ~AtArray(r)
    BY <2>3 DEF AtArray, Within
  <2> QED BY <1>2, <2>1, <2>2, <2>5, <2>6 DEF s
<1> QED BY <1>1, <1>2

-----------------------------------------------------------------------------
(* The stack of readers *)

LEMMA RLemma ==
  ASSUME TraversalInv, readers # <<>>
  PROVE  /\ readers \in Seq(ReaderSet) /\ Len(readers) \in Nat /\ Len(readers) >= 1
         /\ R = readers[Len(readers)] /\ R \in ReaderSet /\ Placed(R) /\ Copied(R, FALSE)
<1>1. readers \in Seq(ReaderSet)
  BY DEF TraversalInv, Structure
<1>2. Len(readers) \in Nat /\ Len(readers) >= 1
  BY <1>1, EmptySeq, LenProperties
<1>3. R = readers[Len(readers)] /\ R \in ReaderSet
  BY <1>1, <1>2, ElementOfSeq DEF R
<1>4. Len(readers) \in 1..Len(readers)
  BY <1>2
<1> QED BY <1>1, <1>2, <1>3, <1>4 DEF TraversalInv, Structure

\* The readers up to one that has gone on.
LEMMA StackLemma ==
  ASSUME TraversalInv, UNCHANGED operation, NEW m \in Nat, m < Len(readers),
         NEW s \in ReaderSet, Placed(s), Copied(s, FALSE),
         s.whole = readers[m + 1].whole, s.dependIdx = readers[m + 1].dependIdx,
         readers' \in Seq(ReaderSet), Len(readers') = m + 1,
         \A i \in 1..m : readers'[i] = readers[i], readers'[m + 1] = s
  PROVE  TraversalInv'
<1>1. readers \in Seq(ReaderSet) /\ Len(readers) \in Nat
  BY LenProperties DEF TraversalInv, Structure
<1>2. \A i \in 1..(m + 1) : i \in 1..m \/ i = m + 1
  OBVIOUS
<1>3. \A i \in 1..m : i \in 1..Len(readers) /\ i \in 1..(Len(readers) - 1)
  BY <1>1
<1>4. (m + 1) - 1 = m
  OBVIOUS
<1>5. Structure'
  BY <1>2, <1>3, <1>4 DEF TraversalInv, Structure
<1>6. Handed'
  <2>1. ASSUME NEW i \in 1..m
        PROVE  /\ readers'[i + 1].whole = readers'[i].isDependency
               /\ readers'[i + 1].dependIdx = All
    <3>1. /\ readers[i + 1].whole = readers[i].isDependency
          /\ readers[i + 1].dependIdx = All
      BY <1>3 DEF TraversalInv, Handed
    <3>2. i + 1 \in 1..m \/ i = m
      OBVIOUS
    <3> QED BY <3>1, <3>2
  <2> QED BY <1>4, <2>1 DEF Handed
<1>7. \A i \in 1..(Len(readers') - 1) : Copied(readers'[i], TRUE)
  BY <1>3, <1>4 DEF TraversalInv
<1>8. R' = s
  BY DEF R
<1> QED BY <1>5, <1>6, <1>7, <1>8 DEF TraversalInv

\* The innermost reader goes on.
LEMMA SetRLemma ==
  ASSUME TraversalInv, UNCHANGED operation, readers # <<>>,
         NEW s \in ReaderSet, Placed(s), Copied(s, FALSE),
         s.whole = R.whole, s.dependIdx = R.dependIdx, SetR(s)
  PROVE  TraversalInv'
<1> DEFINE m == Len(readers) - 1
<1>1. m \in Nat /\ m < Len(readers) /\ m + 1 = Len(readers) /\ R = readers[m + 1]
  BY RLemma
<1>2. /\ readers' \in Seq(ReaderSet) /\ Len(readers') = Len(readers)
      /\ \A i \in 1..Len(readers) : readers'[i] = IF i = Len(readers) THEN s ELSE readers[i]
  BY RLemma, ExceptSeq DEF SetR
<1> HIDE DEF m
<1>3. \A i \in 1..m : readers'[i] = readers[i]
  <2>1. \A i \in 1..m : i \in 1..Len(readers) /\ i # Len(readers)
    BY <1>1
  <2> QED BY <1>2, <2>1
<1>4. readers'[m + 1] = s
  <2>1. m + 1 \in 1..Len(readers)
    BY <1>1
  <2> QED BY <1>1, <1>2, <2>1
<1> QED BY <1>1, <1>2, <1>3, <1>4, StackLemma

\* A reader that is new has nothing copied.
LEMMA NewLemma ==
  ASSUME NEW p \in Parcel, NEW b \in BOOLEAN
  PROVE  LET r == Reader(p, All, b) IN
         /\ r \in ReaderSet /\ Placed(r) /\ Copied(r, FALSE)
         /\ r.whole = b /\ r.dependIdx = All
<1> DEFINE r == Reader(p, All, b)
<1>1. /\ r.parcel = p /\ r.idx = 1 /\ r.dependIdx = 0 /\ r.isDependency = b
      /\ r.frames = <<>> /\ r.loopVisit = {} /\ r.whole = b /\ r.last = 0
      /\ r.seen = {} /\ r.put = {} /\ r.empty = FALSE /\ All = 0
  BY DEF Reader, All
<1>2. r \in ReaderSet
  BY DEF Reader, ReaderSet, All
<1> HIDE DEF r
<1>3. Len(r.frames) = 0 /\ Size(r) \in Nat
  BY <1>1, ItemsLemma DEF Size
<1>4. Placed(r)
  BY <1>1, <1>3 DEF Placed, AtArray
<1>5. Copied(r, FALSE)
  BY <1>1 DEF Copied, Independent, Copying, Solving, AtArray
<1> QED BY <1>1, <1>2, <1>4, <1>5 DEF r

\* The innermost reader goes on to one for the structure at its item.
LEMMA NestLemma ==
  ASSUME TraversalInv, UNCHANGED operation, readers # <<>>,
         NEW s \in ReaderSet, Placed(s), Waiting(s), Copied(s, TRUE),
         s.whole = R.whole, s.dependIdx = R.dependIdx,
         NEW p \in Parcel, Nested(s, p)
  PROVE  TraversalInv'
<1> DEFINE n == Len(readers)
<1> DEFINE c == Reader(p, All, s.isDependency)
<1> DEFINE q == [readers EXCEPT ![n] = s]
<1>1. n \in Nat /\ n >= 1 /\ R = readers[n] /\ readers \in Seq(ReaderSet)
  BY RLemma
<1>2. /\ c \in ReaderSet /\ Placed(c) /\ Copied(c, FALSE)
      /\ c.whole = s.isDependency /\ c.dependIdx = All
  <2>1. s.isDependency \in BOOLEAN
    BY DEF ReaderSet
  <2> QED BY <2>1, NewLemma
<1>3. /\ q \in Seq(ReaderSet) /\ Len(q) = n
      /\ \A i \in 1..n : q[i] = IF i = n THEN s ELSE readers[i]
  BY <1>1, ExceptSeq
<1>4. readers' = Append(q, c)
  BY DEF Nested
<1> HIDE DEF n, c, q
<1>5. /\ readers' \in Seq(ReaderSet) /\ Len(readers') = n + 1 /\ readers'[n + 1] = c
      /\ \A i \in 1..n : readers'[i] = IF i = n THEN s ELSE readers[i]
  BY <1>2, <1>3, <1>4, AppendProperties
<1>6. \A i \in 1..n : i \in 1..(n - 1) \/ i = n
  BY <1>1
<1>7. (n + 1) - 1 = n /\ n \in 1..n /\ \A i \in 1..(n - 1) : i \in 1..n /\ i # n
  BY <1>1
<1>8. n = Len(readers)
  BY DEF n
<1>9. Structure'
  <2>1. \A i \in 1..(n + 1) : i \in 1..n \/ i = n + 1
    BY <1>1
  <2>2. \A i \in 1..(n + 1) : Placed(readers'[i])
    BY <1>2, <1>5, <1>8, <2>1 DEF TraversalInv, Structure
  <2>3. \A i \in 1..n : Waiting(readers'[i])
    BY <1>5, <1>6, <1>8 DEF TraversalInv, Structure
  <2> QED BY <1>5, <1>7, <2>2, <2>3 DEF TraversalInv, Structure
<1>10. Handed'
  <2>1. ASSUME NEW i \in 1..n
        PROVE  /\ readers'[i + 1].whole = readers'[i].isDependency
               /\ readers'[i + 1].dependIdx = All
    <3>1. CASE i = n
      BY <1>2, <1>5, <3>1
    <3>2. CASE i # n
      <4>1. i \in 1..(n - 1) /\ i + 1 \in 1..n
        BY <1>1, <3>2
      <4>2. /\ readers[i + 1].whole = readers[i].isDependency
            /\ readers[i + 1].dependIdx = All
        BY <1>8, <4>1 DEF TraversalInv, Handed
      <4>3. readers'[i + 1].whole = readers[i + 1].whole
            /\ readers'[i + 1].dependIdx = readers[i + 1].dependIdx
        BY <1>1, <1>5, <4>1
      <4> QED BY <1>5, <3>2, <4>2, <4>3
    <3> QED BY <3>1, <3>2
  <2> QED BY <1>5, <1>7, <2>1 DEF Handed
<1>11. \A i \in 1..(Len(readers') - 1) : Copied(readers'[i], TRUE)
  BY <1>5, <1>6, <1>7, <1>8 DEF TraversalInv
<1>12. R' = c
  BY <1>5 DEF R
<1> QED BY <1>2, <1>9, <1>10, <1>11, <1>12 DEF TraversalInv

-----------------------------------------------------------------------------
(* What has been copied, while an item is dealt with *)

\* The reader is about to deal with item i ...
Begun(s, i) ==
  /\ i \in 1..Size(s)
  /\ s.dependIdx = All /\ ~s.whole => ~s.isDependency /\ s.put = {}
  /\ s.whole => s.dependIdx = All /\ (~s.empty => s.isDependency
                                        /\ s.seen \cap Plain(s.parcel) \subseteq s.put)
  /\ s.dependIdx # All /\ LoopsOf(s.parcel, s.dependIdx) = {} /\ ~s.empty =>
       \/ Before(s) /\ i < s.dependIdx
       \/ /\ s.idx = s.dependIdx /\ i = s.dependIdx /\ s.frames = <<>> /\ s.isDependency
          /\ s.put = {} /\ s.seen \subseteq 1..s.dependIdx

\* ... and has dealt with the item it is at.
Ended(s) ==
  /\ s.dependIdx = All /\ ~s.whole => ~s.isDependency /\ s.put = {}
  /\ s.whole => s.dependIdx = All /\ (~s.empty => s.isDependency
                                        /\ s.seen \cap Plain(s.parcel) \subseteq s.put)
  /\ s.dependIdx # All /\ LoopsOf(s.parcel, s.dependIdx) = {} /\ ~s.empty =>
       \/ Before(s)
       \/ /\ s.idx = s.dependIdx /\ s.frames = <<>> /\ s.isDependency
          /\ s.put \subseteq {s.dependIdx} /\ s.seen \subseteq 1..s.dependIdx

\* It has dealt with an element: the dependency is on if it was that one.
Element(s) ==
  LET f == TopOf(s)
      chosen == f.chosen \in 1..f.size /\ f.at \in 1..f.chosen
                /\ (s.isDependency <=> f.at = f.chosen)
  IN /\ s.dependIdx = All /\ ~s.whole => ~s.isDependency /\ s.put = {} /\ f.chosen = 0
     /\ s.whole => s.dependIdx = All /\ (~s.empty => chosen
                                           /\ s.seen \cap Plain(s.parcel) \subseteq s.put)
     /\ s.dependIdx # All /\ LoopsOf(s.parcel, s.dependIdx) = {} /\ ~s.empty =>
          \/ Before(s)
          \/ /\ s.idx = s.dependIdx /\ s.last = s.dependIdx /\ Len(s.frames) = 1 /\ chosen
             /\ s.put \subseteq (IF s.isDependency THEN {s.dependIdx} ELSE {})
             /\ s.seen \subseteq 1..s.dependIdx

\* The frames of a reader that is in front of its dependency, after a step.
LEMMA BeforeFrames ==
  ASSUME NEW r \in ReaderSet, NEW s \in ReaderSet, Before(r),
         Kept(s, r), s.idx < s.dependIdx, Len(s.frames) <= Len(r.frames),
         \A k \in 1..Len(s.frames) : s.frames[k].kind = r.frames[k].kind,
         \A k \in 1..Len(s.frames) :
           IF s.frames[k].kind = "range" THEN s.frames[k].end = r.frames[k].end
           ELSE s.frames[k].chosen = r.frames[k].chosen
  PROVE  Before(s)
<1>1. \A k \in 1..Len(s.frames) : k \in 1..Len(r.frames)
  BY FramesLemma
<1>2. ~s.isDependency /\ s.put = {} /\ s.seen \subseteq 1..(s.dependIdx - 1)
  BY DEF Before, Kept
<1>3. \A k \in 1..Len(s.frames) :
        IF s.frames[k].kind = "range" THEN s.frames[k].end <= s.dependIdx
        ELSE s.frames[k].chosen = 0
  BY <1>1 DEF Before, Kept
<1> QED BY <1>2, <1>3 DEF Before

LEMMA BeforePop ==
  ASSUME NEW r \in ReaderSet, r.frames # <<>>, Before(r)
  PROVE  Before(PopFrame(r))
<1>1. /\ PopFrame(r) \in ReaderSet /\ Kept(PopFrame(r), r) /\ PopFrame(r).idx = r.idx
      /\ Len(PopFrame(r).frames) = Len(r.frames) - 1
      /\ \A k \in 1..(Len(r.frames) - 1) : PopFrame(r).frames[k] = r.frames[k]
  BY PopLemma
<1>2. Len(r.frames) \in Nat /\ Len(r.frames) >= 1
  BY FramesLemma
<1> QED BY <1>1, <1>2, BeforeFrames, SMTT(30) DEF Before, Kept

LEMMA BeforeStepped ==
  ASSUME NEW r \in ReaderSet, r.frames # <<>>, Before(r), NEW f \in Frame,
         f.kind = TopOf(r).kind,
         IF f.kind = "range" THEN f.end = TopOf(r).end ELSE f.chosen = TopOf(r).chosen
  PROVE  Before(SetFrame(r, f))
<1> DEFINE s == SetFrame(r, f)
<1>1. /\ s \in ReaderSet /\ Kept(s, r) /\ s.idx = r.idx
      /\ Len(s.frames) = Len(r.frames)
      /\ \A k \in 1..(Len(r.frames) - 1) : s.frames[k] = r.frames[k]
      /\ s.frames[Len(r.frames)] = f
  BY SetFrameLemma
<1>2. Len(r.frames) \in Nat /\ TopOf(r) = r.frames[Len(r.frames)]
  BY FramesLemma
<1> HIDE DEF s
<1>3. \A k \in 1..Len(s.frames) : k \in 1..(Len(r.frames) - 1) \/ k = Len(r.frames)
  BY <1>1, <1>2
<1>4. /\ \A k \in 1..Len(s.frames) : s.frames[k].kind = r.frames[k].kind
      /\ \A k \in 1..Len(s.frames) :
           IF s.frames[k].kind = "range" THEN s.frames[k].end = r.frames[k].end
           ELSE s.frames[k].chosen = r.frames[k].chosen
  BY <1>1, <1>2, <1>3
<1>5. s.idx < s.dependIdx /\ Len(s.frames) <= Len(r.frames)
  BY <1>1, <1>2 DEF Before, Kept
<1> QED BY <1>1, <1>4, <1>5, BeforeFrames DEF s

LEMMA EndedLemma ==
  ASSUME NEW r \in ReaderSet, Placed(r), AtPlace(r), Ended(r)
  PROVE  LET s == Returned(r, 1) IN
         /\ s \in ReaderSet /\ Placed(s) /\ Copied(s, FALSE)
         /\ s.whole = r.whole /\ s.dependIdx = r.dependIdx
<1> DEFINE s == Returned(r, 1)
<1>1. /\ s \in ReaderSet /\ Kept(s, r) /\ ~AtArray(s)
      /\ r.frames = <<>> => s.frames = <<>> /\ s.idx = r.idx + 1
      /\ r.frames # <<>> => s = SetFrame(r, Stepped(r)) /\ s.idx = r.idx /\ Placed(s)
      /\ r.frames = <<>> /\ r.idx + 1 <= Size(r) + 1 => Placed(s)
  BY ReturnedLemma
<1>2. Placed(s)
  <2>1. r.idx \in Nat /\ Size(r) \in Nat
    BY ItemsLemma DEF ReaderSet, Size
  <2> QED BY <1>1, <2>1 DEF AtPlace
<1>3. Independent(s)
  BY <1>1 DEF Independent, Ended, Kept
<1>4. Copying(s, FALSE)
  BY <1>1 DEF Copying, Ended, Kept
<1>5. r.frames # <<>> /\ Before(r) => Before(s)
  BY <1>1, FramesLemma, SteppedLemma, BeforeStepped, ZenonT(30)
<1>6. Solving(s, FALSE)
  <2> SUFFICES ASSUME s.dependIdx # All, LoopsOf(s.parcel, s.dependIdx) = {}, ~s.empty
               PROVE  Before(s) \/ AtDependency(s, FALSE) \/ Behind(s, FALSE)
    BY DEF Solving
  <2> HIDE DEF s
  <2>1. s.dependIdx \in Nat /\ s.idx \in Nat /\ r.idx \in Nat
    BY <1>1 DEF ReaderSet
  <2>2. CASE Before(r) /\ r.frames # <<>>
    BY <1>5, <2>2
  <2>3. CASE Before(r) /\ r.frames = <<>>
    <3>1. /\ s.frames = <<>> /\ s.idx = r.idx + 1 /\ s.idx <= s.dependIdx
          /\ ~s.isDependency /\ s.put = {} /\ s.seen \subseteq 1..(s.dependIdx - 1)
      BY <1>1, <2>1, <2>3 DEF Before, Kept
    <3>2. CASE s.idx < s.dependIdx
      <4>1. \A k \in 1..Len(s.frames) : FALSE
        BY <3>1
      <4> QED BY <3>1, <3>2, <4>1 DEF Before
    <3>3. CASE s.idx = s.dependIdx
      <4>1. s.seen \subseteq 1..s.dependIdx
        BY <2>1, <3>1
      <4> QED BY <3>1, <3>3, <4>1 DEF AtDependency
    <3>4. s.idx < s.dependIdx \/ s.idx = s.dependIdx
      BY <2>1, <3>1
    <3> QED BY <3>2, <3>3, <3>4
  <2>4. CASE /\ r.idx = r.dependIdx /\ r.frames = <<>> /\ r.isDependency
             /\ r.put \subseteq {r.dependIdx} /\ r.seen \subseteq 1..r.dependIdx
    BY <1>1, <2>4 DEF Behind, Kept
  <2> QED BY <1>1, <2>2, <2>3, <2>4 DEF Ended, Kept
<1> QED BY <1>1, <1>2, <1>3, <1>4, <1>6 DEF Copied, Kept

LEMMA ElementLemma ==
  ASSUME NEW r \in ReaderSet, Placed(r), AtArray(r), Element(r)
  PROVE  LET s == ElementDone(r) IN
         /\ s \in ReaderSet /\ Placed(s) /\ Copied(s, FALSE)
         /\ s.whole = r.whole /\ s.dependIdx = r.dependIdx
<1> DEFINE s == ElementDone(r)
<1>1. r.frames # <<>> /\ TopOf(r).kind = "array"
  BY DEF AtArray
<1>2. CASE r.isDependency
  <2> DEFINE q == PopFrame(r)
  <2>1. /\ q \in ReaderSet /\ Kept(q, r) /\ q.idx = r.idx
        /\ Len(q.frames) = Len(r.frames) - 1
    BY <1>1, PopLemma
  <2>2. Placed(q) /\ AtPlace(q)
    BY <1>1, PlacedPop
  <2>3. s = Returned(q, 1)
    BY <1>2 DEF ElementDone
  <2> HIDE DEF q, s
  <2>4. Len(r.frames) = 1 => q.frames = <<>>
    BY <2>1, FramesLemma
  <2>5. ~Before(r)
    BY <1>2 DEF Before
  <2>6. Ended(q)
    BY <1>2, <2>1, <2>4, <2>5 DEF Ended, Element, Kept
  <2> QED BY <2>1, <2>2, <2>3, <2>6, EndedLemma DEF s, Kept
<1>3. CASE ~r.isDependency
  <2> DEFINE f == Stepped(r)
  <2>1. s = SetFrame(r, f)
    BY <1>1, <1>3, SteppedLemma DEF ElementDone
  <2>2. /\ f \in Frame /\ f.kind = "array" /\ f.at = TopOf(r).at + 1
        /\ f.size = TopOf(r).size /\ f.chosen = TopOf(r).chosen
    BY <1>1, SteppedLemma
  <2> HIDE DEF f
  <2>3. /\ s \in ReaderSet /\ Kept(s, r) /\ s.idx = r.idx
        /\ Len(s.frames) = Len(r.frames) /\ s.frames[Len(r.frames)] = f
    BY <1>1, <2>1, <2>2, SetFrameLemma
  <2>4. TopOf(s) = f
    BY <2>3 DEF TopOf
  <2>5. Len(r.frames) \in Nat /\ Len(r.frames) >= 1 /\ TopOf(r) \in Frame
        /\ TopOf(r) = r.frames[Len(r.frames)]
    BY <1>1, FramesLemma
  <2>6. FrameOK(r.parcel, f)
    <3>1. TopOf(r).at \in Nat
      BY <2>5, FrameKind
    <3> QED BY <2>2, <3>1 DEF FrameOK
  <2>7. Placed(s) /\ AtArray(s)
    BY <1>1, <2>1, <2>2, <2>6, PlacedSet DEF AtArray
  <2>8. Before(r) => Before(s)
    BY <1>1, <2>1, <2>2, BeforeStepped
  <2> HIDE DEF s
  <2>9. ASSUME TopOf(r).chosen \in 1..TopOf(r).size, TopOf(r).at \in 1..TopOf(r).chosen,
               r.isDependency <=> TopOf(r).at = TopOf(r).chosen
        PROVE  Chosen(s, FALSE)
    <3>1. f.chosen \in 1..f.size /\ TopOf(r).at # f.chosen /\ TopOf(r).at \in 1..f.chosen
      BY <1>3, <2>2, <2>9
    <3>2. f.chosen \in Nat
      BY <3>1, <2>2, FrameKind
    <3>3. f.at \in 1..f.chosen
      BY <2>2, <3>1, <3>2
    <3> QED BY <1>3, <2>3, <2>4, <3>1, <3>3 DEF Chosen, Kept
  <2>10. Independent(s)
    BY <2>2, <2>3, <2>4 DEF Independent, Element, Kept
  <2>11. Copying(s, FALSE)
    BY <2>3, <2>7, <2>9 DEF Copying, Element, Kept
  <2>12. Solving(s, FALSE)
    <3> SUFFICES ASSUME s.dependIdx # All, LoopsOf(s.parcel, s.dependIdx) = {}, ~s.empty
                 PROVE  Before(s) \/ AtDependency(s, FALSE)
      BY DEF Solving
    <3>1. CASE ~Before(r)
      <4>1. /\ r.idx = r.dependIdx /\ r.last = r.dependIdx /\ Len(r.frames) = 1
            /\ Chosen(s, FALSE) /\ r.put = {} /\ r.seen \subseteq 1..r.dependIdx
        BY <1>3, <2>3, <2>9, <3>1 DEF Element, Kept
      <4>2. s.frames # <<>>
        BY <2>7 DEF AtArray
      <4> QED BY <2>3, <2>7, <4>1, <4>2 DEF AtDependency, Kept
    <3> QED BY <2>8, <3>1
  <2> QED BY <2>3, <2>7, <2>10, <2>11, <2>12 DEF Copied, Kept, s
<1> QED BY <1>2, <1>3

-----------------------------------------------------------------------------
(* Items *)

\* All but the item that was last.
Like(s, r) ==
  /\ s.parcel = r.parcel /\ s.dependIdx = r.dependIdx /\ s.whole = r.whole
  /\ s.idx = r.idx /\ s.frames = r.frames /\ s.isDependency = r.isDependency
  /\ s.seen = r.seen /\ s.put = r.put /\ s.empty = r.empty

LEMMA BegunLike ==
  ASSUME NEW r \in ReaderSet, NEW s \in ReaderSet, Like(s, r), NEW i, Begun(r, i)
  PROVE  Begun(s, i)
BY DEF Begun, Like, Before, Size

\* The item at which readWriteFrom is called.
LEMMA CurrentLemma ==
  ASSUME TraversalInv, AtItem
  PROVE  /\ readers # <<>> /\ Current \in ReaderSet
         /\ Placed(Current) /\ AtPlace(Current) /\ ~AtArray(Current)
         /\ Begun(Current, Position) /\ Position \in 1..Size(R)
         /\ Current.parcel = R.parcel /\ Current.dependIdx = R.dependIdx
         /\ Current.whole = R.whole /\ Current.idx = R.idx
         /\ Current.frames = R.frames /\ Current.last = R.last
         /\ Current.loopVisit = R.loopVisit /\ Current.empty = R.empty
         /\ R.frames = <<>> => Position = R.idx
<1>1. /\ R \in ReaderSet /\ Placed(R) /\ Copied(R, FALSE) /\ readers # <<>>
  BY RLemma DEF AtItem
<1>2. /\ R.idx \in Nat /\ R.dependIdx \in Nat /\ R.parcel \in Parcel
      /\ R.isDependency \in BOOLEAN /\ R.whole \in BOOLEAN /\ R.empty \in BOOLEAN
  BY <1>1 DEF ReaderSet
<1>3. Size(R) \in Nat /\ DOMAIN items[R.parcel] = 1..Size(R)
  BY <1>2, ItemsLemma DEF Size
<1> DEFINE c == Current
<1>4. CASE InStart
  <2>1. /\ c \in ReaderSet /\ c.parcel = R.parcel /\ c.dependIdx = R.dependIdx
        /\ c.whole = R.whole /\ c.idx = R.idx /\ c.frames = R.frames /\ c.last = R.last
        /\ c.loopVisit = R.loopVisit /\ c.empty = R.empty
        /\ c.seen = R.seen /\ c.put = R.put
        /\ c.isDependency = IsDependencyItem
    <3>1. c = [R EXCEPT !.isDependency = IsDependencyItem]
      BY <1>4 DEF Current
    <3>2. IsDependencyItem \in BOOLEAN
      BY <1>2 DEF IsDependencyItem
    <3> HIDE DEF c
    <3> QED BY <1>1, <3>1, <3>2 DEF ReaderSet
  <2> HIDE DEF c
  <2>2. R.frames = <<>> /\ Position = R.idx /\ R.idx \in 1..Size(R) /\ ~AlreadyRead
    BY <1>3, <1>4 DEF AtItem, InStart, InRange, Position
  <2>3. Placed(c) /\ AtPlace(c) /\ ~AtArray(c)
    <3>1. R.put \subseteq R.seen /\ R.seen \subseteq 1..Size(R) /\ ~AtArray(R) /\ AtPlace(R)
      BY <1>1, <2>2 DEF Placed, AtArray, AtPlace
    <3> QED BY <1>1, <2>1, <3>1, PlacedSame
  <2>4. c.isDependency <=> R.idx = R.dependIdx \/ R.isDependency
    BY <2>1 DEF IsDependencyItem
  <2>5. R.dependIdx = All => R.idx # R.dependIdx
    BY <2>2 DEF All
  <2>6. ~AtArray(R)
    BY <2>2 DEF AtArray
  <2>7. ASSUME R.dependIdx # All, LoopsOf(R.parcel, R.dependIdx) = {}, ~R.empty
        PROVE  \/ Before(c) /\ R.idx < c.dependIdx
               \/ /\ c.idx = c.dependIdx /\ R.idx = c.dependIdx /\ c.frames = <<>>
                  /\ c.isDependency /\ c.put = {} /\ c.seen \subseteq 1..c.dependIdx
    <3>1. Before(R) \/ AtDependency(R, FALSE) \/ Behind(R, FALSE)
      BY <1>1, <2>7 DEF Copied, Solving
    <3>2. CASE Before(R)
      BY <1>2, <2>1, <2>4, <3>2 DEF Before
    <3>3. CASE AtDependency(R, FALSE)
      BY <2>1, <2>2, <2>4, <3>3 DEF AtDependency
    <3>4. CASE Behind(R, FALSE)
      BY <1>2, <2>2, <2>7, <3>4 DEF Behind, AlreadyRead, IsDependencyItem
    <3> QED BY <3>1, <3>2, <3>3, <3>4
  <2>8. Begun(c, R.idx)
    <3>1. c.dependIdx = All /\ ~c.whole => ~c.isDependency /\ c.put = {}
      BY <1>1, <2>1, <2>4, <2>5 DEF Copied, Independent
    <3>2. c.whole => c.dependIdx = All /\ (~c.empty => c.isDependency
                                             /\ c.seen \cap Plain(c.parcel) \subseteq c.put)
      BY <1>1, <2>1, <2>4, <2>6 DEF Copied, Copying
    <3>3. R.idx \in 1..Size(c)
      BY <2>1, <2>2 DEF Size
    <3> QED BY <2>1, <2>7, <3>1, <3>2, <3>3 DEF Begun
  <2> QED BY <1>1, <2>1, <2>2, <2>3, <2>8 DEF c
<1>5. CASE ~InStart
  <2>1. c = R
    BY <1>5 DEF Current
  <2>2. /\ R.frames # <<>> /\ F = TopOf(R) /\ Position = F.at
        /\ F.kind = "range" /\ F.at \in F.begin..(F.end - 1)
    BY <1>5 DEF AtItem, InStart, InRange, F, TopOf, Position
  <2>3. AtPlace(R) /\ ~AtArray(R)
    BY <2>2 DEF AtPlace, AtArray, Within
  <2>4. /\ FrameOK(R.parcel, F) /\ F \in Frame /\ F = R.frames[Len(R.frames)]
        /\ Len(R.frames) \in 1..Len(R.frames)
    BY <1>1, <2>2, FramesLemma DEF Placed
  <2>5. F.at \in 1..Size(R) /\ F.begin \in Nat /\ F.end \in Nat
    BY <1>3, <2>2, <2>4, FrameKind, SMTT(30) DEF FrameOK, RangeOK, Size
  <2>6. ASSUME R.dependIdx # All, LoopsOf(R.parcel, R.dependIdx) = {}, ~R.empty
        PROVE  Before(R) /\ F.at < R.dependIdx
    <3>1. Before(R)
      BY <1>1, <2>2, <2>3, <2>6 DEF Copied, Solving, AtDependency, Behind
    <3>2. F.end <= R.dependIdx
      BY <2>2, <2>4, <3>1 DEF Before
    <3> QED BY <1>2, <2>2, <2>5, <3>1, <3>2
  <2>7. Begun(R, F.at)
    <3>1. R.dependIdx = All /\ ~R.whole => ~R.isDependency /\ R.put = {}
      BY <1>1 DEF Copied, Independent
    <3>2. R.whole => R.dependIdx = All /\ (~R.empty => R.isDependency
                                             /\ R.seen \cap Plain(R.parcel) \subseteq R.put)
      BY <1>1, <2>3 DEF Copied, Copying
    <3> QED BY <2>5, <2>6, <3>1, <3>2 DEF Begun
  <2> QED BY <1>1, <2>1, <2>2, <2>3, <2>5, <2>7
<1> QED BY <1>4, <1>5

LEMMA VisitedLemma ==
  ASSUME TraversalInv, AtItem
  PROVE  /\ Visited \in ReaderSet /\ Placed(Visited) /\ AtPlace(Visited) /\ ~AtArray(Visited)
         /\ Begun(Visited, Position) /\ Visited.last = Position
         /\ Visited.whole = R.whole /\ Visited.dependIdx = R.dependIdx
         /\ Visited.parcel = R.parcel /\ Visited.frames = R.frames
<1>1. /\ Current \in ReaderSet /\ Placed(Current) /\ AtPlace(Current) /\ ~AtArray(Current)
      /\ Begun(Current, Position) /\ Position \in 1..Size(R)
      /\ Current.whole = R.whole /\ Current.dependIdx = R.dependIdx
      /\ Current.parcel = R.parcel /\ Current.frames = R.frames
  BY CurrentLemma
<1>2. Visited = [Current EXCEPT !.last = Position] /\ Position \in Nat
  BY <1>1 DEF Visited
<1> HIDE DEF Current
<1>3. Visited \in ReaderSet /\ Like(Visited, Current) /\ Visited.last = Position
  BY <1>1, <1>2 DEF ReaderSet, Like
<1>4. Placed(Visited) /\ AtPlace(Visited) /\ ~AtArray(Visited)
  BY <1>1, <1>3, PlacedSame DEF Like, Placed
<1> QED BY <1>1, <1>3, <1>4, BegunLike DEF Like

LEMMA SkipItemStep ==
  ASSUME TraversalInv, SkipItem
  PROVE  TraversalInv'
<1>1. AtItem /\ UNCHANGED operation /\ SetR(Returned(Visited, 1)) /\ readers # <<>>
  BY DEF SkipItem, ReadItem, AtItem
<1>2. /\ Visited \in ReaderSet /\ Placed(Visited) /\ AtPlace(Visited)
      /\ Begun(Visited, Position)
      /\ Visited.whole = R.whole /\ Visited.dependIdx = R.dependIdx
  BY <1>1, VisitedLemma
<1>3. Ended(Visited)
  BY <1>2 DEF Begun, Ended
<1> QED BY <1>1, <1>2, <1>3, EndedLemma, SetRLemma

LEMMA PlainItemStep ==
  ASSUME TraversalInv, PlainItem
  PROVE  TraversalInv'
<1> DEFINE s == Value(Visited, Position)
<1>1. AtItem /\ UNCHANGED operation /\ SetR(Returned(s, 1)) /\ readers # <<>>
  BY DEF PlainItem, ReadItem, AtItem
<1>2. /\ Visited \in ReaderSet /\ Placed(Visited) /\ AtPlace(Visited) /\ ~AtArray(Visited)
      /\ Begun(Visited, Position)
      /\ Visited.whole = R.whole /\ Visited.dependIdx = R.dependIdx
  BY <1>1, VisitedLemma
<1> DEFINE r == Visited
<1> DEFINE i == Position
<1>3. i \in 1..Size(r) /\ i \in Nat
  BY <1>2 DEF Begun
<1>4. /\ s \in ReaderSet /\ s.parcel = r.parcel /\ s.dependIdx = r.dependIdx
      /\ s.whole = r.whole /\ s.idx = r.idx /\ s.frames = r.frames
      /\ s.isDependency = r.isDependency /\ s.empty = r.empty
      /\ s.seen = r.seen \cup {i}
      /\ s.put = IF r.isDependency THEN r.put \cup {i} ELSE r.put
  <2> HIDE DEF i, r
  <2> QED BY <1>2, <1>3 DEF Value, ReaderSet, r, i
<1> HIDE DEF r, i, s
<1>5. Placed(s) /\ AtPlace(s)
  BY <1>2, <1>3, <1>4, PlacedSame DEF Placed, r
<1>6. r.isDependency \in BOOLEAN /\ r.whole \in BOOLEAN /\ r.dependIdx \in Nat
  BY <1>2 DEF ReaderSet, r
<1>7. Begun(r, i)
  BY <1>2 DEF r, i
<1>8. Ended(s)
  <2>1. s.dependIdx = All /\ ~s.whole => ~s.isDependency /\ s.put = {}
    BY <1>4, <1>7 DEF Begun
  <2>2. s.whole => s.dependIdx = All /\ (~s.empty => s.isDependency
                                           /\ s.seen \cap Plain(s.parcel) \subseteq s.put)
    BY <1>4, <1>7 DEF Begun
  <2>3. ASSUME s.dependIdx # All, LoopsOf(s.parcel, s.dependIdx) = {}, ~s.empty
        PROVE  \/ Before(s)
               \/ /\ s.idx = s.dependIdx /\ s.frames = <<>> /\ s.isDependency
                  /\ s.put \subseteq {s.dependIdx} /\ s.seen \subseteq 1..s.dependIdx
    <3>1. CASE Before(r) /\ i < r.dependIdx
      <4>1. s.seen \subseteq 1..(s.dependIdx - 1)
        BY <1>3, <1>4, <1>6, <3>1 DEF Before
      <4> QED BY <1>4, <3>1, <4>1 DEF Before
    <3>2. CASE /\ r.idx = r.dependIdx /\ i = r.dependIdx /\ r.frames = <<>> /\ r.isDependency
               /\ r.put = {} /\ r.seen \subseteq 1..r.dependIdx
      <4>1. s.seen \subseteq 1..s.dependIdx
        BY <1>3, <1>4, <3>2
      <4> QED BY <1>4, <3>2, <4>1
    <3> QED BY <1>4, <1>7, <2>3, <3>1, <3>2 DEF Begun
  <2> QED BY <2>1, <2>2, <2>3 DEF Ended
<1>9. s.whole = R.whole /\ s.dependIdx = R.dependIdx
  BY <1>2, <1>4 DEF r
<1> QED BY <1>1, <1>4, <1>5, <1>8, <1>9, EndedLemma, SetRLemma DEF s

LEMMA StructItemStep ==
  ASSUME TraversalInv, StructItem
  PROVE  TraversalInv'
<1> DEFINE r == Visited
<1> DEFINE i == Position
<1> DEFINE s == [r EXCEPT !.seen = @ \cup {i}]
<1> DEFINE p == TheItem.of
<1>1. /\ AtItem /\ UNCHANGED operation /\ Nested(s, p) /\ readers # <<>>
      /\ ~TheItem.array /\ p # NoParcel
  BY DEF StructItem, ReadItem, AtItem
<1>2. /\ r \in ReaderSet /\ Placed(r) /\ AtPlace(r) /\ ~AtArray(r)
      /\ Begun(r, i) /\ r.last = i
      /\ r.whole = R.whole /\ r.dependIdx = R.dependIdx /\ r.parcel = R.parcel
  BY <1>1, VisitedLemma
<1>3. i \in 1..Size(r) /\ i \in Nat
  BY <1>2 DEF Begun
<1>4. p \in Parcel /\ i \notin Plain(r.parcel)
  <2>1. /\ r.parcel \in Parcel /\ TheItem = items[r.parcel][i]
        /\ items[r.parcel] \in Seq(Item) /\ i \in 1..Len(items[r.parcel])
    BY <1>2, <1>3, ItemsLemma DEF TheItem, ReaderSet, Size
  <2>2. TheItem \in Item
    BY <2>1, ElementOfSeq
  <2> QED BY <1>1, <2>1, <2>2 DEF Item, Plain
<1>5. /\ s \in ReaderSet /\ s.parcel = r.parcel /\ s.dependIdx = r.dependIdx
      /\ s.whole = r.whole /\ s.idx = r.idx /\ s.frames = r.frames /\ s.last = r.last
      /\ s.isDependency = r.isDependency /\ s.empty = r.empty
      /\ s.seen = r.seen \cup {i} /\ s.put = r.put
  <2> HIDE DEF i, r
  <2> QED BY <1>2, <1>3 DEF ReaderSet
<1> HIDE DEF r, i, s, p
<1>6. Placed(s) /\ AtPlace(s) /\ ~AtArray(s)
  BY <1>2, <1>3, <1>5, PlacedSame DEF Placed
<1>7. Waiting(s)
  BY <1>2, <1>5, <1>6 DEF Waiting
<1>8. r.isDependency \in BOOLEAN /\ r.dependIdx \in Nat
  BY <1>2 DEF ReaderSet
<1>9. Independent(s) /\ Copying(s, TRUE)
  BY <1>2, <1>4, <1>5, <1>6 DEF Independent, Copying, Begun
<1>10. Solving(s, TRUE)
  <2> SUFFICES ASSUME s.dependIdx # All, LoopsOf(s.parcel, s.dependIdx) = {}, ~s.empty
               PROVE  Before(s) \/ AtDependency(s, TRUE)
    BY DEF Solving
  <2>1. CASE Before(r) /\ i < r.dependIdx
    <3>1. s.seen \subseteq 1..(s.dependIdx - 1)
      BY <1>3, <1>5, <1>8, <2>1 DEF Before
    <3> QED BY <1>5, <2>1, <3>1 DEF Before
  <2>2. CASE /\ r.idx = r.dependIdx /\ i = r.dependIdx /\ r.frames = <<>> /\ r.isDependency
             /\ r.put = {} /\ r.seen \subseteq 1..r.dependIdx
    <3>1. s.seen \subseteq 1..s.dependIdx
      BY <1>3, <1>5, <2>2
    <3> QED BY <1>2, <1>5, <2>2, <3>1 DEF AtDependency
  <2> QED BY <1>2, <1>5, <2>1, <2>2 DEF Begun
<1>11. Copied(s, TRUE) /\ s.whole = R.whole /\ s.dependIdx = R.dependIdx
  BY <1>2, <1>5, <1>9, <1>10 DEF Copied
<1> QED BY <1>1, <1>4, <1>5, <1>6, <1>7, <1>11, NestLemma

\* With an array the reader goes on to its first element.
LEMMA ArrayItemLemma ==
  ASSUME TraversalInv, AtItem, UNCHANGED operation, TheItem.array,
         NEW size \in 0..MaxArray, NEW k \in 0..size,
         k = 0 <=> ~(Visited.isDependency /\ size > 0),
         SetR(PushFrame([Visited EXCEPT !.seen = @ \cup {Position}, !.empty = @ \/ size = 0,
                                        !.isDependency = FALSE],
                        [kind |-> "array", size |-> size, chosen |-> k, at |-> 1, count |-> 0]))
  PROVE  TraversalInv'
<1> DEFINE r == Visited
<1> DEFINE i == Position
<1> DEFINE q == [r EXCEPT !.seen = @ \cup {i}, !.empty = @ \/ size = 0, !.isDependency = FALSE]
<1>1. readers # <<>>
  BY DEF AtItem
<1>3. /\ r \in ReaderSet /\ Placed(r) /\ AtPlace(r) /\ ~AtArray(r)
      /\ Begun(r, i) /\ r.last = i
      /\ r.whole = R.whole /\ r.dependIdx = R.dependIdx /\ r.parcel = R.parcel
  BY <1>1, VisitedLemma
<1>4. k = 0 <=> ~(r.isDependency /\ size > 0)
  OBVIOUS
<1> DEFINE f == [kind |-> "array", size |-> size, chosen |-> k, at |-> 1, count |-> 0]
<1>5. /\ f \in Frame /\ f.kind = "array" /\ f.size = size /\ f.chosen = k /\ f.at = 1
  BY ParcelAssumption DEF Frame, ArrayFrame
<1>6. SetR(PushFrame(q, f))
  OBVIOUS
<1>7. i \in 1..Size(r) /\ i \in Nat
  BY <1>3 DEF Begun
<1>8. i \notin Plain(r.parcel)
  BY <1>3 DEF TheItem, Plain
<1>9. /\ q \in ReaderSet /\ q.parcel = r.parcel /\ q.dependIdx = r.dependIdx
      /\ q.whole = r.whole /\ q.idx = r.idx /\ q.frames = r.frames /\ q.last = r.last
      /\ q.isDependency = FALSE /\ (q.empty <=> r.empty \/ size = 0)
      /\ q.seen = r.seen \cup {i} /\ q.put = r.put
  <2> HIDE DEF i, r
  <2> QED BY <1>3, <1>7 DEF ReaderSet
<1> HIDE DEF r, i, q, f
<1>10. Placed(q) /\ AtPlace(q) /\ ~AtArray(q)
  BY <1>3, <1>7, <1>9, PlacedSame DEF Placed
<1> DEFINE s == PushFrame(q, f)
<1>11. /\ s \in ReaderSet /\ Kept(s, q) /\ s.idx = q.idx
       /\ Len(s.frames) = Len(q.frames) + 1
       /\ \A j \in 1..Len(q.frames) : s.frames[j] = q.frames[j]
       /\ s.frames[Len(q.frames) + 1] = f
  BY <1>5, <1>9, PushLemma
<1>12. Placed(s) /\ TopOf(s) = f /\ AtArray(s)
  <2>1. q.last \in q.seen /\ FrameOK(q.parcel, f)
    BY <1>3, <1>5, <1>9 DEF FrameOK
  <2> QED BY <1>5, <1>9, <1>10, <2>1, PlacedPush DEF AtArray
<1> HIDE DEF s
<1>13. r.isDependency \in BOOLEAN /\ r.dependIdx \in Nat /\ size \in Nat /\ k \in 0..size
       /\ r.empty \in BOOLEAN
  BY <1>3 DEF ReaderSet
<1>14. ~s.isDependency /\ (r.isDependency /\ size > 0 => Chosen(s, FALSE))
  <2>1. ~s.isDependency
    BY <1>9, <1>11 DEF Kept
  <2>2. r.isDependency /\ size > 0 => k \in 1..size /\ 1 \in 1..k
    BY <1>4, <1>13
  <2> QED BY <1>5, <1>12, <2>1, <2>2 DEF Chosen
<1>15. ~s.empty => size > 0 /\ ~r.empty
  BY <1>9, <1>11, <1>13 DEF Kept
<1>16. Independent(s)
  BY <1>3, <1>4, <1>5, <1>9, <1>11, <1>12 DEF Independent, Begun, Kept
<1>17. Copying(s, FALSE)
  BY <1>3, <1>8, <1>9, <1>11, <1>12, <1>14, <1>15 DEF Copying, Begun, Kept
<1>18. Solving(s, FALSE)
  <2> SUFFICES ASSUME s.dependIdx # All, LoopsOf(s.parcel, s.dependIdx) = {}, ~s.empty
               PROVE  Before(s) \/ AtDependency(s, FALSE)
    BY DEF Solving
  <2>0. /\ s.parcel = r.parcel /\ s.dependIdx = r.dependIdx /\ s.idx = r.idx
        /\ s.put = r.put /\ s.seen = r.seen \cup {i} /\ s.last = r.last
    BY <1>9, <1>11 DEF Kept
  <2>1. CASE Before(r) /\ i < r.dependIdx
    <3>1. s.seen \subseteq 1..(s.dependIdx - 1)
      BY <1>7, <1>13, <2>0, <2>1 DEF Before
    <3>2. k = 0
      BY <1>4, <2>1 DEF Before
    <3>3. \A j \in 1..Len(s.frames) : j \in 1..Len(r.frames) \/ j = Len(r.frames) + 1
      BY <1>3, <1>9, <1>11, FramesLemma
    <3>4. \A j \in 1..Len(s.frames) :
            IF s.frames[j].kind = "range" THEN s.frames[j].end <= s.dependIdx
            ELSE s.frames[j].chosen = 0
      BY <1>5, <1>9, <1>11, <2>0, <2>1, <3>2, <3>3 DEF Before
    <3> QED BY <1>14, <2>0, <2>1, <3>1, <3>4 DEF Before
  <2>2. CASE /\ r.idx = r.dependIdx /\ i = r.dependIdx /\ r.frames = <<>> /\ r.isDependency
             /\ r.put = {} /\ r.seen \subseteq 1..r.dependIdx
    <3>1. s.seen \subseteq 1..s.dependIdx
      BY <1>7, <2>0, <2>2
    <3>2. Len(s.frames) = 1 /\ s.frames # <<>>
      <4>1. Len(q.frames) = 0
        BY <1>9, <2>2
      <4> QED BY <1>11, <1>12, <4>1 DEF AtArray
    <3> QED BY <1>3, <1>12, <1>14, <1>15, <2>0, <2>2, <3>1, <3>2 DEF AtDependency
  <2> QED BY <1>3, <1>15, <2>0, <2>1, <2>2 DEF Begun
<1>19. Copied(s, FALSE) /\ s.whole = R.whole /\ s.dependIdx = R.dependIdx
  BY <1>3, <1>9, <1>11, <1>16, <1>17, <1>18 DEF Copied, Kept
<1> QED BY <1>1, <1>6, <1>11, <1>12, <1>19, SetRLemma DEF s

LEMMA ArrayItemStep ==
  ASSUME TraversalInv, ArrayItem
  PROVE  TraversalInv'
BY ArrayItemLemma DEF ArrayItem, ReadItem

-----------------------------------------------------------------------------
(* Loops *)

\* The loops of an item, and the items of a loop, are found by the least number.
LEMMA LeastNumber ==
  ASSUME NEW S \in SUBSET Nat, S # {}
  PROVE  \E m \in S : \A k \in S : m <= k
<1> DEFINE L == {p \in Nat \X Nat : p[1] < p[2]}
<1>1. IsWellFoundedOn(L, Nat)
  BY NatLessThanWellFounded, Zenon DEF OpToRel
<1>2. \A k, m \in Nat : <<k, m>> \in L <=> k < m
  OBVIOUS
<1>3. \E m \in S : \A k \in S : <<k, m>> \notin L
  <2> HIDE DEF L
  <2> QED BY <1>1, WFMin
<1> QED
  <2> HIDE DEF L
  <2>1. \A k, m \in Nat : ~(k < m) => m <= k
    OBVIOUS
  <2> QED BY <1>2, <1>3, <2>1

LEMMA ValidLoopLemma ==
  ASSUME R.parcel \in Parcel, NEW i \in 1..Size(R), HasValidLoop(i)
  PROVE  /\ ValidLoop(i) \in LoopsOf(R.parcel, i) /\ ValidLoop(i) \in Loop
         /\ ValidLoop(i) \notin R.loopVisit
<1> DEFINE loops == items[R.parcel][i].loops
<1>1. loops \in Seq(Loop) /\ DOMAIN loops = 1..Len(loops)
  <2>1. items[R.parcel] \in Seq(Item) /\ i \in 1..Len(items[R.parcel])
    BY ItemsLemma DEF Size
  <2>2. items[R.parcel][i] \in Item
    BY <2>1, ElementOfSeq
  <2>3. loops \in Seq(Loop)
    BY <2>2 DEF Item
  <2> QED BY <2>3, LenProperties
<1>2. Unvisited(i) \in SUBSET Nat /\ Unvisited(i) # {}
  BY <1>1 DEF Unvisited, HasValidLoop
<1>3. \E k \in Unvisited(i) : \A m \in Unvisited(i) : k <= m
  BY <1>2, LeastNumber
<1>4. (CHOOSE k \in Unvisited(i) : \A m \in Unvisited(i) : k <= m) \in Unvisited(i)
  BY <1>3
<1>5. /\ (CHOOSE k \in Unvisited(i) : \A m \in Unvisited(i) : k <= m) \in DOMAIN loops
      /\ loops[CHOOSE k \in Unvisited(i) : \A m \in Unvisited(i) : k <= m] \notin R.loopVisit
  BY <1>4 DEF Unvisited
<1>6. \A k \in DOMAIN loops : loops[k] \in Loop
  BY <1>1, ElementOfSeq
<1> QED BY <1>5, <1>6 DEF ValidLoop, LoopsOf

\* The range of a loop ends in front of the first item that is not in it.
LEMMA EndLemma ==
  ASSUME R.parcel \in Parcel, NEW i \in 1..Size(R), HasValidLoop(i), NEW after, NEW end,
         after \subseteq i..Size(R),
         \A j \in i..Size(R) : j \notin after <=> HasValidLoop(j) /\ ValidLoop(j) = ValidLoop(i),
         IF after = {} THEN end = Size(R) + 1 ELSE end \in after /\ \A k \in after : end <= k
  PROVE  /\ end \in Nat /\ i < end /\ end <= Size(R) + 1
         /\ \A j \in i..(end - 1) : ValidLoop(i) \in LoopsOf(R.parcel, j)
         /\ end <= Size(R) => ~(HasValidLoop(end) /\ ValidLoop(end) = ValidLoop(i))
<1>1. Size(R) \in Nat /\ i \in Nat /\ i <= Size(R)
  BY ItemsLemma DEF Size
<1>2. i \notin after
  BY <1>1
<1>3. \A j \in i..Size(R) : j \notin after => ValidLoop(i) \in LoopsOf(R.parcel, j)
  <2>1. \A j \in i..Size(R) : j \in 1..Size(R)
    BY <1>1
  <2> QED BY <2>1, ValidLoopLemma
<1>4. CASE after = {}
  <2>1. end = Size(R) + 1
    BY <1>4
  <2>2. \A n \in Nat : (n + 1) - 1 = n
    OBVIOUS
  <2>3. end - 1 = Size(R)
    BY <1>1, <2>1, <2>2
  <2>4. ~(end <= Size(R))
    BY <1>1, <2>1
  <2> QED BY <1>1, <1>3, <1>4, <2>1, <2>3, <2>4
<1>5. CASE after # {}
  <2>2. end \in after /\ \A k \in after : end <= k
    BY <1>5
  <2>3. end \in i..Size(R) /\ end # i
    BY <1>2, <2>2
  <2>4. \A j \in i..(end - 1) : j \in i..Size(R) /\ ~(end <= j)
    BY <1>1, <2>3
  <2>5. ~(HasValidLoop(end) /\ ValidLoop(end) = ValidLoop(i))
    BY <2>2, <2>3
  <2> QED BY <1>1, <1>3, <2>2, <2>3, <2>4, <2>5
<1> QED BY <1>4, <1>5

\* What EnterLoop adds to the frames.
LEMMA EnterLemma ==
  ASSUME TraversalInv, EnterLoop
  PROVE  LET i == Position
             l == ValidLoop(i)
         IN /\ l \in LoopsOf(R.parcel, i) /\ l \in Loop /\ l \notin R.loopVisit
            /\ \E end \in Nat :
                 /\ i < end /\ end <= Size(R) + 1
                 /\ \A j \in i..(end - 1) : l \in LoopsOf(R.parcel, j)
                 /\ end <= Size(R) => ~(HasValidLoop(end) /\ ValidLoop(end) = l)
                 /\ SetR(PushFrame([Current EXCEPT !.loopVisit = @ \cup {l}],
                                   [kind |-> "range", begin |-> i, end |-> end,
                                    loop |-> l, at |-> Check, count |-> 0]))
<1> DEFINE i == Position
<1> DEFINE l == ValidLoop(i)
<1> DEFINE a == {j \in i..Size(R) : ~(HasValidLoop(j) /\ ValidLoop(j) = l)}
<1> DEFINE e == IF a = {} THEN Size(R) + 1 ELSE CHOOSE j \in a : \A k \in a : j <= k
<1> DEFINE s(end) == PushFrame([Current EXCEPT !.loopVisit = @ \cup {l}],
                               [kind |-> "range", begin |-> i, end |-> end,
                                loop |-> l, at |-> Check, count |-> 0])
<1>1. AtItem /\ HasValidLoop(i) /\ SetR(s(e))
  BY DEF EnterLoop, Size
<1>2. R.parcel \in Parcel /\ i \in 1..Size(R)
  BY <1>1, CurrentLemma DEF ReaderSet
<1>3. /\ a \subseteq i..Size(R) /\ l = ValidLoop(i)
      /\ \A j \in i..Size(R) : j \notin a <=> HasValidLoop(j) /\ ValidLoop(j) = ValidLoop(i)
  OBVIOUS
<1>4. IF a = {} THEN e = Size(R) + 1 ELSE e \in a /\ \A k \in a : e <= k
  <2>1. e = IF a = {} THEN Size(R) + 1 ELSE CHOOSE j \in a : \A k \in a : j <= k
    OBVIOUS
  <2>2. a \in SUBSET Nat
    BY <1>2, <1>3, ItemsLemma DEF Size
  <2> HIDE DEF a, e
  <2>3. a # {} => \E j \in a : \A k \in a : j <= k
    BY <2>2, LeastNumber
  <2> QED BY <2>1, <2>3
<1> HIDE DEF i, l, a, e, s
<1>5. /\ e \in Nat /\ i < e /\ e <= Size(R) + 1
      /\ \A j \in i..(e - 1) : ValidLoop(i) \in LoopsOf(R.parcel, j)
      /\ e <= Size(R) => ~(HasValidLoop(e) /\ ValidLoop(e) = ValidLoop(i))
  BY <1>1, <1>2, <1>3, <1>4, EndLemma
<1>6. l \in LoopsOf(R.parcel, i) /\ l \in Loop /\ l \notin R.loopVisit
  BY <1>1, <1>2, <1>3, ValidLoopLemma
<1>7. \E end \in Nat :
        /\ i < end /\ end <= Size(R) + 1
        /\ \A j \in i..(end - 1) : l \in LoopsOf(R.parcel, j)
        /\ end <= Size(R) => ~(HasValidLoop(end) /\ ValidLoop(end) = l)
        /\ SetR(s(end))
  BY <1>1, <1>3, <1>5
<1> QED BY <1>6, <1>7 DEF i, l, s

LEMMA EnterLoopStep ==
  ASSUME TraversalInv, EnterLoop
  PROVE  TraversalInv'
<1> DEFINE i == Position
<1> DEFINE l == ValidLoop(i)
<1> DEFINE c == Current
<1> DEFINE q == [c EXCEPT !.loopVisit = @ \cup {l}]
<1>0. PICK end \in Nat :
        /\ i < end /\ end <= Size(R) + 1
        /\ \A j \in i..(end - 1) : l \in LoopsOf(R.parcel, j)
        /\ SetR(PushFrame(q, [kind |-> "range", begin |-> i, end |-> end,
                              loop |-> l, at |-> Check, count |-> 0]))
  BY EnterLemma
<1> DEFINE f == [kind |-> "range", begin |-> i, end |-> end, loop |-> l, at |-> Check, count |-> 0]
<1> DEFINE s == PushFrame(q, f)
<1>1. AtItem /\ UNCHANGED operation /\ HasValidLoop(i) /\ readers # <<>> /\ SetR(s)
  BY <1>0 DEF EnterLoop, AtItem
<1>2. /\ c \in ReaderSet /\ Placed(c) /\ AtPlace(c) /\ ~AtArray(c) /\ Begun(c, i)
      /\ i \in 1..Size(R) /\ c.parcel = R.parcel /\ c.dependIdx = R.dependIdx
      /\ c.whole = R.whole /\ c.frames = R.frames /\ c.idx = R.idx
      /\ c.frames = <<>> => i = c.idx
  BY <1>1, CurrentLemma
<1>3. c.parcel \in Parcel /\ c.dependIdx \in Nat /\ i \in Nat
  BY <1>2 DEF ReaderSet
<1>4. l \in LoopsOf(c.parcel, i) /\ l \in Loop
  BY <1>2, EnterLemma
<1>5. /\ end \in Nat /\ i < end /\ end <= Size(R) + 1
      /\ \A j \in i..(end - 1) : l \in LoopsOf(c.parcel, j)
  BY <1>0, <1>2
<1> HIDE DEF i, l, c
<1>6. /\ f \in Frame /\ f.kind = "range" /\ f.begin = i /\ f.end = end /\ f.loop = l
      /\ f.at = Check
  BY <1>3, <1>4, <1>5 DEF Frame, RangeFrame, Check
<1>7. /\ q \in ReaderSet /\ Kept(q, c) /\ q.idx = c.idx /\ q.frames = c.frames
  BY <1>2, <1>4 DEF ReaderSet, Kept
<1> HIDE DEF q, f
<1>8. Placed(q) /\ AtPlace(q) /\ ~AtArray(q)
  BY <1>2, <1>7, PlacedSame DEF Placed, Kept
<1>9. FrameOK(q.parcel, f)
  BY <1>2, <1>5, <1>6, <1>7 DEF FrameOK, RangeOK, Size, Kept
<1>10. /\ s \in ReaderSet /\ Kept(s, q) /\ s.idx = q.idx
       /\ Len(s.frames) = Len(q.frames) + 1
       /\ \A k \in 1..Len(q.frames) : s.frames[k] = q.frames[k]
       /\ s.frames[Len(q.frames) + 1] = f
  BY <1>6, <1>7, PushLemma
<1>11. Placed(s) /\ ~AtArray(s)
  BY <1>2, <1>6, <1>7, <1>8, <1>9, PlacedPush DEF AtArray
<1> HIDE DEF s
<1>12. Independent(s) /\ Copying(s, FALSE)
  BY <1>2, <1>7, <1>10, <1>11 DEF Independent, Copying, Begun, Kept
<1>13. Solving(s, FALSE)
  <2> SUFFICES ASSUME s.dependIdx # All, LoopsOf(s.parcel, s.dependIdx) = {}, ~s.empty
               PROVE  Before(s)
    BY DEF Solving
  <2>1. /\ s.parcel = c.parcel /\ s.dependIdx = c.dependIdx /\ s.empty = c.empty /\ s.idx = c.idx
        /\ s.put = c.put /\ s.seen = c.seen /\ s.isDependency = c.isDependency
    BY <1>7, <1>10 DEF Kept
  <2>2. i # c.dependIdx
    BY <1>4, <2>1
  <2>3. Before(c) /\ i < c.dependIdx
    BY <1>2, <2>1, <2>2 DEF Begun
  <2>4. f.end <= s.dependIdx
    <3>1. c.dependIdx \notin i..(end - 1)
      BY <1>5, <2>1
    <3> QED BY <1>3, <1>5, <1>6, <2>1, <2>3, <3>1
  <2>5. \A k \in 1..Len(s.frames) : k \in 1..Len(c.frames) \/ k = Len(c.frames) + 1
    BY <1>2, <1>7, <1>10, FramesLemma
  <2>6. \A k \in 1..Len(s.frames) :
          IF s.frames[k].kind = "range" THEN s.frames[k].end <= s.dependIdx
          ELSE s.frames[k].chosen = 0
    BY <1>6, <1>7, <1>10, <2>1, <2>3, <2>4, <2>5 DEF Before
  <2> QED BY <2>1, <2>3, <2>6 DEF Before
<1>14. Copied(s, FALSE) /\ s.whole = R.whole /\ s.dependIdx = R.dependIdx
  BY <1>2, <1>7, <1>10, <1>12, <1>13 DEF Copied, Kept
<1> QED BY <1>1, <1>10, <1>11, <1>14, SetRLemma

\* The reader in a range.
LEMMA RangeLemma ==
  ASSUME TraversalInv, readers # <<>>, InRange
  PROVE  /\ R \in ReaderSet /\ Placed(R) /\ ~AtArray(R) /\ R.frames # <<>>
         /\ F = TopOf(R) /\ F \in Frame /\ F.kind = "range" /\ RangeOK(R.parcel, F)
         /\ F.begin \in Nat /\ F.end \in Nat /\ F.loop \in Loop
         /\ Len(R.frames) = 1 => F.begin = R.idx
         /\ R.dependIdx = All /\ ~R.whole => ~R.isDependency /\ R.put = {}
         /\ R.whole => R.dependIdx = All /\ (~R.empty => R.isDependency
                                               /\ R.seen \cap Plain(R.parcel) \subseteq R.put)
         /\ R.dependIdx # All /\ LoopsOf(R.parcel, R.dependIdx) = {} /\ ~R.empty =>
              Before(R) /\ F.end <= R.dependIdx
<1>1. R \in ReaderSet /\ Placed(R) /\ Copied(R, FALSE)
  BY RLemma
<1>2. R.frames # <<>> /\ F = TopOf(R) /\ F.kind = "range" /\ ~AtArray(R)
  BY DEF InRange, F, TopOf, AtArray
<1>3. /\ TopOf(R) \in Frame /\ TopOf(R) = R.frames[Len(R.frames)]
      /\ Len(R.frames) \in 1..Len(R.frames)
  BY <1>1, <1>2, FramesLemma
<1>4. RangeOK(R.parcel, F)
  BY <1>1, <1>2, <1>3 DEF Placed, FrameOK
<1>5. F.begin \in Nat /\ F.end \in Nat /\ F.loop \in Loop
  BY <1>2, <1>3, FrameKind
<1>6. Len(R.frames) = 1 => F.begin = R.idx
  BY <1>1, <1>2, <1>3 DEF Placed
<1>7. R.dependIdx # All /\ LoopsOf(R.parcel, R.dependIdx) = {} /\ ~R.empty =>
        Before(R) /\ F.end <= R.dependIdx
  <2>1. R.dependIdx # All /\ LoopsOf(R.parcel, R.dependIdx) = {} /\ ~R.empty => Before(R)
    BY <1>1, <1>2 DEF Copied, Solving, AtDependency, Behind
  <2>2. Before(R) => F.end <= R.dependIdx
    BY <1>2, <1>3 DEF Before
  <2> QED BY <2>1, <2>2
<1> QED BY <1>1, <1>2, <1>3, <1>4, <1>5, <1>6, <1>7 DEF Copied, Independent, Copying

\* It goes on in the range.
LEMMA InRangeLemma ==
  ASSUME TraversalInv, readers # <<>>, InRange, UNCHANGED operation,
         NEW f \in Frame, f.kind = "range", f.begin = F.begin, f.end = F.end, f.loop = F.loop,
         f.at = Check \/ f.at = F.begin, SetR(SetFrame(R, f))
  PROVE  TraversalInv'
<1> DEFINE s == SetFrame(R, f)
<1>1. /\ R \in ReaderSet /\ Placed(R) /\ ~AtArray(R) /\ R.frames # <<>>
      /\ F = TopOf(R) /\ F.kind = "range" /\ RangeOK(R.parcel, F)
      /\ F.begin \in Nat /\ F.end \in Nat
  BY RangeLemma
<1>2. s \in ReaderSet /\ Kept(s, R) /\ s.idx = R.idx
  BY <1>1, SetFrameLemma
<1>3. FrameOK(R.parcel, f)
  BY <1>1 DEF FrameOK, RangeOK
<1>4. Placed(s) /\ ~AtArray(s)
  BY <1>1, <1>3, PlacedSet
<1>5. Before(R) => Before(s)
  BY <1>1, BeforeStepped
<1> HIDE DEF s
<1>6. Independent(s) /\ Copying(s, FALSE) /\ Solving(s, FALSE)
  BY <1>2, <1>4, <1>5, RangeLemma DEF Independent, Copying, Solving, Kept
<1> QED BY <1>2, <1>4, <1>6, SetRLemma DEF Copied, Kept, s

\* It leaves the range.
LEMMA LeaveLemma ==
  ASSUME TraversalInv, readers # <<>>, InRange, UNCHANGED operation, SetR(Leave)
  PROVE  TraversalInv'
<1> DEFINE q == [R EXCEPT !.loopVisit = @ \ {F.loop}]
<1> DEFINE p == PopFrame(q)
<1> DEFINE n == F.end - F.begin
<1> DEFINE s == Returned(p, n)
<1>1. /\ R \in ReaderSet /\ Placed(R) /\ ~AtArray(R) /\ R.frames # <<>>
      /\ F = TopOf(R) /\ F.kind = "range" /\ RangeOK(R.parcel, F)
      /\ F.begin \in Nat /\ F.end \in Nat
  BY RangeLemma
<1>2. n \in Nat /\ F.begin + n = F.end
  BY <1>1 DEF RangeOK
<1>3. s = Leave
  BY DEF Leave
<1>4. /\ q \in ReaderSet /\ Kept(q, R) /\ q.idx = R.idx /\ q.frames = R.frames
  BY <1>1 DEF ReaderSet, Kept
<1> HIDE DEF q, n
<1>5. Placed(q) /\ q.frames # <<>>
  BY <1>1, <1>4, PlacedSame DEF Placed, Kept
<1>6. /\ p \in ReaderSet /\ Kept(p, q) /\ p.idx = q.idx /\ Len(p.frames) = Len(q.frames) - 1
      /\ Placed(p) /\ AtPlace(p) /\ ~AtArray(p)
  BY <1>4, <1>5, PopLemma, PlacedPop
<1>7. Before(R) => Before(p)
  <2>1. Before(R) => Before(q)
    BY <1>4 DEF Before, Kept
  <2> QED BY <1>4, <1>5, <2>1, BeforePop
<1>8. p.frames = <<>> => Len(R.frames) = 1
  <2>1. Len(R.frames) \in Nat /\ Len(R.frames) >= 1 /\ (p.frames = <<>> => Len(p.frames) = 0)
    BY <1>1, FramesLemma
  <2> QED BY <1>4, <1>6, <2>1
<1> HIDE DEF p
<1>9. /\ s \in ReaderSet /\ Kept(s, p) /\ ~AtArray(s)
      /\ p.frames = <<>> => s.frames = <<>> /\ s.idx = p.idx + n
      /\ p.frames # <<>> => s = SetFrame(p, Stepped(p)) /\ s.idx = p.idx /\ Placed(s)
      /\ p.frames = <<>> /\ p.idx + n <= Size(p) + 1 => Placed(s)
  BY <1>2, <1>6, ReturnedLemma
<1>10. p.frames = <<>> => p.idx + n = F.end
  BY <1>1, <1>2, <1>4, <1>6, <1>8, RangeLemma
<1>11. Placed(s)
  BY <1>1, <1>4, <1>6, <1>9, <1>10 DEF RangeOK, Size, Kept
<1> DEFINE g == Stepped(p)
<1>12. p.frames # <<>> /\ Before(p) => Before(s)
  <2>1. p.frames # <<>> => TopOf(p).kind = "range"
    BY <1>6 DEF AtPlace, Within
  <2>2. p.frames # <<>> => g \in Frame /\ g.kind = TopOf(p).kind /\ g.end = TopOf(p).end
    BY <1>6, <2>1, SteppedLemma
  <2> HIDE DEF g, s
  <2> QED BY <1>6, <1>9, <2>1, <2>2, BeforeStepped DEF g
<1> HIDE DEF s
<1>13. Kept(s, R)
  BY <1>4, <1>6, <1>9 DEF Kept
<1>14. Independent(s) /\ Copying(s, FALSE)
  BY <1>9, <1>13, RangeLemma DEF Independent, Copying, Kept
<1>15. Solving(s, FALSE)
  <2> SUFFICES ASSUME s.dependIdx # All, LoopsOf(s.parcel, s.dependIdx) = {}, ~s.empty
               PROVE  Before(s) \/ AtDependency(s, FALSE)
    BY DEF Solving
  <2>1. Before(R) /\ F.end <= R.dependIdx
    BY <1>13, RangeLemma DEF Kept
  <2>2. Before(p) /\ s.dependIdx = R.dependIdx /\ R.dependIdx \in Nat /\ s.dependIdx \in Nat
    BY <1>1, <1>7, <1>13, <2>1 DEF Kept, ReaderSet
  <2>3. CASE p.frames = <<>>
    <3>1. s.idx = F.end /\ s.frames = <<>>
      BY <1>9, <1>10, <2>3
    <3>2. ~s.isDependency /\ s.put = {} /\ s.seen \subseteq 1..(s.dependIdx - 1)
      BY <1>13, <2>1 DEF Before, Kept
    <3>3. CASE F.end = s.dependIdx
      <4>1. s.seen \subseteq 1..s.dependIdx
        BY <2>2, <3>2
      <4> QED BY <3>1, <3>2, <3>3, <4>1 DEF AtDependency
    <3>4. CASE F.end < s.dependIdx
      <4>1. \A k \in 1..Len(s.frames) : FALSE
        BY <3>1
      <4> QED BY <3>1, <3>2, <3>4, <4>1 DEF Before
    <3>5. \A m, k \in Nat : m <= k => m < k \/ m = k
      OBVIOUS
    <3>6. F.end \in Nat /\ s.dependIdx \in Nat /\ F.end <= s.dependIdx
      BY <1>1, <2>1, <2>2
    <3> QED BY <3>3, <3>4, <3>5, <3>6
  <2>4. CASE p.frames # <<>>
    BY <1>12, <2>2, <2>4
  <2> QED BY <2>3, <2>4
<1> QED BY <1>3, <1>9, <1>11, <1>13, <1>14, <1>15, SetRLemma DEF Copied, Kept

LEMMA IterateStep ==
  ASSUME TraversalInv, Iterate
  PROVE  TraversalInv'
<1> DEFINE f == [F EXCEPT !.at = F.begin]
<1>1. readers # <<>> /\ InRange /\ UNCHANGED operation /\ SetR(SetFrame(R, f))
  BY DEF Iterate
<1>2. F \in Frame /\ F.kind = "range" /\ F.begin \in Nat
  BY <1>1, RangeLemma
<1>3. /\ f \in Frame /\ f.kind = "range" /\ f.begin = F.begin /\ f.end = F.end
      /\ f.loop = F.loop /\ f.at = F.begin
  BY <1>2, FrameLemma
<1> HIDE DEF f
<1> QED BY <1>1, <1>3, InRangeLemma

LEMMA LeaveLoopStep ==
  ASSUME TraversalInv, LeaveLoop
  PROVE  TraversalInv'
BY LeaveLemma DEF LeaveLoop

LEMMA NextIterationStep ==
  ASSUME TraversalInv, NextIteration
  PROVE  TraversalInv'
<1> DEFINE f == [F EXCEPT !.at = Check, !.count = @ + 1]
<1>1. /\ readers # <<>> /\ InRange /\ UNCHANGED operation
      /\ SetR(Leave) \/ SetR(SetFrame(R, f))
  BY DEF NextIteration
<1>2. F \in Frame /\ F.kind = "range"
  BY <1>1, RangeLemma
<1>3. /\ f \in Frame /\ f.kind = "range" /\ f.begin = F.begin /\ f.end = F.end
      /\ f.loop = F.loop /\ f.at = Check
  <2>1. F \in RangeFrame
    BY <1>2 DEF Frame, RangeFrame, ArrayFrame
  <2> DEFINE g == [F EXCEPT !.at = Check]
  <2>2. /\ g \in RangeFrame /\ g.kind = "range" /\ g.begin = F.begin /\ g.end = F.end
        /\ g.loop = F.loop /\ g.at = Check /\ g.count + 1 \in Nat
    BY <2>1 DEF RangeFrame, Check
  <2>3. f = [g EXCEPT !.count = g.count + 1]
    BY <2>1 DEF RangeFrame
  <2> HIDE DEF g, f
  <2> QED BY <2>2, <2>3 DEF Frame, RangeFrame
<1> HIDE DEF f
<1>4. CASE SetR(Leave)
  BY <1>1, <1>4, LeaveLemma
<1>5. CASE SetR(SetFrame(R, f))
  BY <1>1, <1>3, <1>5, InRangeLemma
<1> QED BY <1>1, <1>4, <1>5

-----------------------------------------------------------------------------
(* Elements of arrays *)

\* The reader in an array.
LEMMA ArrayLemma ==
  ASSUME TraversalInv, readers # <<>>, InArray
  PROVE  /\ R \in ReaderSet /\ Placed(R) /\ AtArray(R) /\ Copied(R, FALSE)
         /\ R.frames # <<>> /\ F = TopOf(R)
         /\ F.at \in Nat /\ F.at >= 1 /\ F.size \in Nat /\ F.chosen \in Nat
         /\ R.last \in R.seen /\ R.last \in 1..Size(R)
         /\ Before(R) => F.chosen = 0
         /\ ~Behind(R, FALSE)
<1>1. R \in ReaderSet /\ Placed(R) /\ Copied(R, FALSE)
  BY RLemma
<1>2. R.frames # <<>> /\ F = TopOf(R) /\ F.kind = "array" /\ AtArray(R)
  BY DEF InArray, F, TopOf, AtArray
<1>3. /\ TopOf(R) \in Frame /\ TopOf(R) = R.frames[Len(R.frames)]
      /\ Len(R.frames) \in 1..Len(R.frames)
  BY <1>1, <1>2, FramesLemma
<1>4. /\ F.at \in Nat /\ F.size \in 0..MaxArray /\ F.chosen \in 0..MaxArray
  BY <1>2, <1>3, FrameKind
<1>5. F.at >= 1
  BY <1>1, <1>2, <1>3 DEF Placed, FrameOK
<1>6. R.last \in R.seen /\ R.seen \subseteq 1..Size(R)
  BY <1>1, <1>2 DEF Placed
<1>7. Before(R) => F.chosen = 0
  BY <1>2, <1>3 DEF Before
<1>8. ~Behind(R, FALSE)
  BY <1>2 DEF Behind
<1>9. F.size \in Nat /\ F.chosen \in Nat
  BY <1>4
<1>10. R.last \in 1..Size(R)
  BY <1>6
<1> QED BY <1>1, <1>2, <1>4, <1>5, <1>6, <1>7, <1>8, <1>9, <1>10

\* At the element that is the dependency, the dependency is on again.
LEMMA RecoveredLemma ==
  ASSUME TraversalInv, readers # <<>>, InArray
  PROVE  /\ Recovered \in ReaderSet /\ Placed(Recovered) /\ AtArray(Recovered)
         /\ Element(Recovered) /\ Recovered.last = R.last /\ Recovered.parcel = R.parcel
         /\ Recovered.whole = R.whole /\ Recovered.dependIdx = R.dependIdx
         /\ Recovered.seen = R.seen
         /\ Recovered.dependIdx # All /\ LoopsOf(R.parcel, R.dependIdx) = {} /\ ~Recovered.empty =>
              Recovered.put = {}
<1> DEFINE s == Recovered
<1>1. /\ R \in ReaderSet /\ Placed(R) /\ AtArray(R) /\ Copied(R, FALSE)
      /\ R.frames # <<>> /\ F = TopOf(R)
      /\ F.at \in Nat /\ F.at >= 1 /\ F.size \in Nat /\ F.chosen \in Nat
      /\ R.last \in R.seen /\ (Before(R) => F.chosen = 0) /\ ~Behind(R, FALSE)
  BY ArrayLemma
<1>2. /\ s.last = R.last /\ s.parcel = R.parcel /\ s.dependIdx = R.dependIdx
      /\ s.whole = R.whole /\ s.idx = R.idx /\ s.frames = R.frames
      /\ s.seen = R.seen /\ s.put = R.put /\ s.empty = R.empty
      /\ s.isDependency <=> F.at = F.chosen \/ R.isDependency
  BY <1>1 DEF Recovered, ReaderSet
<1>3. s \in ReaderSet
  BY <1>1 DEF Recovered, ReaderSet
<1> HIDE DEF s
<1>4. Placed(s) /\ AtArray(s)
  BY <1>1, <1>2, <1>3, PlacedSame DEF Placed
<1>5. TopOf(s) = F
  BY <1>1, <1>2 DEF TopOf
<1>6. Chosen(R, FALSE) => /\ F.chosen \in 1..F.size /\ F.at \in 1..F.chosen
                          /\ s.isDependency <=> F.at = F.chosen
  BY <1>1, <1>2 DEF Chosen
<1>7. s.dependIdx = All /\ ~s.whole => ~s.isDependency /\ s.put = {} /\ F.chosen = 0
  BY <1>1, <1>2 DEF Copied, Independent
<1>8. s.whole => s.dependIdx = All /\ (~s.empty => Chosen(R, FALSE)
                                         /\ s.seen \cap Plain(s.parcel) \subseteq s.put)
  BY <1>1, <1>2 DEF Copied, Copying
<1>9. ASSUME s.dependIdx # All, LoopsOf(s.parcel, s.dependIdx) = {}, ~s.empty
      PROVE  /\ s.put = {}
             /\ \/ Before(s)
                \/ /\ s.idx = s.dependIdx /\ s.last = s.dependIdx /\ Len(s.frames) = 1
                   /\ Chosen(R, FALSE) /\ s.seen \subseteq 1..s.dependIdx
  <2>1. Before(R) \/ AtDependency(R, FALSE)
    BY <1>1, <1>2, <1>9 DEF Copied, Solving
  <2>2. CASE Before(R)
    <3>1. ~s.isDependency
      BY <1>1, <1>2, <2>2 DEF Before
    <3> QED BY <1>2, <2>2, <3>1 DEF Before
  <2>3. CASE AtDependency(R, FALSE)
    BY <1>1, <1>2, <2>3 DEF AtDependency
  <2> QED BY <2>1, <2>2, <2>3
<1>10. Element(s)
  BY <1>5, <1>6, <1>7, <1>8, <1>9 DEF Element
<1> QED BY <1>2, <1>3, <1>4, <1>9, <1>10 DEF s

LEMMA SkipElementStep ==
  ASSUME TraversalInv, SkipElement
  PROVE  TraversalInv'
<1>1. readers # <<>> /\ InArray /\ UNCHANGED operation /\ SetR(ElementDone(Recovered))
  BY DEF SkipElement, ReadElement
<1>2. /\ Recovered \in ReaderSet /\ Placed(Recovered) /\ AtArray(Recovered)
      /\ Element(Recovered)
      /\ Recovered.whole = R.whole /\ Recovered.dependIdx = R.dependIdx
  BY <1>1, RecoveredLemma
<1> QED BY <1>1, <1>2, ElementLemma, SetRLemma

LEMMA PlainElementStep ==
  ASSUME TraversalInv, PlainElement
  PROVE  TraversalInv'
<1> DEFINE r == Recovered
<1> DEFINE i == R.last
<1> DEFINE s == Value(r, i)
<1>1. readers # <<>> /\ InArray /\ UNCHANGED operation /\ SetR(ElementDone(s))
  BY DEF PlainElement, ReadElement
<1>2. /\ r \in ReaderSet /\ Placed(r) /\ AtArray(r) /\ Element(r)
      /\ r.last = i /\ i \in r.seen /\ i \in 1..Size(R)
      /\ r.whole = R.whole /\ r.dependIdx = R.dependIdx
  BY <1>1, RecoveredLemma, ArrayLemma
<1>3. i \in Nat
  BY <1>2
<1> HIDE DEF r, i
<1>4. /\ s \in ReaderSet /\ s.parcel = r.parcel /\ s.dependIdx = r.dependIdx
      /\ s.whole = r.whole /\ s.idx = r.idx /\ s.frames = r.frames /\ s.last = r.last
      /\ s.isDependency = r.isDependency /\ s.empty = r.empty
      /\ s.seen = r.seen
      /\ s.put = IF r.isDependency THEN r.put \cup {i} ELSE r.put
  BY <1>2, <1>3 DEF Value, ReaderSet
<1> HIDE DEF s
<1>5. Placed(s) /\ AtArray(s)
  BY <1>2, <1>4, PlacedSame DEF Placed
<1>6. TopOf(s) = TopOf(r)
  BY <1>4 DEF TopOf
<1>7. Before(r) => Before(s)
  BY <1>4 DEF Before
<1>8. Element(s)
  BY <1>2, <1>4, <1>6, <1>7 DEF Element
<1>9. s.whole = R.whole /\ s.dependIdx = R.dependIdx
  BY <1>2, <1>4
<1> QED BY <1>1, <1>4, <1>5, <1>8, <1>9, ElementLemma, SetRLemma

LEMMA StructElementStep ==
  ASSUME TraversalInv, StructElement
  PROVE  TraversalInv'
<1> DEFINE s == Recovered
<1> DEFINE p == TheArray.of
<1>1. /\ readers # <<>> /\ InArray /\ UNCHANGED operation /\ Nested(s, p) /\ p # NoParcel
  BY DEF StructElement, ReadElement
<1>2. /\ s \in ReaderSet /\ Placed(s) /\ AtArray(s) /\ Element(s)
      /\ s.last = R.last /\ s.parcel = R.parcel /\ s.seen = R.seen
      /\ s.whole = R.whole /\ s.dependIdx = R.dependIdx
      /\ s.dependIdx # All /\ LoopsOf(s.parcel, s.dependIdx) = {} /\ ~s.empty => s.put = {}
  BY <1>1, RecoveredLemma
<1>3. p \in Parcel
  <2>1. /\ R.parcel \in Parcel /\ TheArray = items[R.parcel][R.last]
        /\ items[R.parcel] \in Seq(Item) /\ R.last \in 1..Len(items[R.parcel])
    BY <1>1, ArrayLemma, ItemsLemma DEF TheArray, ReaderSet, Size
  <2>2. TheArray \in Item
    BY <2>1, ElementOfSeq
  <2> QED BY <1>1, <2>2 DEF Item
<1>4. Waiting(s)
  BY <1>1, <1>2, ArrayLemma DEF Waiting
<1> HIDE DEF s, p
<1>5. /\ TopOf(s).at \in Nat
  BY <1>2, FramesLemma, FrameKind DEF AtArray
<1>6. ASSUME TopOf(s).chosen \in 1..TopOf(s).size, TopOf(s).at \in 1..TopOf(s).chosen,
             s.isDependency <=> TopOf(s).at = TopOf(s).chosen
      PROVE  Chosen(s, TRUE)
  BY <1>6 DEF Chosen
<1>7. Independent(s)
  BY <1>2 DEF Independent, Element
<1>8. Copying(s, TRUE)
  BY <1>2, <1>6 DEF Copying, Element
<1>9. Solving(s, TRUE)
  <2>1. ASSUME s.dependIdx # All, LoopsOf(s.parcel, s.dependIdx) = {}, ~s.empty
        PROVE  Before(s) \/ AtDependency(s, TRUE)
    <3>1. s.frames # <<>> /\ s.put = {}
      BY <1>2, <2>1 DEF AtArray
    <3> QED BY <1>2, <1>6, <2>1, <3>1 DEF AtDependency, Element
  <2> QED BY <2>1 DEF Solving
<1> QED BY <1>1, <1>2, <1>3, <1>4, <1>7, <1>8, <1>9, NestLemma DEF Copied

LEMMA LeaveArrayStep ==
  ASSUME TraversalInv, LeaveArray
  PROVE  TraversalInv'
<1> DEFINE p == PopFrame(R)
<1>1. /\ readers # <<>> /\ InArray /\ UNCHANGED operation /\ F.at > F.size
      /\ SetR(Returned(p, 1))
  BY DEF LeaveArray
<1>2. /\ R \in ReaderSet /\ Placed(R) /\ AtArray(R) /\ Copied(R, FALSE)
      /\ R.frames # <<>> /\ F = TopOf(R)
      /\ F.at \in Nat /\ F.size \in Nat /\ F.chosen \in Nat /\ ~Behind(R, FALSE)
  BY <1>1, ArrayLemma
<1>3. p \in ReaderSet /\ Kept(p, R) /\ p.idx = R.idx /\ Placed(p) /\ AtPlace(p)
  BY <1>2, PopLemma, PlacedPop
<1>4. ~Chosen(R, FALSE)
  BY <1>1, <1>2 DEF Chosen
<1>5. Before(R) => Before(p)
  BY <1>2, BeforePop
<1> HIDE DEF p
<1>6. p.dependIdx = All /\ ~p.whole => ~p.isDependency /\ p.put = {}
  BY <1>2, <1>3 DEF Copied, Independent, Kept
<1>7. p.whole => p.dependIdx = All /\ p.empty
  BY <1>2, <1>3, <1>4 DEF Copied, Copying, Kept
<1>8. p.dependIdx # All /\ LoopsOf(p.parcel, p.dependIdx) = {} /\ ~p.empty => Before(p)
  BY <1>2, <1>3, <1>4, <1>5 DEF Copied, Solving, AtDependency, Kept
<1>9. Ended(p)
  BY <1>6, <1>7, <1>8 DEF Ended
<1> QED BY <1>1, <1>3, <1>9, EndedLemma, SetRLemma DEF Kept

-----------------------------------------------------------------------------
(* The return of a reader *)

\* The one that waited for it goes on.
LEMMA ReturnedTo ==
  ASSUME NEW q \in ReaderSet, Placed(q), Waiting(q), Copied(q, TRUE),
         NEW b \in BOOLEAN, b => q.isDependency
  PROVE  LET r == [q EXCEPT !.put = IF b THEN @ \cup {q.last} ELSE @]
             s == IF r.frames # <<>> /\ r.frames[Len(r.frames)].kind = "array"
                  THEN ElementDone(r) ELSE Returned(r, 1)
         IN /\ s \in ReaderSet /\ Placed(s) /\ Copied(s, FALSE)
            /\ s.whole = q.whole /\ s.dependIdx = q.dependIdx
<1> DEFINE r == [q EXCEPT !.put = IF b THEN @ \cup {q.last} ELSE @]
<1> DEFINE s == IF AtArray(r) THEN ElementDone(r) ELSE Returned(r, 1)
<1>1. SUFFICES /\ s \in ReaderSet /\ Placed(s) /\ Copied(s, FALSE)
               /\ s.whole = q.whole /\ s.dependIdx = q.dependIdx
  BY DEF AtArray, TopOf
<1>2. q.last \in q.seen /\ q.last \in Nat
  BY DEF Waiting, ReaderSet
<1>3. /\ r \in ReaderSet /\ r.parcel = q.parcel /\ r.dependIdx = q.dependIdx
      /\ r.whole = q.whole /\ r.idx = q.idx /\ r.frames = q.frames /\ r.last = q.last
      /\ r.isDependency = q.isDependency /\ r.empty = q.empty /\ r.seen = q.seen
      /\ r.put = IF b THEN q.put \cup {q.last} ELSE q.put
  BY <1>2 DEF ReaderSet
<1> HIDE DEF r
<1>4. Placed(r) /\ (AtPlace(r) <=> AtPlace(q)) /\ (AtArray(r) <=> AtArray(q))
  BY <1>2, <1>3, PlacedSame DEF Placed
<1>5. TopOf(r) = TopOf(q)
  BY <1>3 DEF TopOf
<1>6. Before(q) => Before(r)
  BY <1>3 DEF Before
<1>7. CASE AtArray(q)
  <2>0. TopOf(q) \in Frame /\ TopOf(q).chosen \in Nat
    BY <1>7, FramesLemma, FrameKind DEF AtArray
  <2>1. Chosen(q, TRUE) => /\ TopOf(q).chosen \in 1..TopOf(q).size
                           /\ TopOf(q).at \in 1..TopOf(q).chosen
                           /\ q.isDependency <=> TopOf(q).at = TopOf(q).chosen
    BY <2>0 DEF Chosen
  <2>2. r.dependIdx = All /\ ~r.whole => ~r.isDependency /\ r.put = {} /\ TopOf(q).chosen = 0
    BY <1>3, <1>7 DEF Copied, Independent
  <2>3. r.whole => r.dependIdx = All /\ (~r.empty => Chosen(q, TRUE)
                                           /\ r.seen \cap Plain(r.parcel) \subseteq r.put)
    BY <1>3, <1>7 DEF Copied, Copying
  <2>4. r.dependIdx # All /\ LoopsOf(r.parcel, r.dependIdx) = {} /\ ~r.empty =>
          \/ Before(r)
          \/ /\ r.idx = r.dependIdx /\ r.last = r.dependIdx /\ Len(r.frames) = 1
             /\ Chosen(q, TRUE) /\ r.seen \subseteq 1..r.dependIdx
             /\ r.put \subseteq (IF r.isDependency THEN {r.dependIdx} ELSE {})
    BY <1>3, <1>6, <1>7 DEF Copied, Solving, AtDependency, Behind, AtArray
  <2>5. Element(r)
    BY <1>3, <1>5, <2>1, <2>2, <2>3, <2>4 DEF Element
  <2>6. s = ElementDone(r)
    BY <1>4, <1>7
  <2> HIDE DEF s
  <2> QED BY <1>3, <1>4, <1>7, <2>5, <2>6, ElementLemma
<1>8. CASE ~AtArray(q)
  <2>1. r.dependIdx = All /\ ~r.whole => ~r.isDependency /\ r.put = {}
    BY <1>3 DEF Copied, Independent
  <2>2. r.whole => r.dependIdx = All /\ (~r.empty => r.isDependency
                                           /\ r.seen \cap Plain(r.parcel) \subseteq r.put)
    BY <1>3, <1>8 DEF Copied, Copying
  <2>3. r.dependIdx # All /\ LoopsOf(r.parcel, r.dependIdx) = {} /\ ~r.empty =>
          \/ Before(r)
          \/ /\ r.idx = r.dependIdx /\ r.frames = <<>> /\ r.isDependency
             /\ r.put \subseteq {r.dependIdx} /\ r.seen \subseteq 1..r.dependIdx
    BY <1>3, <1>6, <1>8 DEF Copied, Solving, AtDependency, Behind
  <2>4. Ended(r)
    BY <2>1, <2>2, <2>3 DEF Ended
  <2>5. AtPlace(r)
    BY <1>4, <1>8 DEF Waiting
  <2>6. s = Returned(r, 1)
    BY <1>4, <1>8
  <2> HIDE DEF s
  <2> QED BY <1>3, <1>4, <2>4, <2>5, <2>6, EndedLemma
<1> QED BY <1>7, <1>8

LEMMA ReturnStep ==
  ASSUME TraversalInv, Return
  PROVE  TraversalInv'
<1> DEFINE n == Len(readers) - 1
<1> DEFINE q == readers[n]
<1> DEFINE b == R.put # {}
<1> DEFINE r == [q EXCEPT !.put = IF b THEN @ \cup {q.last} ELSE @]
<1> DEFINE s == IF r.frames # <<>> /\ r.frames[Len(r.frames)].kind = "array"
                THEN ElementDone(r) ELSE Returned(r, 1)
<1>1. /\ readers # <<>> /\ InStart /\ UNCHANGED operation
      /\ readers' = IF n = 0 THEN <<>> ELSE Append(SubSeq(readers, 1, n - 1), s)
  BY DEF Return
<1>2. /\ readers \in Seq(ReaderSet) /\ Len(readers) \in Nat /\ Len(readers) >= 1
      /\ R \in ReaderSet /\ Copied(R, FALSE) /\ R = readers[Len(readers)]
  BY <1>1, RLemma
<1>3. CASE n = 0
  <2>1. readers' = <<>> /\ Len(readers') = 0
    BY <1>1, <1>3
  <2>2. \A i \in 1..0 : FALSE
    OBVIOUS
  <2>3. \A i \in 1..(0 - 1) : FALSE
    OBVIOUS
  <2>4. <<>> \in Seq(ReaderSet)
    OBVIOUS
  <2> QED BY <1>1, <2>1, <2>2, <2>3, <2>4 DEF TraversalInv, Structure, Handed
<1>4. CASE n # 0
  <2> DEFINE m == n - 1
  <2>1. n \in Nat /\ n >= 1 /\ n + 1 = Len(readers) /\ m \in Nat /\ m + 1 = n
        /\ n \in 1..Len(readers) /\ n \in 1..(Len(readers) - 1) /\ m < Len(readers)
    <3>1. \A k \in Nat : k >= 1 /\ k - 1 # 0 =>
            /\ k - 1 \in Nat /\ k - 1 >= 1 /\ (k - 1) + 1 = k
            /\ (k - 1) - 1 \in Nat /\ ((k - 1) - 1) + 1 = k - 1
            /\ k - 1 \in 1..k /\ k - 1 \in 1..(k - 1) /\ (k - 1) - 1 < k
      OBVIOUS
    <3> QED BY <1>2, <1>4, <3>1
  <2>2. readers' = Append(SubSeq(readers, 1, m), s)
    BY <1>1, <1>4
  <2> HIDE DEF n, s, q, r, b
  <2>3. /\ q \in ReaderSet /\ Placed(q) /\ Waiting(q) /\ Copied(q, TRUE)
        /\ R.whole = q.isDependency /\ R.dependIdx = All
    <3>1. q \in ReaderSet
      BY <1>2, <2>1, ElementOfSeq DEF q
    <3>2. Placed(q) /\ Waiting(q) /\ Copied(q, TRUE)
      BY <2>1 DEF TraversalInv, Structure, q
    <3>3. R.whole = q.isDependency /\ R.dependIdx = All
      BY <1>2, <2>1 DEF TraversalInv, Handed, q
    <3> QED BY <3>1, <3>2, <3>3
  <2>4. b \in BOOLEAN /\ (b => q.isDependency)
    <3>1. R.put # {} => R.whole
      BY <1>2, <2>3 DEF Copied, Independent
    <3> QED BY <2>3, <3>1 DEF b
  <2>5. /\ s \in ReaderSet /\ Placed(s) /\ Copied(s, FALSE)
        /\ s.whole = q.whole /\ s.dependIdx = q.dependIdx
    BY <2>3, <2>4, ReturnedTo DEF s, r
  <2> DEFINE cut == SubSeq(readers, 1, m)
  <2>6. cut \in Seq(ReaderSet) /\ Len(cut) = m /\ \A i \in 1..m : cut[i] = readers[i]
    <3>1. \A i \in 1..m : readers[i] \in ReaderSet
      BY <1>2, <2>1, ElementOfSeq
    <3> HIDE DEF m
    <3> QED BY <1>2, <2>1, <3>1, SubSeqProperties
  <2> HIDE DEF m, cut
  <2>7. /\ readers' \in Seq(ReaderSet) /\ Len(readers') = m + 1
        /\ \A i \in 1..m : readers'[i] = readers[i]
        /\ readers'[m + 1] = s
    BY <2>1, <2>2, <2>5, <2>6, AppendProperties DEF cut
  <2>8. q = readers[m + 1]
    BY <2>1 DEF q
  <2> QED BY <1>1, <2>1, <2>5, <2>7, <2>8, StackLemma
<1> QED BY <1>3, <1>4

-----------------------------------------------------------------------------
(* The invariant *)

LEMMA InitLemma ==
  ASSUME Init
  PROVE  TraversalInv
<1>1. PICK p \in Message :
        \/ operation = "write" /\ readers = <<Reader(p, All, FALSE)>>
        \/ /\ operation = "read"
           /\ \E dependIdx \in DOMAIN items[p] : readers = <<Reader(p, dependIdx, FALSE)>>
  BY DEF Init
<1>2. p \in Parcel /\ DOMAIN items[p] = 1..Len(items[p]) /\ Len(items[p]) \in Nat
  BY ParcelAssumption, ItemsLemma
<1>3. PICK d \in Nat : readers = <<Reader(p, d, FALSE)>>
  <2>1. All \in Nat /\ \A d \in 1..Len(items[p]) : d \in Nat
    BY DEF All
  <2> QED BY <1>1, <1>2, <2>1
<1> DEFINE r == Reader(p, d, FALSE)
<1>4. /\ r \in ReaderSet /\ r.parcel = p /\ r.idx = 1 /\ r.dependIdx = d
      /\ r.isDependency = FALSE /\ r.frames = <<>> /\ r.whole = FALSE
      /\ r.seen = {} /\ r.put = {}
  BY <1>2 DEF Reader, ReaderSet
<1>5. operation \in {"write", "read"} /\ readers = <<r>>
  BY <1>1, <1>3
<1> HIDE DEF r
<1>6. Len(r.frames) = 0 /\ ~AtArray(r)
  BY <1>4 DEF AtArray
<1>7. Placed(r)
  BY <1>2, <1>4, <1>6 DEF Placed, Size
<1>8. Independent(r) /\ Copying(r, FALSE)
  BY <1>4, <1>6 DEF Independent, Copying
<1>9. Solving(r, FALSE)
  <2>1. CASE d > 1
    <3>1. \A k \in 1..Len(r.frames) : FALSE
      BY <1>6
    <3>2. Before(r)
      BY <1>4, <2>1, <3>1 DEF Before
    <3> QED BY <3>2 DEF Solving
  <2>2. CASE d = 1
    BY <1>4, <2>2 DEF Solving, AtDependency
  <2>3. CASE d = 0
    BY <1>4, <2>3 DEF Solving, All
  <2>4. d > 1 \/ d = 1 \/ d = 0
    OBVIOUS
  <2> QED BY <2>1, <2>2, <2>3, <2>4
<1>10. readers \in Seq(ReaderSet) /\ Len(readers) = 1 /\ readers[1] = r
  BY <1>4, <1>5
<1>11. \A i \in 1..(Len(readers) - 1) : FALSE
  BY <1>10
<1>12. \A i \in 1..Len(readers) : i = 1
  BY <1>10
<1>13. R = r
  BY <1>10 DEF R
<1> QED BY <1>5, <1>7, <1>8, <1>9, <1>10, <1>11, <1>12, <1>13
        DEF TraversalInv, Structure, Handed, Copied

LEMMA StepLemma ==
  ASSUME TraversalInv, [Next]_vars
  PROVE  TraversalInv'
<1>1. CASE EnterLoop     BY <1>1, EnterLoopStep
<1>2. CASE Iterate       BY <1>2, IterateStep
<1>3. CASE LeaveLoop     BY <1>3, LeaveLoopStep
<1>4. CASE NextIteration BY <1>4, NextIterationStep
<1>5. CASE SkipItem      BY <1>5, SkipItemStep
<1>6. CASE PlainItem     BY <1>6, PlainItemStep
<1>7. CASE StructItem    BY <1>7, StructItemStep
<1>8. CASE ArrayItem     BY <1>8, ArrayItemStep
<1>9. CASE SkipElement   BY <1>9, SkipElementStep
<1>10. CASE PlainElement BY <1>10, PlainElementStep
<1>11. CASE StructElement BY <1>11, StructElementStep
<1>12. CASE LeaveArray   BY <1>12, LeaveArrayStep
<1>13. CASE Return       BY <1>13, ReturnStep
<1>14. CASE UNCHANGED vars
  BY <1>14 DEF vars, TraversalInv, Structure, Handed, R
<1> QED
  BY <1>1, <1>2, <1>3, <1>4, <1>5, <1>6, <1>7, <1>8, <1>9, <1>10, <1>11, <1>12, <1>13,
     <1>14 DEF Next

\* Every reader is in its parcel, waits at the item that the one it has created
\* is for, and has copied what belongs to the place it is at.
THEOREM ReadersPlaced == Spec => []TraversalInv
<1>1. Init => TraversalInv
  BY InitLemma
<1>2. TraversalInv /\ [Next]_vars => TraversalInv'
  BY StepLemma
<1> QED BY <1>1, <1>2, PTL DEF Spec

\* What each reader has copied, whether it is the innermost or waits.
LEMMA ReaderLemma ==
  ASSUME TraversalInv, NEW i \in DOMAIN readers
  PROVE  /\ readers[i] \in ReaderSet /\ Placed(readers[i])
         /\ Copied(readers[i], TRUE) \/ Copied(readers[i], FALSE)
<1>1. readers \in Seq(ReaderSet) /\ Len(readers) \in Nat /\ i \in 1..Len(readers)
  BY LenProperties DEF TraversalInv, Structure
<1>2. readers[i] \in ReaderSet /\ Placed(readers[i])
  BY <1>1, ElementOfSeq DEF TraversalInv, Structure
<1>3. CASE i \in 1..(Len(readers) - 1)
  BY <1>2, <1>3 DEF TraversalInv
<1>4. CASE i = Len(readers)
  <2>1. readers # <<>>
    BY <1>1, EmptySeq
  <2> QED BY <1>2, <1>4, <2>1 DEF TraversalInv, R
<1>5. i \in 1..(Len(readers) - 1) \/ i = Len(readers)
  BY <1>1
<1> QED BY <1>3, <1>4, <1>5

\* Readers, their loops and their arrays stay in their parcels: no item is read
\* or written that is not there, and idx ends right behind the last one.
THEOREM TypeCorrect == Spec => []TypeOK
<1>1. TraversalInv => TypeOK
  <2> SUFFICES ASSUME TraversalInv, NEW i \in DOMAIN readers
               PROVE  operation \in {"write", "read"} /\ ReaderOK(readers[i])
    BY DEF TypeOK, TraversalInv, Structure
  <2> DEFINE r == readers[i]
  <2>1. r \in ReaderSet /\ Placed(r)
    BY ReaderLemma
  <2>2. operation \in {"write", "read"}
    BY DEF TraversalInv, Structure
  <2> HIDE DEF r
  <2>3. r.parcel \in Parcel /\ DOMAIN items[r.parcel] = 1..Size(r)
    BY <2>1, ItemsLemma DEF ReaderSet, Size
  <2>4. ReaderOK(r)
    BY <2>1, <2>3 DEF ReaderOK, ReaderSet, Placed, Size, Frame
  <2> QED BY <2>2, <2>4 DEF r
<1> QED BY <1>1, ReadersPlaced, PTL

\* When a dependency is solved, through arrays and nested structures, only the
\* item that is depended on is copied, and nothing behind it is read.
THEOREM OnlyDependencyCopied == Spec => []DependencyExact
<1>1. TraversalInv => DependencyExact
  <2> SUFFICES ASSUME TraversalInv, NEW r \in ReaderSet, \E waits \in BOOLEAN : Copied(r, waits),
                      r.dependIdx # All, LoopsOf(r.parcel, r.dependIdx) = {}, ~r.empty
               PROVE  OnlyDependency(r)
    BY ReaderLemma DEF DependencyExact
  <2>1. PICK waits \in BOOLEAN : Before(r) \/ AtDependency(r, waits) \/ Behind(r, waits)
    BY DEF Copied, Solving
  <2>2. CASE Before(r)
    <3>1. r.dependIdx \in Nat
      BY DEF ReaderSet
    <3> QED BY <2>2, <3>1 DEF Before, OnlyDependency
  <2>3. CASE AtDependency(r, waits)
    BY <2>3 DEF AtDependency, OnlyDependency
  <2>4. CASE Behind(r, waits)
    BY <2>4 DEF Behind, OnlyDependency
  <2> QED BY <2>1, <2>2, <2>3, <2>4
<1> QED BY <1>1, ReadersPlaced, PTL

\* A structure that is the dependency is copied with all the values read so far,
\* also those behind an array in it.
THEOREM StructureIsCopied == Spec => []StructureCopied
<1>1. TraversalInv => StructureCopied
  <2> SUFFICES ASSUME TraversalInv, NEW r \in ReaderSet, \E waits \in BOOLEAN : Copied(r, waits),
                      r.whole, ~r.empty
               PROVE  r.seen \cap Plain(r.parcel) \subseteq r.put
    BY ReaderLemma DEF StructureCopied
  <2> QED BY DEF Copied, Copying
<1> QED BY <1>1, ReadersPlaced, PTL

-----------------------------------------------------------------------------
(***************************************************************************)
(* The order in which ParcelTraversal gets to the items, for all parcels   *)
(* whose inner loops have one item each (SimpleNests).                     *)
(*                                                                         *)
(* A range in a reader is then a whole loop: the outermost one all items   *)
(* of its loop, those inside it a single item.  What is known of a reader  *)
(* is which items it has passed over since the last one it dealt with      *)
(* (Recent): those in loops that were not entered.                         *)
(***************************************************************************)

IsRange(r, k) == k \in 1..Len(r.frames) /\ r.frames[k].kind = "range"

\* The outermost loop that the reader is in, and where the reader is.
InLoops(r) == IsRange(r, 1)
Outer(r) == r.frames[1]
Where(r) == IF InLoops(r) THEN Outer(r).at ELSE r.idx

\* loopVisit has the loops of the ranges; no loop is entered twice.
Visits(r) ==
  /\ \A k \in 1..Len(r.frames) : IsRange(r, k) => r.frames[k].loop \in r.loopVisit
  /\ \A l \in r.loopVisit : \E k \in 1..Len(r.frames) : IsRange(r, k) /\ r.frames[k].loop = l
  /\ \A k, m \in 1..Len(r.frames) :
       IsRange(r, k) /\ IsRange(r, m) /\ r.frames[k].loop = r.frames[m].loop => k = m

Nested1(r) ==
  InLoops(r) =>
    LET f == Outer(r) IN
    /\ InLoop(r.parcel, f.loop) = f.begin..(f.end - 1)
    /\ \A j \in f.begin..(f.end - 1) : items[r.parcel][j].loops[1] = f.loop

Nested2(r) ==
  \A k \in 2..Len(r.frames) :
    IsRange(r, k) =>
      /\ r.frames[k].begin = Outer(r).at /\ r.frames[k].end = Outer(r).at + 1
      /\ InLoop(r.parcel, r.frames[k].loop) = {Outer(r).at}

\* No loop goes on across the place in front of item i.
Boundary(p, i) == \A l \in Loop : ~({i - 1, i} \subseteq InLoop(p, l))

\* The item has a loop of its own, inside the others.
Alone(p, k) == \E l \in LoopsOf(p, k) : InLoop(p, l) = {k}

\* What is between the last item and the iteration of the outermost loop.
Round(r) ==
  LET f == Outer(r) IN
  \/ r.last < f.begin /\ PassedOver(r.parcel, (r.last + 1)..(f.begin - 1), r.last)
  \/ /\ r.last \in f.begin..(f.end - 1)
     /\ \A k \in (r.last + 1)..(f.end - 1) : Alone(r.parcel, k)

\* ... and the place in this iteration: it is dealing with the last item, or
\* has dealt with it in this iteration, or has not dealt with one yet.
InRound(r, waits) ==
  LET f == Outer(r) IN
  \/ r.last = f.at /\ (waits \/ Len(r.frames) >= 2)
  \/ r.last \in f.begin..(f.at - 1) /\ \A k \in (r.last + 1)..(f.at - 1) : Alone(r.parcel, k)
  \/ (\A k \in f.begin..(f.at - 1) : Alone(r.parcel, k)) /\ Round(r)

Recent(r, waits) ==
  IF InLoops(r) THEN IF Outer(r).at = Check THEN Round(r) ELSE InRound(r, waits)
  ELSE waits \/ AtArray(r) \/
         (r.last < r.idx /\ PassedOver(r.parcel, (r.last + 1)..(r.idx - 1), r.last))

\* It is dealing with an item, in an array or with a structure.
Dealing(r) ==
  /\ r.last = Where(r)
  /\ ~InLoops(r) => LoopsOf(r.parcel, r.idx) = {}

Ordered(r, waits) ==
  SimpleNests(r.parcel) =>
    /\ Visits(r) /\ Nested1(r) /\ Nested2(r) /\ Boundary(r.parcel, r.idx)
    /\ waits \/ AtArray(r) => Dealing(r)
    /\ Recent(r, waits)

OrderInv ==
  /\ TraversalInv
  /\ \A i \in 1..(Len(readers) - 1) : Ordered(readers[i], TRUE)
  /\ readers # <<>> => Ordered(R, FALSE)

-----------------------------------------------------------------------------
(* Loops *)

LEMMA LoopsLemma ==
  ASSUME NEW p \in Parcel, NEW i \in 1..Len(items[p])
  PROVE  /\ items[p][i].loops \in Seq(Loop)
         /\ DOMAIN items[p][i].loops = 1..Len(items[p][i].loops)
         /\ LoopsOf(p, i) \subseteq Loop
         /\ \A l : i \in InLoop(p, l) <=> l \in LoopsOf(p, i)
<1>1. i \in DOMAIN items[p] /\ items[p][i] \in Item
  BY ItemsLemma, ElementOfSeq
<1> DEFINE loops == items[p][i].loops
<1>2. loops \in Seq(Loop)
  BY <1>1 DEF Item
<1>3. DOMAIN loops = 1..Len(loops) /\ \A k \in DOMAIN loops : loops[k] \in Loop
  BY <1>2, LenProperties, ElementOfSeq
<1> QED BY <1>1, <1>2, <1>3 DEF LoopsOf, InLoop

\* A loop of the item is its outermost one, or has this item only.
LEMMA OuterOrAlone ==
  ASSUME NEW p \in Parcel, SimpleNests(p), NEW i \in 1..Len(items[p]), NEW l \in LoopsOf(p, i)
  PROVE  l = items[p][i].loops[1] \/ InLoop(p, l) = {i}
<1> DEFINE loops == items[p][i].loops
<1>1. DOMAIN loops = 1..Len(loops) /\ loops \in Seq(Loop) /\ i \in DOMAIN items[p]
  BY LoopsLemma, ItemsLemma
<1>2. PICK k \in DOMAIN loops : loops[k] = l
  BY DEF LoopsOf
<1>3. Len(loops) \in Nat
  BY <1>1, LenProperties
<1>4. k = 1 \/ k \in 2..Len(loops)
  BY <1>1, <1>2, <1>3
<1> QED BY <1>1, <1>2, <1>4 DEF SimpleNests

\* An item between two of a loop is in it.
LEMMA Adjacent ==
  ASSUME NEW p \in Parcel, NEW l \in Loop, NEW i \in InLoop(p, l), NEW j \in InLoop(p, l)
  PROVE  i..j \subseteq InLoop(p, l) /\ InLoop(p, l) \subseteq 1..Len(items[p])
BY LoopAssumption, ItemsLemma DEF InLoop

\* A loop that is in front of a place and behind it crosses it.
LEMMA NoLoopAcross ==
  ASSUME NEW p \in Parcel, NEW n \in Nat, Boundary(p, n), NEW l \in Loop,
         NEW i \in InLoop(p, l), NEW j \in InLoop(p, l), i < n
  PROVE  j < n
<1> SUFFICES ASSUME n <= j PROVE FALSE
  <2>1. j \in Nat
    BY Adjacent, ItemsLemma
  <2> QED BY <2>1
<1>1. i \in Nat /\ j \in Nat
  BY Adjacent, ItemsLemma
<1>2. {n - 1, n} \subseteq i..j
  BY <1>1
<1> QED BY <1>2, Adjacent DEF Boundary

\* What has been passed over is in a loop, and out of an item behind the place.
LEMMA PassedBehind ==
  ASSUME NEW p \in Parcel, NEW n \in Nat, Boundary(p, n), NEW m \in Nat,
         PassedOver(p, (m + 1)..(n - 1), m), n - 1 <= Len(items[p]),
         NEW j \in Nat, n <= j
  PROVE  PassedOver(p, (m + 1)..(n - 1), j)
<1> SUFFICES ASSUME NEW k \in (m + 1)..(n - 1)
             PROVE  \E l \in LoopsOf(p, k) : j \notin InLoop(p, l)
  BY DEF PassedOver
<1>1. PICK l \in LoopsOf(p, k) : m \notin InLoop(p, l)
  BY DEF PassedOver
<1>2. k \in 1..Len(items[p]) /\ k < n
  BY ItemsLemma
<1>3. l \in Loop /\ k \in InLoop(p, l)
  BY <1>1, <1>2, LoopsLemma
<1>4. j \in InLoop(p, l) => j < n
  BY <1>2, <1>3, NoLoopAcross
<1> QED BY <1>1, <1>4

-----------------------------------------------------------------------------
(* Readers with the same frames *)

LEMMA OrderedSame ==
  ASSUME NEW r, NEW s, NEW waits, Ordered(r, waits),
         s.parcel = r.parcel, s.idx = r.idx, s.frames = r.frames,
         s.loopVisit = r.loopVisit, s.last = r.last
  PROVE  Ordered(s, waits)
BY DEF Ordered, Visits, Nested1, Nested2, Dealing, Recent, Round, InRound, Where, InLoops,
       Outer, IsRange, AtArray, TopOf

\* What is known of the reader's loops, apart from where in them it is.
Loops(r) == Visits(r) /\ Nested1(r) /\ Nested2(r)

\* The frames of s are frames of r.
SameFrames(s, r) ==
  /\ s.parcel = r.parcel /\ Len(s.frames) <= Len(r.frames)
  /\ \A k \in 1..Len(s.frames) :
       /\ s.frames[k].kind = r.frames[k].kind
       /\ s.frames[k].kind = "range" =>
            /\ s.frames[k].begin = r.frames[k].begin /\ s.frames[k].end = r.frames[k].end
            /\ s.frames[k].loop = r.frames[k].loop
  /\ Len(s.frames) >= 2 => Outer(s).at = Outer(r).at

LEMMA NestedSame ==
  ASSUME NEW r \in ReaderSet, NEW s \in ReaderSet, SameFrames(s, r), Nested1(r), Nested2(r)
  PROVE  Nested1(s) /\ Nested2(s) /\ (\A k \in 1..Len(s.frames) : IsRange(s, k) <=> IsRange(r, k))
<1>1. Len(s.frames) \in Nat /\ Len(r.frames) \in Nat
  BY FramesLemma
<1>2. \A k \in 1..Len(s.frames) : k \in 1..Len(r.frames)
  BY <1>1 DEF SameFrames
<1>3. \A k \in 1..Len(s.frames) : IsRange(s, k) <=> IsRange(r, k)
  BY <1>2 DEF SameFrames, IsRange
<1>4. Nested1(s)
  <2> SUFFICES ASSUME InLoops(s)
               PROVE  LET f == Outer(s) IN
                      /\ InLoop(s.parcel, f.loop) = f.begin..(f.end - 1)
                      /\ \A j \in f.begin..(f.end - 1) : items[s.parcel][j].loops[1] = f.loop
    BY DEF Nested1
  <2>1. /\ InLoops(r) /\ Outer(s).begin = Outer(r).begin /\ Outer(s).end = Outer(r).end
        /\ Outer(s).loop = Outer(r).loop /\ s.parcel = r.parcel
    BY <1>3 DEF InLoops, IsRange, SameFrames, Outer
  <2> QED BY <2>1 DEF Nested1
<1>5. Nested2(s)
  <2> SUFFICES ASSUME NEW k \in 2..Len(s.frames), IsRange(s, k)
               PROVE  /\ s.frames[k].begin = Outer(s).at /\ s.frames[k].end = Outer(s).at + 1
                      /\ InLoop(s.parcel, s.frames[k].loop) = {Outer(s).at}
    BY DEF Nested2
  <2>1. /\ k \in 1..Len(s.frames) /\ k \in 2..Len(r.frames) /\ Len(s.frames) >= 2
    BY <1>1, <1>2
  <2>2. Outer(s).at = Outer(r).at /\ s.parcel = r.parcel
    BY <2>1 DEF SameFrames
  <2>3. /\ IsRange(r, k) /\ s.frames[k].begin = r.frames[k].begin
        /\ s.frames[k].end = r.frames[k].end /\ s.frames[k].loop = r.frames[k].loop
    BY <1>3, <2>1 DEF SameFrames, IsRange
  <2> QED BY <2>1, <2>2, <2>3 DEF Nested2
<1> QED BY <1>3, <1>4, <1>5

\* The loops stay as they are while the reader stays in them.
LEMMA LoopsSame ==
  ASSUME NEW r \in ReaderSet, NEW s \in ReaderSet, SameFrames(s, r), Loops(r),
         Len(s.frames) = Len(r.frames), s.loopVisit = r.loopVisit
  PROVE  Loops(s) /\ (\A k \in 1..Len(s.frames) : IsRange(s, k) <=> IsRange(r, k))
<1>1. /\ Nested1(s) /\ Nested2(s)
      /\ \A k \in 1..Len(s.frames) : IsRange(s, k) <=> IsRange(r, k)
  BY NestedSame DEF Loops
<1>2. \A k \in 1..Len(s.frames) : IsRange(r, k) => s.frames[k].loop = r.frames[k].loop
  BY <1>1 DEF SameFrames, IsRange
<1>3. Visits(s)
  BY <1>1, <1>2 DEF Loops, Visits
<1> QED BY <1>1, <1>3 DEF Loops

LEMMA OneOrMore ==
  ASSUME NEW n \in Nat, n >= 1
  PROVE  (n = 1 \/ n >= 2) /\ (n # 1 => n >= 2 /\ 1 \in 1..(n - 1)) /\ 1 \in 1..n
OBVIOUS

\* Where a reader can be.
LEMMA PlaceLemma ==
  ASSUME NEW r \in ReaderSet, Placed(r)
  PROVE  /\ Len(r.frames) \in Nat /\ r.last \in Nat /\ r.idx \in Nat /\ r.idx >= 1
         /\ r.parcel \in Parcel /\ Size(r) \in Nat /\ r.idx <= Size(r) + 1
         /\ r.frames = <<>> <=> Len(r.frames) = 0
         /\ r.frames = <<>> => ~InLoops(r)
         /\ InLoops(r) =>
              /\ Outer(r) \in Frame /\ Outer(r).begin \in Nat /\ Outer(r).end \in Nat
              /\ Outer(r).at \in Nat /\ Outer(r).loop \in Loop
              /\ Outer(r).begin = r.idx /\ Outer(r).begin < Outer(r).end
              /\ Outer(r).end <= Size(r) + 1
              /\ Outer(r).at = Check \/ Outer(r).at \in Outer(r).begin..Outer(r).end
         /\ Len(r.frames) >= 2 =>
              InLoops(r) /\ Outer(r).at \in Outer(r).begin..(Outer(r).end - 1)
         /\ AtPlace(r) /\ r.frames # <<>> =>
              InLoops(r) /\ Outer(r).at \in Outer(r).begin..(Outer(r).end - 1)
         /\ ~InLoops(r) /\ r.frames # <<>> => Len(r.frames) = 1 /\ AtArray(r)
         /\ Check = 0
<1>1. /\ Len(r.frames) \in Nat /\ (r.frames # <<>> <=> Len(r.frames) >= 1)
      /\ r.frames \in Seq(Frame)
  BY FramesLemma
<1>2. /\ r.last \in Nat /\ r.idx \in Nat /\ r.parcel \in Parcel /\ r.idx \in 1..(Size(r) + 1)
  BY DEF ReaderSet, Placed
<1>3. Size(r) \in Nat
  BY <1>2, ItemsLemma DEF Size
<1>4. InLoops(r) => /\ r.frames # <<>> /\ Outer(r) = r.frames[1] /\ Outer(r).kind = "range"
                    /\ Outer(r) \in Frame /\ 1 \in 1..Len(r.frames)
  BY <1>1, ElementOfSeq DEF InLoops, IsRange, Outer
<1>5. InLoops(r) =>
        /\ Outer(r).begin \in Nat /\ Outer(r).end \in Nat /\ Outer(r).at \in Nat
        /\ Outer(r).loop \in Loop /\ Outer(r).begin = r.idx
        /\ RangeOK(r.parcel, Outer(r))
  BY <1>4, FrameKind DEF Placed, FrameOK
<1>6. Len(r.frames) >= 2 => InLoops(r) /\ Outer(r).at \in Outer(r).begin..(Outer(r).end - 1)
  <2>1. Len(r.frames) >= 2 => 1 \in 1..(Len(r.frames) - 1) /\ 1 \in 1..Len(r.frames)
    BY <1>1
  <2> QED BY <2>1 DEF Placed, Within, InLoops, IsRange, Outer
<1>7. AtPlace(r) /\ r.frames # <<>> =>
        InLoops(r) /\ Outer(r).at \in Outer(r).begin..(Outer(r).end - 1)
  <2>1. CASE Len(r.frames) = 1
    BY <1>1, <2>1 DEF AtPlace, Within, TopOf, InLoops, IsRange, Outer
  <2> QED BY <1>1, <1>6, <2>1, OneOrMore
<1>8. ~InLoops(r) /\ r.frames # <<>> => Len(r.frames) = 1 /\ AtArray(r)
  <2>1. ~InLoops(r) /\ r.frames # <<>> => Len(r.frames) = 1
    BY <1>1, <1>6, OneOrMore
  <2>2. Len(r.frames) = 1 => TopOf(r) = r.frames[1] /\ r.frames[1] \in Frame
    BY <1>1, ElementOfSeq DEF TopOf
  <2>3. Len(r.frames) = 1 /\ ~InLoops(r) => r.frames[1].kind # "range"
    BY DEF InLoops, IsRange
  <2> QED BY <2>1, <2>2, <2>3, FrameKind DEF AtArray
<1>9. r.idx >= 1 /\ r.idx <= Size(r) + 1
  BY <1>2, <1>3
<1>10. r.frames = <<>> <=> Len(r.frames) = 0
  BY <1>1
<1>11. InLoops(r) => Outer(r).begin < Outer(r).end /\ Outer(r).end <= Size(r) + 1
                     /\ (Outer(r).at = Check \/ Outer(r).at \in Outer(r).begin..Outer(r).end)
  BY <1>5 DEF RangeOK, Size
<1> QED
  BY <1>1, <1>2, <1>3, <1>4, <1>5, <1>6, <1>7, <1>8, <1>9, <1>10, <1>11 DEF Check

-----------------------------------------------------------------------------
(* An item is left, or an array *)

LEMMA ReturnedOrdered ==
  ASSUME NEW r \in ReaderSet, Placed(r), AtPlace(r), Ordered(r, TRUE)
  PROVE  Ordered(Returned(r, 1), FALSE)
<1> DEFINE s == Returned(r, 1)
<1>1. /\ s \in ReaderSet /\ Kept(s, r) /\ s.loopVisit = r.loopVisit /\ ~AtArray(s)
      /\ r.frames = <<>> => s.frames = <<>> /\ s.idx = r.idx + 1
      /\ r.frames # <<>> => s = SetFrame(r, Stepped(r)) /\ s.idx = r.idx
  BY ReturnedLemma
<1> HIDE DEF s
<1>2. r.frames # <<>> =>
        /\ Len(s.frames) = Len(r.frames)
        /\ \A k \in 1..(Len(r.frames) - 1) : s.frames[k] = r.frames[k]
        /\ s.frames[Len(r.frames)] = Stepped(r)
  <2> DEFINE g == Stepped(r)
  <2>1. r.frames # <<>> => g \in Frame
    BY SteppedLemma
  <2> HIDE DEF g
  <2>2. r.frames # <<>> => s = SetFrame(r, g)
    BY <1>1 DEF g
  <2>3. r.frames # <<>> =>
          /\ Len(s.frames) = Len(r.frames)
          /\ \A k \in 1..(Len(r.frames) - 1) : s.frames[k] = r.frames[k]
          /\ s.frames[Len(r.frames)] = g
    BY <2>1, <2>2, SetFrameLemma
  <2> QED BY <2>3 DEF g
<1> SUFFICES ASSUME SimpleNests(s.parcel)
             PROVE  Loops(s) /\ Boundary(s.parcel, s.idx) /\ Recent(s, FALSE)
  BY <1>1 DEF Ordered, Loops, s
<1>3. s.parcel = r.parcel /\ s.last = r.last
  BY <1>1 DEF Kept
<1>4. Loops(r) /\ Boundary(r.parcel, r.idx) /\ Dealing(r)
  BY <1>3 DEF Ordered, Loops
<1>5. CASE r.frames = <<>>
  <2>1. Len(r.frames) = 0 /\ Len(s.frames) = 0 /\ ~InLoops(r) /\ ~InLoops(s)
    BY <1>1, <1>5 DEF InLoops, IsRange
  <2>2. Loops(s)
    <3>1. SameFrames(s, r)
      BY <1>3, <2>1 DEF SameFrames
    <3> QED BY <1>1, <1>4, <2>1, <3>1, LoopsSame
  <2>3. r.last = r.idx /\ LoopsOf(r.parcel, r.idx) = {}
    BY <1>4, <2>1 DEF Dealing, Where
  <2>4. r.idx \in Nat /\ s.idx = r.idx + 1 /\ s.idx - 1 = r.idx
    BY <1>1, <1>5, PlaceLemma
  <2>5. Boundary(s.parcel, s.idx)
    BY <1>3, <2>3, <2>4 DEF Boundary, InLoop
  <2>6. Recent(s, FALSE)
    <3>1. s.last < s.idx /\ \A k \in (s.last + 1)..(s.idx - 1) : FALSE
      BY <1>3, <2>3, <2>4
    <3> QED BY <2>1, <3>1 DEF Recent, PassedOver
  <2> QED BY <2>2, <2>5, <2>6
<1>6. CASE r.frames # <<>>
  <2>1. /\ Len(r.frames) \in Nat /\ Len(r.frames) >= 1 /\ TopOf(r) = r.frames[Len(r.frames)]
        /\ TopOf(r).kind = "range"
    BY <1>6, FramesLemma DEF AtPlace, Within
  <2>2. /\ Stepped(r).kind = "range" /\ Stepped(r).at = TopOf(r).at + 1
        /\ Stepped(r).begin = TopOf(r).begin /\ Stepped(r).end = TopOf(r).end
        /\ Stepped(r).loop = TopOf(r).loop
    BY <1>6, <2>1, SteppedLemma
  <2>3. SameFrames(s, r)
    <3>1. \A k \in 1..Len(s.frames) : k \in 1..(Len(r.frames) - 1) \/ k = Len(r.frames)
      BY <1>2, <1>6, <2>1
    <3>2. \A k \in 1..Len(s.frames) :
            /\ s.frames[k].kind = r.frames[k].kind
            /\ s.frames[k].kind = "range" =>
                 /\ s.frames[k].begin = r.frames[k].begin /\ s.frames[k].end = r.frames[k].end
                 /\ s.frames[k].loop = r.frames[k].loop
      BY <1>2, <1>6, <2>1, <2>2, <3>1
    <3>3. Len(s.frames) >= 2 => Outer(s).at = Outer(r).at
      BY <1>2, <1>6, <2>1 DEF Outer
    <3>4. Len(s.frames) <= Len(r.frames)
      BY <1>2, <1>6, <2>1
    <3> QED BY <1>3, <3>2, <3>3, <3>4 DEF SameFrames
  <2>4. Loops(s) /\ (\A k \in 1..Len(s.frames) : IsRange(s, k) <=> IsRange(r, k))
    BY <1>1, <1>2, <1>4, <1>6, <2>3, LoopsSame
  <2>5. Boundary(s.parcel, s.idx)
    BY <1>1, <1>3, <1>4, <1>6
  <2>6. /\ InLoops(r) /\ Outer(r).at \in Outer(r).begin..(Outer(r).end - 1)
        /\ Outer(r).begin \in Nat /\ Outer(r).end \in Nat /\ Outer(r).begin >= 1
    BY <1>6, PlaceLemma
  <2>7. r.last = Outer(r).at
    BY <1>4, <2>6 DEF Dealing, Where
  <2>8. InLoops(s) /\ Outer(s).begin = Outer(r).begin
    <3>1. 1 \in 1..Len(s.frames)
      BY <1>2, <1>6, <2>1
    <3> QED BY <2>3, <2>4, <2>6, <3>1 DEF InLoops, SameFrames, Outer, IsRange
  <2>9. CASE Len(r.frames) = 1
    <3>1. Outer(s).at = Outer(r).at + 1
      BY <1>2, <1>6, <2>1, <2>2, <2>9 DEF Outer
    <3> DEFINE a == Outer(r).at
    <3>2. a \in Nat /\ a + 1 # 0 /\ a \in Outer(r).begin..((a + 1) - 1)
          /\ \A k \in (a + 1)..((a + 1) - 1) : FALSE
      BY <2>6
    <3> HIDE DEF a
    <3>3. Outer(s).at # Check /\ s.last \in Outer(s).begin..(Outer(s).at - 1)
          /\ \A k \in (s.last + 1)..(Outer(s).at - 1) : FALSE
      BY <1>3, <2>7, <2>8, <3>1, <3>2 DEF a, Check
    <3> QED BY <2>4, <2>5, <2>8, <3>3 DEF Recent, InRound
  <2>10. CASE Len(r.frames) # 1
    <3>1. Outer(s) = Outer(r) /\ Len(s.frames) >= 2
      BY <1>2, <1>6, <2>1, <2>10, OneOrMore DEF Outer
    <3>2. Outer(s).at # Check
      BY <2>6, <3>1 DEF Check
    <3> QED BY <1>3, <2>4, <2>5, <2>7, <2>8, <3>1, <3>2 DEF Recent, InRound
  <2> QED BY <2>9, <2>10
<1> QED BY <1>5, <1>6

\* An array is left for the item that it is.
LEMMA PopOrdered ==
  ASSUME NEW r \in ReaderSet, Placed(r), AtArray(r), NEW waits, Ordered(r, waits)
  PROVE  Ordered(PopFrame(r), TRUE)
<1> DEFINE s == PopFrame(r)
<1>1. /\ s \in ReaderSet /\ Kept(s, r) /\ s.idx = r.idx /\ s.loopVisit = r.loopVisit
      /\ Len(s.frames) = Len(r.frames) - 1
      /\ \A k \in 1..(Len(r.frames) - 1) : s.frames[k] = r.frames[k]
  BY PopLemma DEF AtArray
<1>2. /\ Len(r.frames) \in Nat /\ Len(r.frames) >= 1 /\ TopOf(r) = r.frames[Len(r.frames)]
      /\ TopOf(r).kind = "array"
  BY FramesLemma DEF AtArray
<1> HIDE DEF s
<1>3. s.parcel = r.parcel /\ s.last = r.last
  BY <1>1 DEF Kept
<1> SUFFICES ASSUME SimpleNests(s.parcel)
             PROVE  /\ Visits(s) /\ Nested1(s) /\ Nested2(s) /\ Boundary(s.parcel, s.idx)
                    /\ Dealing(s) /\ Recent(s, TRUE)
  BY DEF Ordered, s
<1>4. Loops(r) /\ Boundary(r.parcel, r.idx) /\ Dealing(r)
  BY <1>3 DEF Ordered, Loops
<1>5. /\ \A k \in 1..Len(s.frames) : k \in 1..Len(r.frames) /\ k \in 1..(Len(r.frames) - 1)
      /\ \A k \in 1..Len(r.frames) : k \in 1..Len(s.frames) \/ k = Len(r.frames)
  BY <1>1, <1>2
<1>6. SameFrames(s, r)
  <2>1. Len(s.frames) >= 2 => s.frames[1] = r.frames[1]
    BY <1>1, <1>2
  <2>2. Len(s.frames) <= Len(r.frames)
    BY <1>1, <1>2
  <2> QED BY <1>1, <1>3, <1>5, <2>1, <2>2 DEF SameFrames, Outer
<1>7. Nested1(s) /\ Nested2(s) /\ (\A k \in 1..Len(s.frames) : IsRange(s, k) <=> IsRange(r, k))
  BY <1>1, <1>4, <1>6, NestedSame DEF Loops
<1>8. \A k \in 1..Len(r.frames) : IsRange(r, k) <=> k \in 1..Len(s.frames) /\ IsRange(s, k)
  <2>1. ~IsRange(r, Len(r.frames))
    BY <1>2 DEF IsRange
  <2> QED BY <1>5, <1>7, <2>1
<1>9. Visits(s)
  <2>1. \A k \in 1..Len(s.frames) : s.frames[k].loop = r.frames[k].loop
    BY <1>1, <1>5
  <2>2. Visits(r)
    BY <1>4 DEF Loops
  <2>3. \A k \in 1..Len(s.frames) : IsRange(s, k) => s.frames[k].loop \in s.loopVisit
    BY <1>1, <1>5, <1>8, <2>1, <2>2 DEF Visits
  <2>4. ASSUME NEW l \in s.loopVisit
        PROVE  \E k \in 1..Len(s.frames) : IsRange(s, k) /\ s.frames[k].loop = l
    <3>1. PICK k \in 1..Len(r.frames) : IsRange(r, k) /\ r.frames[k].loop = l
      BY <1>1, <2>2 DEF Visits
    <3>2. k \in 1..Len(s.frames) /\ IsRange(s, k)
      BY <1>8, <3>1
    <3> QED BY <2>1, <3>1, <3>2
  <2>5. \A k, m \in 1..Len(s.frames) :
          IsRange(s, k) /\ IsRange(s, m) /\ s.frames[k].loop = s.frames[m].loop => k = m
    <3>1. \A k \in 1..Len(s.frames) : IsRange(s, k) => k \in 1..Len(r.frames) /\ IsRange(r, k)
      BY <1>5, <1>7
    <3> QED BY <2>1, <2>2, <3>1 DEF Visits
  <2> QED BY <2>3, <2>4, <2>5 DEF Visits
<1>10. /\ InLoops(s) <=> InLoops(r)
       /\ InLoops(s) => Outer(s) = Outer(r)
  <2>1. 1 \in 1..Len(r.frames)
    BY <1>2
  <2>2. IsRange(r, 1) <=> 1 \in 1..Len(s.frames) /\ IsRange(s, 1)
    BY <1>8, <2>1
  <2> QED BY <1>1, <1>5, <2>2 DEF InLoops, IsRange, Outer
<1>11. Dealing(s) /\ s.last = Where(s)
  BY <1>1, <1>3, <1>4, <1>10 DEF Dealing, Where
<1>12. InLoops(s) => Outer(s).at # Check
  <2>1. InLoops(r) => Len(r.frames) >= 2
    <3>1. InLoops(r) => Len(r.frames) # 1
      BY <1>2 DEF InLoops, IsRange
    <3> QED BY <1>2, <3>1, OneOrMore
  <2> QED BY <1>10, <2>1, PlaceLemma
<1>13. Recent(s, TRUE)
  BY <1>11, <1>12 DEF Recent, InRound, Where
<1> QED BY <1>1, <1>3, <1>4, <1>7, <1>9, <1>11, <1>13 DEF Loops

\* The innermost frame is set to another place in it.
LEMMA SetSame ==
  ASSUME NEW r \in ReaderSet, NEW f \in Frame, r.frames # <<>>, f.kind = TopOf(r).kind,
         f.kind = "range" => /\ f.begin = TopOf(r).begin /\ f.end = TopOf(r).end
                             /\ f.loop = TopOf(r).loop
  PROVE  LET s == SetFrame(r, f) IN
         /\ s \in ReaderSet /\ Kept(s, r) /\ s.idx = r.idx /\ s.loopVisit = r.loopVisit
         /\ SameFrames(s, r) /\ Len(s.frames) = Len(r.frames) /\ TopOf(s) = f
         /\ AtArray(s) <=> AtArray(r)
         /\ Len(r.frames) = 1 => Outer(s) = f
         /\ Len(r.frames) >= 2 => Outer(s) = Outer(r)
<1> DEFINE s == SetFrame(r, f)
<1>1. /\ s \in ReaderSet /\ Kept(s, r) /\ s.idx = r.idx /\ s.loopVisit = r.loopVisit
      /\ Len(s.frames) = Len(r.frames)
      /\ \A k \in 1..(Len(r.frames) - 1) : s.frames[k] = r.frames[k]
      /\ s.frames[Len(r.frames)] = f
  BY SetFrameLemma
<1>2. /\ Len(r.frames) \in Nat /\ Len(r.frames) >= 1 /\ TopOf(r) = r.frames[Len(r.frames)]
      /\ s.frames # <<>>
  BY <1>1, FramesLemma
<1> HIDE DEF s
<1>3. Len(r.frames) = 1 => Outer(s) = f
  BY <1>1 DEF Outer
<1>4. Len(r.frames) >= 2 => Outer(s) = Outer(r)
  BY <1>1, <1>2 DEF Outer
<1>5. \A k \in 1..Len(s.frames) : k \in 1..(Len(r.frames) - 1) \/ k = Len(r.frames)
  BY <1>1, <1>2
<1>6. \A k \in 1..Len(s.frames) :
        /\ s.frames[k].kind = r.frames[k].kind
        /\ s.frames[k].kind = "range" =>
             /\ s.frames[k].begin = r.frames[k].begin /\ s.frames[k].end = r.frames[k].end
             /\ s.frames[k].loop = r.frames[k].loop
  BY <1>1, <1>2, <1>5
<1>7. Len(s.frames) <= Len(r.frames)
  BY <1>1, <1>2
<1>8. SameFrames(s, r)
  BY <1>1, <1>4, <1>6, <1>7 DEF SameFrames, Kept
<1>9. TopOf(s) = f /\ (AtArray(s) <=> AtArray(r))
  BY <1>1, <1>2 DEF TopOf, AtArray
<1> QED BY <1>1, <1>3, <1>4, <1>8, <1>9 DEF s

LEMMA ElementOrdered ==
  ASSUME NEW r \in ReaderSet, Placed(r), AtArray(r), NEW waits, Ordered(r, waits)
  PROVE  Ordered(ElementDone(r), FALSE)
<1>1. CASE r.isDependency
  <2> DEFINE p == PopFrame(r)
  <2>1. p \in ReaderSet /\ Placed(p) /\ AtPlace(p) /\ Ordered(p, TRUE)
    BY PopLemma, PlacedPop, PopOrdered DEF AtArray
  <2>2. ElementDone(r) = Returned(p, 1)
    BY <1>1 DEF ElementDone
  <2> HIDE DEF p
  <2> QED BY <2>1, <2>2, ReturnedOrdered
<1>2. CASE ~r.isDependency
  <2> DEFINE s == ElementDone(r)
  <2> DEFINE f == Stepped(r)
  <2>1. s = SetFrame(r, f) /\ f \in Frame /\ f.kind = "array" /\ f.kind = TopOf(r).kind
    BY <1>2, SteppedLemma DEF ElementDone, AtArray
  <2> HIDE DEF s, f
  <2>2. /\ s \in ReaderSet /\ Kept(s, r) /\ s.idx = r.idx /\ s.loopVisit = r.loopVisit
        /\ SameFrames(s, r) /\ Len(s.frames) = Len(r.frames) /\ AtArray(s)
        /\ Len(r.frames) >= 2 => Outer(s) = Outer(r)
    BY <2>1, SetSame DEF AtArray
  <2> SUFFICES ASSUME SimpleNests(s.parcel)
               PROVE  Loops(s) /\ Boundary(s.parcel, s.idx) /\ Dealing(s) /\ Recent(s, FALSE)
    BY DEF Ordered, Loops, s
  <2>3. s.parcel = r.parcel /\ s.last = r.last
    BY <2>2 DEF Kept
  <2>4. Loops(r) /\ Boundary(r.parcel, r.idx) /\ Dealing(r)
    BY <2>3 DEF Ordered, Loops
  <2>5. Loops(s) /\ (\A k \in 1..Len(s.frames) : IsRange(s, k) <=> IsRange(r, k))
    BY <2>2, <2>4, LoopsSame
  <2>6. Len(r.frames) \in Nat /\ Len(r.frames) >= 1
    BY FramesLemma DEF AtArray
  <2>7. InLoops(r) => Len(r.frames) >= 2
    <3>1. InLoops(r) => Len(r.frames) # 1
      BY DEF InLoops, IsRange, AtArray, TopOf
    <3> QED BY <2>6, <3>1, OneOrMore
  <2>8. (InLoops(s) <=> InLoops(r)) /\ (InLoops(s) => Outer(s) = Outer(r))
    BY <2>2, <2>5, <2>6, <2>7, OneOrMore DEF InLoops
  <2>9. Dealing(s) /\ s.last = Where(s)
    BY <2>2, <2>3, <2>4, <2>8 DEF Dealing, Where
  <2>10. InLoops(s) => Outer(s).at # Check /\ Len(s.frames) >= 2
    BY <2>2, <2>7, <2>8, PlaceLemma
  <2>11. Recent(s, FALSE)
    BY <2>2, <2>9, <2>10 DEF Recent, InRound, Where
  <2> QED BY <2>2, <2>3, <2>4, <2>5, <2>9, <2>11
<1> QED BY <1>1, <1>2

LEMMA PushArrayOrdered ==
  ASSUME NEW r \in ReaderSet, Placed(r), AtPlace(r), Ordered(r, TRUE),
         NEW f \in Frame, f.kind = "array"
  PROVE  Ordered(PushFrame(r, f), FALSE)
<1> DEFINE s == PushFrame(r, f)
<1> DEFINE n == Len(r.frames)
<1>1. /\ s \in ReaderSet /\ Kept(s, r) /\ s.idx = r.idx /\ s.loopVisit = r.loopVisit
      /\ Len(s.frames) = n + 1 /\ s.frames[n + 1] = f
      /\ \A k \in 1..n : s.frames[k] = r.frames[k]
  BY PushLemma
<1>2. n \in Nat /\ (r.frames = <<>> <=> n = 0)
  BY PlaceLemma
<1> HIDE DEF s
<1> SUFFICES ASSUME SimpleNests(s.parcel)
             PROVE  /\ Visits(s) /\ Nested1(s) /\ Nested2(s) /\ Boundary(s.parcel, s.idx)
                    /\ Dealing(s) /\ Recent(s, FALSE)
  BY DEF Ordered, s
<1>3. s.parcel = r.parcel /\ s.last = r.last
  BY <1>1 DEF Kept
<1>4. Loops(r) /\ Boundary(r.parcel, r.idx) /\ Dealing(r)
  BY <1>3 DEF Ordered, Loops
<1>5. \A k \in 1..Len(s.frames) : IsRange(s, k) => k \in 1..n /\ IsRange(r, k) /\ s.frames[k] = r.frames[k]
  <2>1. \A k \in 1..Len(s.frames) : k \in 1..n \/ k = n + 1
    BY <1>1, <1>2
  <2> QED BY <1>1, <2>1 DEF IsRange
<1>6. \A k \in 1..n : k \in 1..Len(s.frames) /\ (IsRange(r, k) => IsRange(s, k) /\ s.frames[k] = r.frames[k])
  <2>1. \A k \in 1..n : k \in 1..Len(s.frames)
    BY <1>1, <1>2
  <2> QED BY <1>1, <2>1 DEF IsRange
<1>7. /\ InLoops(s) <=> InLoops(r)
      /\ InLoops(s) => Outer(s) = Outer(r)
  <2>1. InLoops(s) => 1 \in 1..Len(s.frames) /\ IsRange(s, 1)
    BY DEF InLoops, IsRange
  <2>2. InLoops(r) => 1 \in 1..n /\ IsRange(r, 1)
    BY DEF InLoops, IsRange
  <2> QED BY <1>5, <1>6, <2>1, <2>2 DEF InLoops, Outer
<1> HIDE DEF n
<1>8. Visits(s)
  <2>1. Visits(r) /\ n = Len(r.frames)
    BY <1>4 DEF Loops, n
  <2>2. \A k \in 1..Len(s.frames) : IsRange(s, k) => s.frames[k].loop \in s.loopVisit
    BY <1>1, <1>5, <2>1 DEF Visits
  <2>3. ASSUME NEW l \in s.loopVisit
        PROVE  \E k \in 1..Len(s.frames) : IsRange(s, k) /\ s.frames[k].loop = l
    <3>1. PICK k \in 1..n : IsRange(r, k) /\ r.frames[k].loop = l
      BY <1>1, <2>1 DEF Visits
    <3> QED BY <1>6, <3>1
  <2>4. \A k, m \in 1..Len(s.frames) :
          IsRange(s, k) /\ IsRange(s, m) /\ s.frames[k].loop = s.frames[m].loop => k = m
    BY <1>5, <2>1 DEF Visits
  <2> QED BY <2>2, <2>3, <2>4 DEF Visits
<1>9. Nested1(s)
  BY <1>3, <1>4, <1>7 DEF Loops, Nested1
<1>10. Nested2(s)
  <2> SUFFICES ASSUME NEW k \in 2..Len(s.frames), IsRange(s, k)
               PROVE  /\ s.frames[k].begin = Outer(s).at /\ s.frames[k].end = Outer(s).at + 1
                      /\ InLoop(s.parcel, s.frames[k].loop) = {Outer(s).at}
    BY DEF Nested2
  <2>1. k \in 1..Len(s.frames)
    BY <1>1, <1>2
  <2>2. k \in 1..n /\ IsRange(r, k) /\ s.frames[k] = r.frames[k]
    BY <1>5, <2>1
  <2>3. k \in 2..Len(r.frames) /\ Len(r.frames) >= 2
    BY <1>2, <2>2 DEF n
  <2>4. Outer(s) = Outer(r)
    BY <1>7, <2>3, PlaceLemma
  <2> QED BY <1>3, <1>4, <2>2, <2>3, <2>4 DEF Loops, Nested2
<1>11. Dealing(s) /\ s.last = Where(s)
  BY <1>1, <1>3, <1>4, <1>7 DEF Dealing, Where
<1>12. InLoops(s) => Outer(s).at # Check /\ Len(s.frames) >= 2
  <2>1. InLoops(r) => n >= 1
    BY <1>2 DEF InLoops, IsRange, n
  <2>2. InLoops(r) => Outer(r).at # Check
    BY <1>2, <2>1, PlaceLemma
  <2> QED BY <1>1, <1>2, <1>7, <2>1, <2>2
<1>13. AtArray(s)
  <2>1. s.frames # <<>> /\ TopOf(s) = f
    <3>1. Len(s.frames) # 0
      BY <1>1, <1>2
    <3> QED BY <1>1, <3>1 DEF TopOf
  <2> QED BY <2>1 DEF AtArray
<1>14. Recent(s, FALSE)
  BY <1>11, <1>12, <1>13 DEF Recent, InRound, Where
<1> QED BY <1>1, <1>3, <1>4, <1>8, <1>9, <1>10, <1>11, <1>14

-----------------------------------------------------------------------------
(* Ranges *)

\* The outermost loop at the end of an iteration, or before the first.
LEMMA RoundLemma ==
  ASSUME NEW r \in ReaderSet, Placed(r), Recent(r, FALSE), Len(r.frames) = 1, InLoops(r),
         Outer(r).at = Check \/ Outer(r).at >= Outer(r).end
  PROVE  Round(r)
<1>1. /\ Outer(r).begin \in Nat /\ Outer(r).end \in Nat /\ Outer(r).at \in Nat
      /\ Outer(r).at = Check \/ Outer(r).at \in Outer(r).begin..Outer(r).end
      /\ Check = 0
  BY PlaceLemma
<1>2. CASE Outer(r).at = Check
  BY <1>2 DEF Recent
<1>3. CASE Outer(r).at # Check
  <2>1. Outer(r).at = Outer(r).end
    BY <1>1, <1>3
  <2>2. InRound(r, FALSE)
    BY <1>3 DEF Recent
  <2> QED BY <2>1, <2>2 DEF InRound, Round
<1> QED BY <1>2, <1>3

\* A range goes on with an iteration, or to the check of its constraint.
LEMMA RangeOrdered ==
  ASSUME NEW r \in ReaderSet, Placed(r), r.frames # <<>>, TopOf(r).kind = "range",
         Ordered(r, FALSE), TopOf(r).at = Check \/ TopOf(r).at >= TopOf(r).end,
         NEW f \in Frame, f.kind = "range", f.begin = TopOf(r).begin, f.end = TopOf(r).end,
         f.loop = TopOf(r).loop, f.at = Check \/ f.at = f.begin
  PROVE  Ordered(SetFrame(r, f), FALSE)
<1> DEFINE s == SetFrame(r, f)
<1>1. /\ s \in ReaderSet /\ Kept(s, r) /\ s.idx = r.idx /\ s.loopVisit = r.loopVisit
      /\ SameFrames(s, r) /\ Len(s.frames) = Len(r.frames) /\ (AtArray(s) <=> AtArray(r))
      /\ Len(r.frames) = 1 => Outer(s) = f
      /\ Len(r.frames) >= 2 => Outer(s) = Outer(r)
  BY SetSame
<1>2. ~AtArray(r) /\ Len(r.frames) \in Nat /\ Len(r.frames) >= 1
      /\ TopOf(r) = r.frames[Len(r.frames)]
  BY FramesLemma DEF AtArray
<1> HIDE DEF s
<1> SUFFICES ASSUME SimpleNests(s.parcel)
             PROVE  Loops(s) /\ Boundary(s.parcel, s.idx) /\ Recent(s, FALSE)
  BY <1>1, <1>2 DEF Ordered, Loops, s
<1>3. s.parcel = r.parcel /\ s.last = r.last
  BY <1>1 DEF Kept
<1>4. Loops(r) /\ Boundary(r.parcel, r.idx) /\ Recent(r, FALSE)
  BY <1>3 DEF Ordered, Loops
<1>5. Loops(s) /\ (\A k \in 1..Len(s.frames) : IsRange(s, k) <=> IsRange(r, k))
  BY <1>1, <1>4, LoopsSame
<1>6. InLoops(r) /\ InLoops(s)
  <2>1. InLoops(r)
    <3>1. CASE Len(r.frames) = 1
      BY <1>2, <3>1 DEF InLoops, IsRange
    <3> QED BY <1>2, <3>1, OneOrMore, PlaceLemma
  <2> QED BY <1>1, <1>2, <1>5, <2>1, OneOrMore DEF InLoops
<1>7. CASE Len(r.frames) = 1
  <2>1. Outer(r) = TopOf(r)
    BY <1>2, <1>7 DEF Outer
  <2>2. Round(r)
    BY <1>4, <1>6, <1>7, <2>1, RoundLemma
  <2>3. Outer(s) = f
    BY <1>1, <1>7
  <2>4. Round(s)
    BY <1>3, <2>1, <2>2, <2>3 DEF Round
  <2>5. f.at = f.begin => f.at # Check /\ \A k \in f.begin..(f.at - 1) : FALSE
    BY <1>6, <2>1, PlaceLemma
  <2>6. Recent(s, FALSE)
    BY <1>6, <2>3, <2>4, <2>5 DEF Recent, InRound
  <2> QED BY <1>1, <1>3, <1>4, <1>5, <2>6
<1>8. CASE Len(r.frames) >= 2
  <2>1. Recent(s, FALSE)
    BY <1>1, <1>3, <1>4, <1>6, <1>8 DEF Recent, InRound, Round
  <2> QED BY <1>1, <1>3, <1>4, <1>5, <2>1
<1> QED BY <1>2, <1>7, <1>8, OneOrMore

\* A range is entered.
LEMMA EnterOrdered ==
  ASSUME NEW r \in ReaderSet, Placed(r), AtPlace(r), Ordered(r, FALSE),
         NEW f \in Frame, f.kind = "range", f.at = Check, f.begin = Where(r),
         f.loop \notin r.loopVisit,
         SimpleNests(r.parcel) =>
           IF r.frames = <<>>
           THEN /\ InLoop(r.parcel, f.loop) = f.begin..(f.end - 1)
                /\ \A j \in f.begin..(f.end - 1) : items[r.parcel][j].loops[1] = f.loop
           ELSE f.end = f.begin + 1 /\ InLoop(r.parcel, f.loop) = {f.begin}
  PROVE  Ordered(PushFrame([r EXCEPT !.loopVisit = @ \cup {f.loop}], f), FALSE)
<1> DEFINE q == [r EXCEPT !.loopVisit = @ \cup {f.loop}]
<1> DEFINE s == PushFrame(q, f)
<1> DEFINE n == Len(r.frames)
<1>1. f.loop \in Loop
  BY FrameKind
<1>2. /\ q \in ReaderSet /\ Kept(q, r) /\ q.idx = r.idx /\ q.frames = r.frames
      /\ q.loopVisit = r.loopVisit \cup {f.loop}
  BY <1>1 DEF ReaderSet, Kept
<1> HIDE DEF q
<1>3. /\ s \in ReaderSet /\ Kept(s, r) /\ s.idx = r.idx
      /\ s.loopVisit = r.loopVisit \cup {f.loop}
      /\ Len(s.frames) = n + 1 /\ s.frames[n + 1] = f
      /\ \A k \in 1..n : s.frames[k] = r.frames[k]
  BY <1>2, PushLemma DEF Kept
<1>4. n \in Nat /\ (r.frames = <<>> <=> n = 0)
  BY PlaceLemma
<1> HIDE DEF s
<1>5. ~AtArray(s)
  <2>1. TopOf(s) = f
    BY <1>3 DEF TopOf
  <2> QED BY <2>1 DEF AtArray
<1> SUFFICES ASSUME SimpleNests(s.parcel)
             PROVE  /\ Visits(s) /\ Nested1(s) /\ Nested2(s) /\ Boundary(s.parcel, s.idx)
                    /\ Recent(s, FALSE)
  BY <1>5 DEF Ordered, s, q
<1>6. s.parcel = r.parcel /\ s.last = r.last
  BY <1>3 DEF Kept
<1>7. Loops(r) /\ Boundary(r.parcel, r.idx) /\ Recent(r, FALSE)
  BY <1>6 DEF Ordered, Loops
<1>8. /\ \A k \in 1..Len(s.frames) : k \in 1..n \/ k = n + 1
      /\ \A k \in 1..n : k \in 1..Len(s.frames) /\ k # n + 1
      /\ n + 1 \in 1..Len(s.frames)
  BY <1>3, <1>4
<1>9. \A k \in 1..n : IsRange(s, k) <=> IsRange(r, k)
  BY <1>3, <1>8 DEF IsRange
<1>10. IsRange(s, n + 1)
  BY <1>3, <1>8 DEF IsRange
<1>11. n # 0 => InLoops(r) /\ InLoops(s) /\ Outer(s) = Outer(r) /\ Outer(r).at # Check
  <2>1. n # 0 => 1 \in 1..n
    BY <1>4
  <2>2. n # 0 => InLoops(r) /\ Outer(r).at # Check
    BY <1>4, PlaceLemma
  <2> QED BY <1>3, <1>9, <2>1, <2>2 DEF InLoops, Outer
<1>12. n = 0 => InLoops(s) /\ Outer(s) = f /\ ~InLoops(r) /\ Where(r) = r.idx
  BY <1>3, <1>4, <1>10, PlaceLemma DEF InLoops, Outer, Where
<1> HIDE DEF n
<1>13. Visits(s)
  <2>1. Visits(r) /\ n = Len(r.frames)
    BY <1>7 DEF Loops, n
  <2>2. \A k \in 1..Len(s.frames) : IsRange(s, k) => s.frames[k].loop \in s.loopVisit
    BY <1>3, <1>8, <1>9, <2>1 DEF Visits
  <2>3. ASSUME NEW l \in s.loopVisit
        PROVE  \E k \in 1..Len(s.frames) : IsRange(s, k) /\ s.frames[k].loop = l
    <3>1. CASE l = f.loop
      BY <1>3, <1>8, <1>10, <3>1
    <3>2. CASE l \in r.loopVisit
      <4>1. PICK k \in 1..n : IsRange(r, k) /\ r.frames[k].loop = l
        BY <2>1, <3>2 DEF Visits
      <4> QED BY <1>3, <1>8, <1>9, <4>1
    <3> QED BY <1>3, <3>1, <3>2
  <2>4. \A k \in 1..n : IsRange(s, k) => s.frames[k].loop # f.loop
    BY <1>3, <1>9, <2>1 DEF Visits
  <2>5. ASSUME NEW k \in 1..Len(s.frames), NEW m \in 1..Len(s.frames),
               IsRange(s, k), IsRange(s, m), s.frames[k].loop = s.frames[m].loop
        PROVE  k = m
    <3>1. CASE k \in 1..n /\ m \in 1..n
      BY <1>3, <1>9, <2>1, <2>5, <3>1 DEF Visits
    <3>2. CASE k = n + 1 /\ m \in 1..n
      BY <1>3, <2>4, <2>5, <3>2
    <3>3. CASE k \in 1..n /\ m = n + 1
      BY <1>3, <2>4, <2>5, <3>3
    <3> QED BY <1>8, <3>1, <3>2, <3>3
  <2> QED BY <2>2, <2>3, <2>5 DEF Visits
<1>14. Nested1(s)
  <2>1. CASE n = 0
    BY <1>4, <1>6, <1>12, <2>1 DEF Nested1
  <2>2. CASE n # 0
    BY <1>6, <1>7, <1>11, <2>2 DEF Loops, Nested1
  <2> QED BY <2>1, <2>2
<1>15. Nested2(s)
  <2> SUFFICES ASSUME NEW k \in 2..Len(s.frames), IsRange(s, k)
               PROVE  /\ s.frames[k].begin = Outer(s).at /\ s.frames[k].end = Outer(s).at + 1
                      /\ InLoop(s.parcel, s.frames[k].loop) = {Outer(s).at}
    BY DEF Nested2
  <2>1. n # 0 /\ (k \in 2..n \/ k = n + 1) /\ (k \in 2..n => k \in 1..n)
    BY <1>3, <1>4
  <2>2. CASE k = n + 1
    <3>1. Where(r) = Outer(s).at
      BY <1>11, <2>1 DEF Where
    <3> QED BY <1>3, <1>4, <1>6, <2>1, <2>2, <3>1
  <2>3. CASE k \in 2..n
    <3>1. k \in 2..Len(r.frames) /\ IsRange(r, k) /\ s.frames[k] = r.frames[k]
      BY <1>3, <1>9, <2>1, <2>3 DEF n
    <3> QED BY <1>6, <1>7, <1>11, <2>1, <3>1 DEF Loops, Nested2
  <2> QED BY <2>1, <2>2, <2>3
<1>16. Recent(s, FALSE)
  <2>1. CASE n = 0
    <3>1. r.last < r.idx /\ PassedOver(r.parcel, (r.last + 1)..(r.idx - 1), r.last)
      BY <1>4, <1>7, <1>12, <2>1 DEF Recent, AtArray
    <3> QED BY <1>6, <1>12, <2>1, <3>1 DEF Recent, Round
  <2>2. CASE n # 0
    <3>1. InRound(r, FALSE)
      BY <1>7, <1>11, <2>2 DEF Recent
    <3>2. Len(r.frames) >= 2 => Len(s.frames) >= 2
      BY <1>3, <1>4 DEF n
    <3>3. InRound(s, FALSE)
      BY <1>6, <1>11, <2>2, <3>1, <3>2 DEF InRound, Round
    <3> QED BY <1>11, <2>2, <3>3 DEF Recent
  <2> QED BY <2>1, <2>2
<1> QED BY <1>3, <1>6, <1>7, <1>13, <1>14, <1>15, <1>16

\* The outermost range is left: the reader is behind the loop.
LEMMA LeaveOutermost ==
  ASSUME NEW r \in ReaderSet, Placed(r), Len(r.frames) = 1, InLoops(r),
         SimpleNests(r.parcel), Loops(r), Round(r)
  PROVE  /\ Boundary(r.parcel, Outer(r).end)
         /\ r.last < Outer(r).end
         /\ PassedOver(r.parcel, (r.last + 1)..(Outer(r).end - 1), r.last)
<1> DEFINE f == Outer(r)
<1> DEFINE p == r.parcel
<1>1. /\ f.begin \in Nat /\ f.end \in Nat /\ f.begin < f.end /\ f.end <= Size(r) + 1
      /\ f.begin >= 1 /\ f.loop \in Loop /\ p \in Parcel /\ Size(r) \in Nat /\ r.last \in Nat
  BY PlaceLemma
<1>2. /\ InLoop(p, f.loop) = f.begin..(f.end - 1)
      /\ \A j \in f.begin..(f.end - 1) : items[p][j].loops[1] = f.loop
  BY DEF Loops, Nested1
<1> HIDE DEF f
<1>3. \A j \in f.begin..(f.end - 1) : j \in 1..Len(items[p])
  BY <1>1 DEF Size
<1>4. Boundary(p, f.end)
  <2> SUFFICES ASSUME NEW l \in Loop, f.end - 1 \in InLoop(p, l), f.end \in InLoop(p, l)
               PROVE  FALSE
    BY DEF Boundary
  <2>1. f.end - 1 \in f.begin..(f.end - 1) /\ f.end # f.end - 1 /\ f.end \notin f.begin..(f.end - 1)
    BY <1>1
  <2>2. f.end - 1 \in 1..Len(items[p]) /\ items[p][f.end - 1].loops[1] = f.loop
    BY <1>2, <1>3, <2>1
  <2>3. l \in LoopsOf(p, f.end - 1)
    BY <1>1, <2>2, LoopsLemma
  <2>4. l = f.loop \/ InLoop(p, l) = {f.end - 1}
    BY <1>1, <2>2, <2>3, OuterOrAlone
  <2> QED BY <1>2, <2>1, <2>4
<1>5. r.last < f.end
  BY <1>1 DEF Round, f
<1>6. PassedOver(p, (r.last + 1)..(f.end - 1), r.last)
  <2> SUFFICES ASSUME NEW k \in (r.last + 1)..(f.end - 1)
               PROVE  \E l \in LoopsOf(p, k) : r.last \notin InLoop(p, l)
    BY DEF PassedOver
  <2>1. CASE r.last < f.begin /\ PassedOver(p, (r.last + 1)..(f.begin - 1), r.last)
    <3>1. CASE k \in (r.last + 1)..(f.begin - 1)
      BY <2>1, <3>1 DEF PassedOver
    <3>2. CASE k \in f.begin..(f.end - 1)
      <4>1. f.loop \in LoopsOf(p, k)
        <5>1. k \in 1..Len(items[p]) /\ k \in InLoop(p, f.loop)
          BY <1>2, <1>3, <3>2
        <5> QED BY <1>1, <5>1, LoopsLemma
      <4>2. r.last \notin f.begin..(f.end - 1)
        BY <1>1, <2>1
      <4> QED BY <1>2, <4>1, <4>2
    <3> QED BY <1>1, <3>1, <3>2
  <2>2. CASE /\ r.last \in f.begin..(f.end - 1)
             /\ \A m \in (r.last + 1)..(f.end - 1) : Alone(p, m)
    <3>1. PICK l \in LoopsOf(p, k) : InLoop(p, l) = {k}
      BY <2>2 DEF Alone
    <3>2. r.last # k
      BY <1>1
    <3> QED BY <3>1, <3>2
  <2> QED BY <2>1, <2>2 DEF Round, f
<1> QED BY <1>4, <1>5, <1>6 DEF f

\* A range is left.
LEMMA LeaveOrdered ==
  ASSUME NEW r \in ReaderSet, Placed(r), r.frames # <<>>, TopOf(r).kind = "range",
         Ordered(r, FALSE), TopOf(r).at = Check \/ TopOf(r).at >= TopOf(r).end,
         NEW q \in ReaderSet, Kept(q, r), q.idx = r.idx, q.frames = r.frames,
         q.loopVisit = r.loopVisit \ {TopOf(r).loop},
         NEW n \in Nat, n = TopOf(r).end - TopOf(r).begin
  PROVE  Ordered(Returned(PopFrame(q), n), FALSE)
<1> DEFINE p == PopFrame(q)
<1> DEFINE s == Returned(p, n)
<1> DEFINE m == Len(r.frames) - 1
<1>1. /\ Len(r.frames) \in Nat /\ Len(r.frames) >= 1 /\ TopOf(r) = r.frames[Len(r.frames)]
      /\ m \in Nat /\ m + 1 = Len(r.frames)
  BY FramesLemma
<1>2. Placed(q)
  BY PlacedSame DEF Placed, Kept, AtArray
<1>3. /\ p \in ReaderSet /\ Kept(p, q) /\ p.idx = q.idx /\ p.loopVisit = q.loopVisit
      /\ Len(p.frames) = m /\ \A k \in 1..m : p.frames[k] = r.frames[k]
      /\ Placed(p) /\ AtPlace(p) /\ ~AtArray(p)
  BY <1>2, PopLemma, PlacedPop
<1> HIDE DEF p, m
<1>4. p.frames = <<>> <=> m = 0
  BY <1>3, PlaceLemma
<1>5. /\ s \in ReaderSet /\ Kept(s, p) /\ s.loopVisit = p.loopVisit /\ ~AtArray(s)
      /\ m = 0 => s.frames = <<>> /\ s.idx = p.idx + n
      /\ m # 0 => s = SetFrame(p, Stepped(p)) /\ s.idx = p.idx
  BY <1>3, <1>4, ReturnedLemma
<1> HIDE DEF s
<1>6. /\ s.parcel = r.parcel /\ s.last = r.last /\ s.loopVisit = r.loopVisit \ {TopOf(r).loop}
  BY <1>3, <1>5 DEF Kept
<1> SUFFICES ASSUME SimpleNests(s.parcel)
             PROVE  /\ Visits(s) /\ Nested1(s) /\ Nested2(s) /\ Boundary(s.parcel, s.idx)
                    /\ Recent(s, FALSE)
  BY <1>5 DEF Ordered, s, p
<1>7. Loops(r) /\ Boundary(r.parcel, r.idx) /\ Recent(r, FALSE)
  BY <1>6 DEF Ordered, Loops
<1>8. CASE m = 0
  <2>1. /\ Len(r.frames) = 1 /\ InLoops(r) /\ Outer(r) = TopOf(r)
    BY <1>1, <1>8 DEF InLoops, IsRange, Outer
  <2>2. s.idx = Outer(r).end
    <3>1. /\ Outer(r).begin = r.idx /\ Outer(r).begin \in Nat /\ Outer(r).end \in Nat
      BY <2>1, PlaceLemma
    <3> QED BY <1>3, <1>5, <1>8, <2>1, <3>1
  <2>3. s.frames = <<>> /\ Len(s.frames) = 0 /\ ~InLoops(s)
    BY <1>5, <1>8 DEF InLoops, IsRange
  <2>4. Round(r)
    BY <1>7, <2>1, RoundLemma
  <2>5. /\ Boundary(r.parcel, s.idx) /\ r.last < s.idx
        /\ PassedOver(r.parcel, (r.last + 1)..(s.idx - 1), r.last)
    BY <1>6, <1>7, <2>1, <2>2, <2>4, LeaveOutermost
  <2>6. Visits(s)
    <3>1. s.loopVisit = {}
      <4>1. \A l \in r.loopVisit : l = TopOf(r).loop
        BY <1>1, <1>7, <2>1 DEF Loops, Visits
      <4> QED BY <1>6, <4>1
    <3> QED BY <2>3, <3>1 DEF Visits
  <2>7. Nested1(s) /\ Nested2(s)
    BY <2>3 DEF Nested1, Nested2
  <2>8. Recent(s, FALSE)
    BY <1>6, <2>3, <2>5 DEF Recent
  <2> QED BY <1>6, <2>5, <2>6, <2>7, <2>8
<1>9. CASE m # 0
  <2>1. p.frames # <<>> /\ TopOf(p).kind = "range" /\ s = SetFrame(p, Stepped(p)) /\ s.idx = r.idx
    BY <1>3, <1>4, <1>5, <1>9 DEF AtPlace, Within
  <2> DEFINE g == Stepped(p)
  <2>2. /\ g \in Frame /\ g.kind = "range" /\ g.at = TopOf(p).at + 1
        /\ g.begin = TopOf(p).begin /\ g.end = TopOf(p).end /\ g.loop = TopOf(p).loop
    BY <1>3, <2>1, SteppedLemma
  <2>3. s = SetFrame(p, g)
    BY <2>1
  <2> HIDE DEF g
  <2>4. /\ SameFrames(s, p) /\ Len(s.frames) = m
        /\ m = 1 => Outer(s) = g
        /\ m >= 2 => Outer(s) = Outer(p)
    <3>1. p \in ReaderSet /\ p.frames # <<>> /\ g.kind = TopOf(p).kind /\ Len(p.frames) = m
      BY <1>3, <2>1, <2>2
    <3> HIDE DEF s
    <3> QED BY <2>2, <2>3, <3>1, SetSame
  <2>5. /\ m >= 1 /\ Len(r.frames) >= 2 /\ 1 \in 1..m
        /\ \A k \in 1..m : k \in 1..Len(r.frames) /\ k # Len(r.frames)
    <3>1. \A k, j \in Nat : k # 0 /\ k + 1 = j =>
            k >= 1 /\ j >= 2 /\ 1 \in 1..k /\ \A i \in 1..k : i \in 1..j /\ i # j
      OBVIOUS
    <3> QED BY <1>1, <1>9, <3>1
  <2>6. SameFrames(s, r)
    <3>1. /\ s.parcel = r.parcel /\ Len(s.frames) <= Len(r.frames)
          /\ Len(s.frames) >= 2 => Outer(s).at = Outer(r).at
      BY <1>1, <1>3, <1>6, <2>4, <2>5 DEF Outer
    <3>2. \A k \in 1..Len(s.frames) :
            /\ s.frames[k].kind = r.frames[k].kind
            /\ s.frames[k].kind = "range" =>
                 /\ s.frames[k].begin = r.frames[k].begin /\ s.frames[k].end = r.frames[k].end
                 /\ s.frames[k].loop = r.frames[k].loop
      BY <1>3, <2>4 DEF SameFrames
    <3> QED BY <3>1, <3>2 DEF SameFrames
  <2>7. Nested1(s) /\ Nested2(s) /\ (\A k \in 1..m : IsRange(s, k) <=> IsRange(r, k))
    BY <1>5, <1>7, <2>4, <2>6, NestedSame DEF Loops
  <2>8. /\ InLoops(r) /\ InLoops(s)
        /\ Outer(r).at \in Outer(r).begin..(Outer(r).end - 1)
        /\ Outer(r).begin \in Nat /\ Outer(r).end \in Nat /\ Outer(r).begin >= 1
        /\ r.parcel \in Parcel /\ r.last \in Nat /\ Outer(r).at # Check
    BY <2>5, <2>7, PlaceLemma DEF InLoops
  <2>9. Visits(s)
    <3>1. Visits(r) /\ \A k \in 1..m : IsRange(s, k) => s.frames[k].loop = r.frames[k].loop
      BY <1>7, <2>4, <2>6 DEF Loops, SameFrames, IsRange
    <3>2. IsRange(r, Len(r.frames)) /\ Len(r.frames) \in 1..Len(r.frames)
      BY <1>1 DEF IsRange
    <3>3. \A k \in 1..m : IsRange(r, k) => r.frames[k].loop # TopOf(r).loop
      BY <1>1, <2>5, <3>1, <3>2 DEF Visits
    <3>4. \A k \in 1..Len(s.frames) : IsRange(s, k) => s.frames[k].loop \in s.loopVisit
      BY <1>6, <2>4, <2>5, <2>7, <3>1, <3>3 DEF Visits
    <3>5. ASSUME NEW l \in s.loopVisit
          PROVE  \E k \in 1..Len(s.frames) : IsRange(s, k) /\ s.frames[k].loop = l
      <4>1. PICK k \in 1..Len(r.frames) : IsRange(r, k) /\ r.frames[k].loop = l
        BY <1>6, <3>1 DEF Visits
      <4>2. k # Len(r.frames)
        BY <1>1, <1>6, <4>1
      <4>3. k \in 1..m
        BY <1>1, <4>2
      <4> QED BY <2>4, <2>7, <3>1, <4>1, <4>3
    <3>6. \A k, j \in 1..Len(s.frames) :
            IsRange(s, k) /\ IsRange(s, j) /\ s.frames[k].loop = s.frames[j].loop => k = j
      BY <2>4, <2>5, <2>7, <3>1 DEF Visits
    <3> QED BY <3>4, <3>5, <3>6 DEF Visits
  <2>10. Outer(s).begin = Outer(r).begin /\ Outer(s).end = Outer(r).end
    BY <2>4, <2>5, <2>6, <2>8 DEF SameFrames, Outer, InLoops, IsRange
  <2>11. InRound(r, FALSE)
    BY <1>7, <2>8 DEF Recent
  <2>12. CASE m = 1
    <3> DEFINE a == Outer(r).at
    <3>1. Outer(s).at = a + 1
      BY <1>3, <2>2, <2>4, <2>12 DEF Outer, TopOf
    <3>2. Alone(r.parcel, a)
      <4>1. 2 \in 2..Len(r.frames) /\ 2 \in 1..Len(r.frames) /\ IsRange(r, 2) /\ r.frames[2] = TopOf(r)
        <5>1. Len(r.frames) = 2 /\ r.frames[2] = TopOf(r)
          BY <1>1, <2>12
        <5> QED BY <5>1 DEF IsRange
      <4>2. r.frames[2].begin = a /\ r.frames[2].end = a + 1 /\ InLoop(r.parcel, r.frames[2].loop) = {a}
        BY <1>7, <4>1 DEF Loops, Nested2
      <4>3. RangeOK(r.parcel, r.frames[2])
        BY <4>1 DEF Placed, FrameOK, IsRange
      <4>4. a \in a..((a + 1) - 1)
        BY <2>8
      <4>5. r.frames[2].loop \in LoopsOf(r.parcel, a)
        BY <4>2, <4>3, <4>4 DEF RangeOK
      <4> QED BY <4>2, <4>5 DEF Alone
    <3>3. a \in Nat /\ a + 1 # 0 /\ (a + 1) - 1 = a
          /\ Outer(r).begin \in Nat /\ a >= Outer(r).begin
      BY <2>8
    <3> DEFINE b == Outer(r).begin
    <3>4. \/ r.last = a
          \/ r.last \in b..(a - 1) /\ \A k \in (r.last + 1)..(a - 1) : Alone(r.parcel, k)
          \/ (\A k \in b..(a - 1) : Alone(r.parcel, k)) /\ Round(r)
      BY <2>11 DEF InRound
    <3> HIDE DEF a, b
    <3>5. \/ r.last \in b..a /\ \A k \in (r.last + 1)..a : Alone(r.parcel, k)
          \/ (\A k \in b..a : Alone(r.parcel, k)) /\ Round(r)
      <4>1. CASE r.last = a
        <5>1. a \in b..a /\ \A k \in (a + 1)..a : FALSE
          BY <3>3 DEF b
        <5> QED BY <4>1, <5>1
      <4>2. CASE r.last \in b..(a - 1) /\ \A k \in (r.last + 1)..(a - 1) : Alone(r.parcel, k)
        <5>1. r.last \in b..a /\ \A k \in (r.last + 1)..a : k \in (r.last + 1)..(a - 1) \/ k = a
          BY <2>8, <3>3, <4>2
        <5> QED BY <3>2, <4>2, <5>1 DEF a
      <4>3. CASE (\A k \in b..(a - 1) : Alone(r.parcel, k)) /\ Round(r)
        <5>1. \A k \in b..a : k \in b..(a - 1) \/ k = a
          BY <3>3 DEF b
        <5> QED BY <3>2, <4>3, <5>1 DEF a
      <4> QED BY <3>4, <4>1, <4>2, <4>3
    <3>6. Round(r) => Round(s)
      BY <1>6, <2>10 DEF Round
    <3>7. Outer(s).begin = b /\ Outer(s).at - 1 = a /\ Outer(s).at # Check
      BY <2>10, <3>1, <3>3 DEF b, a, Check
    <3>8. InRound(s, FALSE)
      BY <1>6, <3>5, <3>6, <3>7 DEF InRound
    <3>9. Recent(s, FALSE)
      BY <2>8, <3>7, <3>8 DEF Recent
    <3> QED BY <1>6, <1>7, <2>1, <2>7, <2>9, <3>9
  <2>13. CASE m >= 2
    <3>1. Outer(s) = Outer(r)
      BY <1>3, <2>4, <2>5, <2>13 DEF Outer
    <3>2. InRound(s, FALSE)
      BY <1>6, <2>4, <2>11, <2>13, <3>1 DEF InRound, Round
    <3>3. Recent(s, FALSE)
      BY <2>8, <3>1, <3>2 DEF Recent
    <3> QED BY <1>6, <1>7, <2>1, <2>7, <2>9, <3>3
  <2> QED BY <1>1, <2>5, <2>12, <2>13, OneOrMore
<1> QED BY <1>8, <1>9

-----------------------------------------------------------------------------
(* The stack of readers *)

LEMMA StackOrdered ==
  ASSUME OrderInv, TraversalInv', NEW m \in Nat, m < Len(readers),
         NEW s, Ordered(s, FALSE), Len(readers') = m + 1,
         \A i \in 1..m : readers'[i] = readers[i], readers'[m + 1] = s
  PROVE  OrderInv'
<1>1. readers \in Seq(ReaderSet) /\ Len(readers) \in Nat
  BY LenProperties DEF OrderInv, TraversalInv, Structure
<1>2. \A i \in 1..m : i \in 1..(Len(readers) - 1)
  BY <1>1
<1>3. Len(readers') - 1 = m
  OBVIOUS
<1>4. \A i \in 1..(Len(readers') - 1) : Ordered(readers'[i], TRUE)
  BY <1>2, <1>3 DEF OrderInv
<1>5. R' = s
  BY DEF R
<1> QED BY <1>4, <1>5 DEF OrderInv

LEMMA SetROrdered ==
  ASSUME OrderInv, TraversalInv', readers # <<>>, NEW s \in ReaderSet, Ordered(s, FALSE), SetR(s)
  PROVE  OrderInv'
<1> DEFINE m == Len(readers) - 1
<1>1. m \in Nat /\ m < Len(readers) /\ m + 1 = Len(readers) /\ readers \in Seq(ReaderSet)
  BY RLemma DEF OrderInv
<1>2. /\ Len(readers') = Len(readers)
      /\ \A i \in 1..Len(readers) : readers'[i] = IF i = Len(readers) THEN s ELSE readers[i]
  BY <1>1, ExceptSeq DEF SetR
<1> HIDE DEF m
<1>3. \A i \in 1..m : i \in 1..Len(readers) /\ i # Len(readers)
  BY <1>1
<1>4. m + 1 \in 1..Len(readers)
  BY <1>1
<1> QED BY <1>1, <1>2, <1>3, <1>4, StackOrdered

LEMMA NewOrdered ==
  ASSUME NEW p \in Parcel, NEW d, NEW b
  PROVE  Ordered(Reader(p, d, b), FALSE)
<1> DEFINE r == Reader(p, d, b)
<1>1. r.parcel = p /\ r.idx = 1 /\ r.frames = <<>> /\ r.loopVisit = {} /\ r.last = 0
  BY DEF Reader
<1> HIDE DEF r
<1>2. Len(r.frames) = 0 /\ ~AtArray(r) /\ \A k : ~IsRange(r, k)
  BY <1>1 DEF AtArray, IsRange
<1>3. Visits(r) /\ Nested1(r) /\ Nested2(r) /\ ~InLoops(r)
  BY <1>1, <1>2 DEF Visits, Nested1, Nested2, InLoops
<1>4. Boundary(p, 1)
  <2>1. \A l : 1 - 1 \notin InLoop(p, l)
    BY ItemsLemma DEF InLoop
  <2> QED BY <2>1 DEF Boundary
<1>5. \A k \in (0 + 1)..(1 - 1) : FALSE
  OBVIOUS
<1>6. Recent(r, FALSE)
  BY <1>1, <1>3, <1>5 DEF Recent, PassedOver
<1> QED BY <1>1, <1>2, <1>3, <1>4, <1>6 DEF Ordered, r

LEMMA NestOrdered ==
  ASSUME OrderInv, TraversalInv', readers # <<>>, NEW s \in ReaderSet, Ordered(s, TRUE),
         NEW p \in Parcel, Nested(s, p)
  PROVE  OrderInv'
<1> DEFINE n == Len(readers)
<1> DEFINE c == Reader(p, All, s.isDependency)
<1> DEFINE q == [readers EXCEPT ![n] = s]
<1>1. n \in Nat /\ n >= 1 /\ readers \in Seq(ReaderSet)
  BY RLemma DEF OrderInv
<1>2. c \in ReaderSet /\ Ordered(c, FALSE)
  <2>1. s.isDependency \in BOOLEAN
    BY DEF ReaderSet
  <2> QED BY <2>1, NewLemma, NewOrdered
<1>3. /\ q \in Seq(ReaderSet) /\ Len(q) = n
      /\ \A i \in 1..n : q[i] = IF i = n THEN s ELSE readers[i]
  BY <1>1, ExceptSeq
<1>4. readers' = Append(q, c)
  BY DEF Nested
<1> HIDE DEF c, q
<1>5. /\ Len(readers') = n + 1 /\ readers'[n + 1] = c
      /\ \A i \in 1..n : readers'[i] = IF i = n THEN s ELSE readers[i]
  BY <1>2, <1>3, <1>4, AppendProperties
<1>6. \A i \in 1..n : i \in 1..(n - 1) \/ i = n
  BY <1>1
<1>7. (n + 1) - 1 = n
  BY <1>1
<1>8. \A i \in 1..(Len(readers') - 1) : Ordered(readers'[i], TRUE)
  BY <1>5, <1>6, <1>7 DEF OrderInv
<1>9. R' = c
  BY <1>5 DEF R
<1> QED BY <1>2, <1>8, <1>9 DEF OrderInv

-----------------------------------------------------------------------------
(* Items *)

\* The item at which readWriteFrom is called is where the reader is.
LEMMA PositionLemma ==
  ASSUME OrderInv, AtItem
  PROVE  /\ R \in ReaderSet /\ Placed(R) /\ Ordered(R, FALSE) /\ AtPlace(R) /\ ~AtArray(R)
         /\ SimpleNests(R.parcel) => Position = Where(R)
         /\ InLoops(R) <=> R.frames # <<>>
<1>1. TraversalInv /\ readers # <<>> /\ Ordered(R, FALSE)
  BY DEF OrderInv, AtItem
<1>2. R \in ReaderSet /\ Placed(R) /\ Placed(Current) /\ AtPlace(Current) /\ ~AtArray(Current)
      /\ Current.frames = R.frames /\ Current.idx = R.idx /\ Current.parcel = R.parcel
      /\ (R.frames = <<>> => Position = R.idx)
  BY <1>1, RLemma, CurrentLemma
<1>3. AtPlace(R) /\ ~AtArray(R)
  BY <1>2 DEF AtPlace, AtArray, TopOf, Size
<1>4. InLoops(R) <=> R.frames # <<>>
  BY <1>2, <1>3, PlaceLemma
<1>5. ASSUME R.frames # <<>>, SimpleNests(R.parcel)
      PROVE  Position = Where(R)
  <2>1. F = TopOf(R) /\ Position = F.at /\ Within(F)
    BY <1>3, <1>5 DEF F, TopOf, Position, InStart, AtPlace
  <2>2. InLoops(R) /\ Len(R.frames) \in Nat /\ Len(R.frames) >= 1 /\ Where(R) = Outer(R).at
    BY <1>2, <1>4, <1>5, FramesLemma DEF Where
  <2>3. CASE Len(R.frames) = 1
    BY <2>1, <2>2, <2>3 DEF TopOf, Outer
  <2>4. CASE Len(R.frames) >= 2
    <3>1. IsRange(R, Len(R.frames)) /\ Len(R.frames) \in 2..Len(R.frames)
      BY <2>1, <2>2, <2>4 DEF IsRange, Within, TopOf
    <3>2. F.begin = Outer(R).at /\ F.end = Outer(R).at + 1
      BY <1>1, <1>5, <2>1, <3>1 DEF Ordered, Nested2, TopOf
    <3>3. Outer(R).at \in Nat /\ F.at \in Outer(R).at..((Outer(R).at + 1) - 1)
      BY <1>2, <2>1, <2>2, <3>2, PlaceLemma DEF Within
    <3> QED BY <2>1, <2>2, <3>3
  <2> QED BY <2>2, <2>3, <2>4, OneOrMore
<1>6. R.frames = <<>> => Position = Where(R)
  BY <1>2, <1>4 DEF Where
<1> QED BY <1>1, <1>2, <1>3, <1>4, <1>5, <1>6

\* An item outside of loops, for a reader that is in none.
LEMMA NoLoopLemma ==
  ASSUME OrderInv, AtItem, ~HasValidLoop(Position), R.frames = <<>>, SimpleNests(R.parcel)
  PROVE  LoopsOf(R.parcel, R.idx) = {}
<1>1. R \in ReaderSet /\ Visits(R) /\ Position = R.idx
  BY PositionLemma, CurrentLemma DEF Ordered, OrderInv
<1>2. R.loopVisit = {}
  <2>1. Len(R.frames) = 0
    OBVIOUS
  <2> QED BY <1>1, <2>1 DEF Visits
<1>3. \A k \in DOMAIN items[R.parcel][R.idx].loops : FALSE
  BY <1>1, <1>2 DEF HasValidLoop, Unvisited
<1> QED BY <1>3 DEF LoopsOf

LEMMA VisitedOrdered ==
  ASSUME OrderInv, AtItem, ~HasValidLoop(Position)
  PROVE  Ordered(Visited, TRUE)
<1>1. /\ R \in ReaderSet /\ Placed(R) /\ Ordered(R, FALSE) /\ AtPlace(R) /\ ~AtArray(R)
      /\ SimpleNests(R.parcel) => Position = Where(R)
      /\ InLoops(R) <=> R.frames # <<>>
  BY PositionLemma
<1>2. /\ Visited.parcel = R.parcel /\ Visited.frames = R.frames /\ Visited.last = Position
      /\ Visited.idx = R.idx /\ Visited.loopVisit = R.loopVisit
  <2>1. /\ Current \in ReaderSet /\ Current.parcel = R.parcel /\ Current.frames = R.frames
        /\ Current.idx = R.idx /\ Current.loopVisit = R.loopVisit
    BY CurrentLemma DEF OrderInv
  <2> HIDE DEF Current
  <2> QED BY <2>1 DEF Visited, ReaderSet
<1> DEFINE v == Visited
<1> HIDE DEF v
<1> SUFFICES ASSUME SimpleNests(R.parcel)
             PROVE  /\ Visits(v) /\ Nested1(v) /\ Nested2(v) /\ Boundary(v.parcel, v.idx)
                    /\ Dealing(v) /\ Recent(v, TRUE)
  BY <1>2 DEF Ordered, v
<1>3. /\ v.parcel = R.parcel /\ v.frames = R.frames /\ v.last = Position
      /\ v.idx = R.idx /\ v.loopVisit = R.loopVisit
  BY <1>2 DEF v
<1>4. Visits(v) /\ Nested1(v) /\ Nested2(v) /\ Boundary(v.parcel, v.idx)
  <2>1. Visits(R) /\ Nested1(R) /\ Nested2(R) /\ Boundary(R.parcel, R.idx)
    BY <1>1 DEF Ordered
  <2>2. Visits(v)
    BY <1>3, <2>1 DEF Visits, IsRange
  <2>3. Nested1(v) /\ Nested2(v)
    BY <1>3, <2>1 DEF Nested1, Nested2, InLoops, IsRange, Outer
  <2> QED BY <1>3, <2>1, <2>2, <2>3
<1>5. /\ InLoops(v) <=> InLoops(R)
      /\ Outer(v) = Outer(R) /\ Where(v) = Where(R)
  BY <1>3 DEF InLoops, IsRange, Outer, Where
<1>6. Dealing(v)
  BY <1>1, <1>3, <1>5, NoLoopLemma DEF Dealing
<1>7. InLoops(v) => Outer(v).at # Check
  BY <1>1, <1>5, PlaceLemma
<1>8. Recent(v, TRUE)
  BY <1>3, <1>1, <1>5, <1>7 DEF Recent, InRound, Where
<1> QED BY <1>4, <1>6, <1>8

\* What is kept of a reader when an item is read.
LEMMA MarkedOrdered ==
  ASSUME OrderInv, AtItem, ~HasValidLoop(Position), NEW s,
         s.parcel = Visited.parcel, s.idx = Visited.idx, s.frames = Visited.frames,
         s.loopVisit = Visited.loopVisit, s.last = Visited.last
  PROVE  Ordered(s, TRUE)
BY VisitedOrdered, OrderedSame

LEMMA SkipItemOrder ==
  ASSUME OrderInv, TraversalInv', SkipItem
  PROVE  OrderInv'
<1>1. AtItem /\ ~HasValidLoop(Position) /\ SetR(Returned(Visited, 1)) /\ readers # <<>>
  BY DEF SkipItem, ReadItem, AtItem
<1>2. Visited \in ReaderSet /\ Placed(Visited) /\ AtPlace(Visited) /\ Ordered(Visited, TRUE)
  BY <1>1, VisitedLemma, VisitedOrdered DEF OrderInv
<1>3. Returned(Visited, 1) \in ReaderSet /\ Ordered(Returned(Visited, 1), FALSE)
  BY <1>2, ReturnedLemma, ReturnedOrdered
<1> QED BY <1>1, <1>3, SetROrdered

LEMMA PlainItemOrder ==
  ASSUME OrderInv, TraversalInv', PlainItem
  PROVE  OrderInv'
<1> DEFINE r == Visited
<1> DEFINE s == Value(r, Position)
<1>1. AtItem /\ ~HasValidLoop(Position) /\ SetR(Returned(s, 1)) /\ readers # <<>>
  BY DEF PlainItem, ReadItem, AtItem
<1>2. /\ r \in ReaderSet /\ Placed(r) /\ AtPlace(r) /\ ~AtArray(r) /\ Begun(r, Position)
  BY <1>1, VisitedLemma DEF OrderInv
<1>3. Position \in 1..Size(r) /\ Position \in Nat
  BY <1>2 DEF Begun
<1>4. /\ s \in ReaderSet /\ s.parcel = r.parcel /\ s.idx = r.idx /\ s.frames = r.frames
      /\ s.loopVisit = r.loopVisit /\ s.last = r.last
      /\ s.seen = r.seen \cup {Position}
      /\ s.put = IF r.isDependency THEN r.put \cup {Position} ELSE r.put
  <2> HIDE DEF r
  <2> QED BY <1>2, <1>3 DEF Value, ReaderSet
<1>5. Ordered(s, TRUE)
  BY <1>1, <1>4, MarkedOrdered
<1> HIDE DEF r, s
<1>6. Placed(s) /\ AtPlace(s)
  BY <1>2, <1>3, <1>4, PlacedSame DEF Placed
<1>7. Returned(s, 1) \in ReaderSet /\ Ordered(Returned(s, 1), FALSE)
  BY <1>4, <1>5, <1>6, ReturnedLemma, ReturnedOrdered
<1> QED BY <1>1, <1>7, SetROrdered

LEMMA StructItemOrder ==
  ASSUME OrderInv, TraversalInv', StructItem
  PROVE  OrderInv'
<1> DEFINE r == Visited
<1> DEFINE s == [r EXCEPT !.seen = @ \cup {Position}]
<1> DEFINE p == TheItem.of
<1>1. /\ AtItem /\ ~HasValidLoop(Position) /\ Nested(s, p) /\ readers # <<>>
      /\ ~TheItem.array /\ p # NoParcel
  BY DEF StructItem, ReadItem, AtItem
<1>2. r \in ReaderSet /\ Begun(r, Position) /\ r.parcel = R.parcel
  BY <1>1, VisitedLemma DEF OrderInv
<1>3. Position \in 1..Size(r) /\ Position \in Nat
  BY <1>2 DEF Begun
<1>4. p \in Parcel
  <2>1. /\ r.parcel \in Parcel /\ TheItem = items[r.parcel][Position]
        /\ items[r.parcel] \in Seq(Item) /\ Position \in 1..Len(items[r.parcel])
    BY <1>2, <1>3, ItemsLemma DEF TheItem, ReaderSet, Size
  <2>2. TheItem \in Item
    BY <2>1, ElementOfSeq
  <2> QED BY <1>1, <2>2 DEF Item
<1>5. /\ s \in ReaderSet /\ s.parcel = r.parcel /\ s.idx = r.idx /\ s.frames = r.frames
      /\ s.loopVisit = r.loopVisit /\ s.last = r.last
  <2> HIDE DEF r
  <2> QED BY <1>2, <1>3 DEF ReaderSet
<1>6. Ordered(s, TRUE)
  BY <1>1, <1>5, MarkedOrdered
<1> QED BY <1>1, <1>4, <1>5, <1>6, NestOrdered


LEMMA ArrayItemOrdered ==
  ASSUME OrderInv, TraversalInv', AtItem, ~HasValidLoop(Position),
         NEW f \in Frame, f.kind = "array", NEW e \in BOOLEAN,
         SetR(PushFrame([Visited EXCEPT !.seen = @ \cup {Position}, !.empty = e,
                                        !.isDependency = FALSE], f))
  PROVE  OrderInv'
<1> DEFINE r == Visited
<1> DEFINE i == Position
<1> DEFINE s == [r EXCEPT !.seen = @ \cup {i}, !.empty = e, !.isDependency = FALSE]
<1>1. readers # <<>> /\ SetR(PushFrame(s, f))
  BY DEF AtItem
<1>2. /\ r \in ReaderSet /\ Placed(r) /\ AtPlace(r) /\ ~AtArray(r) /\ Begun(r, i)
  BY VisitedLemma DEF OrderInv
<1>3. i \in 1..Size(r) /\ i \in Nat
  BY <1>2 DEF Begun
<1>4. /\ s \in ReaderSet /\ s.parcel = r.parcel /\ s.idx = r.idx /\ s.frames = r.frames
      /\ s.loopVisit = r.loopVisit /\ s.last = r.last
      /\ s.seen = r.seen \cup {i} /\ s.put = r.put
  <2> HIDE DEF r, i
  <2> QED BY <1>2, <1>3 DEF ReaderSet
<1>5. Ordered(s, TRUE)
  BY <1>4, MarkedOrdered
<1> HIDE DEF r, i, s
<1>6. Placed(s) /\ AtPlace(s)
  BY <1>2, <1>3, <1>4, PlacedSame DEF Placed
<1>7. PushFrame(s, f) \in ReaderSet /\ Ordered(PushFrame(s, f), FALSE)
  BY <1>4, <1>5, <1>6, PushLemma, PushArrayOrdered
<1> QED BY <1>1, <1>7, SetROrdered

LEMMA ArrayItemOrder ==
  ASSUME OrderInv, TraversalInv', ArrayItem
  PROVE  OrderInv'
<1>1. AtItem /\ ~HasValidLoop(Position)
  BY DEF ArrayItem, ReadItem
<1>2. Visited \in ReaderSet
  BY <1>1, VisitedLemma DEF OrderInv
<1>3. \A size \in 0..MaxArray : \A k \in 0..size :
        [kind |-> "array", size |-> size, chosen |-> k, at |-> 1, count |-> 0] \in Frame
  BY ParcelAssumption DEF Frame, ArrayFrame
<1>4. PICK size \in 0..MaxArray : \E k \in 0..size :
        SetR(PushFrame([Visited EXCEPT !.seen = @ \cup {Position}, !.empty = @ \/ size = 0,
                                       !.isDependency = FALSE],
                       [kind |-> "array", size |-> size, chosen |-> k, at |-> 1, count |-> 0]))
  BY DEF ArrayItem
<1>5. PICK k \in 0..size :
        SetR(PushFrame([Visited EXCEPT !.seen = @ \cup {Position}, !.empty = @ \/ size = 0,
                                       !.isDependency = FALSE],
                       [kind |-> "array", size |-> size, chosen |-> k, at |-> 1, count |-> 0]))
  BY <1>4
<1>6. (Visited.empty \/ size = 0) \in BOOLEAN
  OBVIOUS
<1> QED BY <1>1, <1>3, <1>5, <1>6, ArrayItemOrdered

-----------------------------------------------------------------------------
(* Loops *)

LEMMA RangeOrder ==
  ASSUME OrderInv, TraversalInv', readers # <<>>, InRange, F.at = Check \/ F.at >= F.end,
         NEW f \in Frame, f.kind = "range", f.begin = F.begin, f.end = F.end, f.loop = F.loop,
         f.at = Check \/ f.at = F.begin, SetR(SetFrame(R, f))
  PROVE  OrderInv'
<1>1. /\ R \in ReaderSet /\ Placed(R) /\ R.frames # <<>> /\ F = TopOf(R) /\ F.kind = "range"
  BY RangeLemma DEF OrderInv
<1>2. Ordered(R, FALSE)
  BY DEF OrderInv
<1>3. SetFrame(R, f) \in ReaderSet /\ Ordered(SetFrame(R, f), FALSE)
  BY <1>1, <1>2, SetFrameLemma, RangeOrdered
<1> QED BY <1>3, SetROrdered

LEMMA LeaveOrder ==
  ASSUME OrderInv, TraversalInv', readers # <<>>, InRange, F.at = Check \/ F.at >= F.end,
         SetR(Leave)
  PROVE  OrderInv'
<1> DEFINE q == [R EXCEPT !.loopVisit = @ \ {F.loop}]
<1> DEFINE n == F.end - F.begin
<1> DEFINE s == Returned(PopFrame(q), n)
<1>1. /\ R \in ReaderSet /\ Placed(R) /\ R.frames # <<>> /\ ~AtArray(R)
      /\ F = TopOf(R) /\ F.kind = "range" /\ RangeOK(R.parcel, F)
      /\ F.begin \in Nat /\ F.end \in Nat
  BY RangeLemma DEF OrderInv
<1>2. n \in Nat
  BY <1>1 DEF RangeOK
<1>3. s = Leave
  BY DEF Leave
<1>4. /\ q \in ReaderSet /\ Kept(q, R) /\ q.idx = R.idx /\ q.frames = R.frames
      /\ q.loopVisit = R.loopVisit \ {F.loop}
  BY <1>1 DEF ReaderSet, Kept
<1>5. Ordered(R, FALSE)
  BY DEF OrderInv
<1> HIDE DEF q
<1>6. Placed(q) /\ q.frames # <<>>
  BY <1>1, <1>4, PlacedSame DEF Placed, Kept
<1>7. Ordered(s, FALSE)
  BY <1>1, <1>2, <1>4, <1>5, LeaveOrdered
<1>8. s \in ReaderSet
  <2>1. PopFrame(q) \in ReaderSet /\ Placed(PopFrame(q)) /\ AtPlace(PopFrame(q))
    BY <1>4, <1>6, PopLemma, PlacedPop
  <2> QED BY <1>2, <2>1, ReturnedLemma
<1> QED BY <1>3, <1>7, <1>8, SetROrdered

LEMMA IterateOrder ==
  ASSUME OrderInv, TraversalInv', Iterate
  PROVE  OrderInv'
<1> DEFINE f == [F EXCEPT !.at = F.begin]
<1>1. readers # <<>> /\ InRange /\ SetR(SetFrame(R, f)) /\ F.at = Check
  BY DEF Iterate
<1>2. F \in Frame /\ F.kind = "range" /\ F.begin \in Nat
  BY <1>1, RangeLemma DEF OrderInv
<1>3. /\ f \in Frame /\ f.kind = "range" /\ f.begin = F.begin /\ f.end = F.end
      /\ f.loop = F.loop /\ f.at = F.begin
  BY <1>2, FrameLemma
<1> HIDE DEF f
<1> QED BY <1>1, <1>3, RangeOrder

LEMMA LeaveLoopOrder ==
  ASSUME OrderInv, TraversalInv', LeaveLoop
  PROVE  OrderInv'
BY LeaveOrder DEF LeaveLoop

LEMMA NextIterationOrder ==
  ASSUME OrderInv, TraversalInv', NextIteration
  PROVE  OrderInv'
<1> DEFINE f == [F EXCEPT !.at = Check, !.count = @ + 1]
<1>1. /\ readers # <<>> /\ InRange /\ F.at >= F.end
      /\ SetR(Leave) \/ SetR(SetFrame(R, f))
  BY DEF NextIteration
<1>2. F \in Frame /\ F.kind = "range"
  BY <1>1, RangeLemma DEF OrderInv
<1>3. /\ f \in Frame /\ f.kind = "range" /\ f.begin = F.begin /\ f.end = F.end
      /\ f.loop = F.loop /\ f.at = Check
  <2>1. F \in RangeFrame
    BY <1>2 DEF Frame, RangeFrame, ArrayFrame
  <2> DEFINE g == [F EXCEPT !.at = Check]
  <2>2. /\ g \in RangeFrame /\ g.kind = "range" /\ g.begin = F.begin /\ g.end = F.end
        /\ g.loop = F.loop /\ g.at = Check /\ g.count + 1 \in Nat
    BY <2>1 DEF RangeFrame, Check
  <2>3. f = [g EXCEPT !.count = g.count + 1]
    BY <2>1 DEF RangeFrame
  <2> HIDE DEF g, f
  <2> QED BY <2>2, <2>3 DEF Frame, RangeFrame
<1> HIDE DEF f
<1>4. CASE SetR(Leave)
  BY <1>1, <1>4, LeaveOrder
<1>5. CASE SetR(SetFrame(R, f))
  BY <1>1, <1>3, <1>5, RangeOrder
<1> QED BY <1>1, <1>4, <1>5

-----------------------------------------------------------------------------
(* Elements of arrays *)

LEMMA ElementSet ==
  ASSUME NEW r \in ReaderSet, Placed(r), AtArray(r)
  PROVE  ElementDone(r) \in ReaderSet
<1>1. r.frames # <<>>
  BY DEF AtArray
<1>2. CASE r.isDependency
  <2>1. PopFrame(r) \in ReaderSet /\ Placed(PopFrame(r)) /\ AtPlace(PopFrame(r))
    BY <1>1, PopLemma, PlacedPop
  <2> QED BY <1>2, <2>1, ReturnedLemma DEF ElementDone
<1>3. CASE ~r.isDependency
  <2>1. ElementDone(r) = SetFrame(r, Stepped(r)) /\ Stepped(r) \in Frame
    BY <1>1, <1>3, SteppedLemma DEF ElementDone
  <2> QED BY <1>1, <2>1, SetFrameLemma
<1> QED BY <1>2, <1>3

LEMMA RecoveredOrdered ==
  ASSUME OrderInv, readers # <<>>, InArray
  PROVE  Ordered(Recovered, FALSE) /\ AtArray(Recovered)
<1>1. AtArray(Recovered) /\ R \in ReaderSet /\ Ordered(R, FALSE)
  BY RecoveredLemma, ArrayLemma DEF OrderInv
<1>2. /\ Recovered.parcel = R.parcel /\ Recovered.idx = R.idx /\ Recovered.frames = R.frames
      /\ Recovered.loopVisit = R.loopVisit /\ Recovered.last = R.last
  BY <1>1 DEF Recovered, ReaderSet
<1> QED BY <1>1, <1>2, OrderedSame

LEMMA SkipElementOrder ==
  ASSUME OrderInv, TraversalInv', SkipElement
  PROVE  OrderInv'
<1>1. readers # <<>> /\ InArray /\ SetR(ElementDone(Recovered))
  BY DEF SkipElement, ReadElement
<1>2. /\ Recovered \in ReaderSet /\ Placed(Recovered) /\ AtArray(Recovered)
      /\ Element(Recovered) /\ Ordered(Recovered, FALSE)
  BY <1>1, RecoveredLemma, RecoveredOrdered DEF OrderInv
<1>3. ElementDone(Recovered) \in ReaderSet /\ Ordered(ElementDone(Recovered), FALSE)
  BY <1>2, ElementLemma, ElementOrdered
<1> QED BY <1>1, <1>3, SetROrdered


LEMMA PlainElementOrder ==
  ASSUME OrderInv, TraversalInv', PlainElement
  PROVE  OrderInv'
<1> DEFINE r == Recovered
<1> DEFINE i == R.last
<1> DEFINE s == Value(r, i)
<1>1. readers # <<>> /\ InArray /\ SetR(ElementDone(s))
  BY DEF PlainElement, ReadElement
<1>2. /\ r \in ReaderSet /\ Placed(r) /\ AtArray(r) /\ Element(r) /\ Ordered(r, FALSE)
      /\ i \in r.seen /\ i \in 1..Size(R)
  BY <1>1, RecoveredLemma, ArrayLemma, RecoveredOrdered DEF OrderInv
<1>3. i \in Nat
  BY <1>2
<1> HIDE DEF r, i
<1>4. /\ s \in ReaderSet /\ s.parcel = r.parcel /\ s.idx = r.idx /\ s.frames = r.frames
      /\ s.last = r.last /\ s.loopVisit = r.loopVisit /\ s.isDependency = r.isDependency
      /\ s.seen = r.seen
      /\ s.put = IF r.isDependency THEN r.put \cup {i} ELSE r.put
  BY <1>2, <1>3 DEF Value, ReaderSet
<1> HIDE DEF s
<1>5. Placed(s) /\ AtArray(s)
  BY <1>2, <1>4, PlacedSame DEF Placed
<1>6. Ordered(s, FALSE)
  BY <1>2, <1>4, OrderedSame
<1>7. ElementDone(s) \in ReaderSet /\ Ordered(ElementDone(s), FALSE)
  BY <1>4, <1>5, <1>6, ElementSet, ElementOrdered
<1> QED BY <1>1, <1>7, SetROrdered

LEMMA StructElementOrder ==
  ASSUME OrderInv, TraversalInv', StructElement
  PROVE  OrderInv'
<1> DEFINE s == Recovered
<1> DEFINE p == TheArray.of
<1>1. readers # <<>> /\ InArray /\ Nested(s, p) /\ p # NoParcel
  BY DEF StructElement, ReadElement
<1>2. s \in ReaderSet /\ AtArray(s) /\ Ordered(s, FALSE)
  BY <1>1, RecoveredLemma, RecoveredOrdered DEF OrderInv
<1>3. p \in Parcel
  <2>1. /\ R.parcel \in Parcel /\ TheArray = items[R.parcel][R.last]
        /\ items[R.parcel] \in Seq(Item) /\ R.last \in 1..Len(items[R.parcel])
    BY <1>1, ArrayLemma, ItemsLemma DEF TheArray, ReaderSet, Size, OrderInv
  <2>2. TheArray \in Item
    BY <2>1, ElementOfSeq
  <2> QED BY <1>1, <2>2 DEF Item
<1> HIDE DEF s, p
<1>4. Ordered(s, TRUE)
  BY <1>2 DEF Ordered, Recent, InRound
<1> QED BY <1>1, <1>2, <1>3, <1>4, NestOrdered

LEMMA LeaveArrayOrder ==
  ASSUME OrderInv, TraversalInv', LeaveArray
  PROVE  OrderInv'
<1> DEFINE p == PopFrame(R)
<1>1. readers # <<>> /\ InArray /\ SetR(Returned(p, 1))
  BY DEF LeaveArray
<1>2. R \in ReaderSet /\ Placed(R) /\ AtArray(R) /\ R.frames # <<>> /\ Ordered(R, FALSE)
  BY <1>1, ArrayLemma DEF OrderInv
<1>3. p \in ReaderSet /\ Placed(p) /\ AtPlace(p) /\ Ordered(p, TRUE)
  BY <1>2, PopLemma, PlacedPop, PopOrdered
<1> HIDE DEF p
<1>4. Returned(p, 1) \in ReaderSet /\ Ordered(Returned(p, 1), FALSE)
  BY <1>3, ReturnedLemma, ReturnedOrdered
<1> QED BY <1>1, <1>4, SetROrdered

-----------------------------------------------------------------------------
(* The return of a reader *)

LEMMA ReturnOrder ==
  ASSUME OrderInv, TraversalInv', Return
  PROVE  OrderInv'
<1> DEFINE n == Len(readers) - 1
<1> DEFINE q == readers[n]
<1> DEFINE r == [q EXCEPT !.put = IF R.put # {} THEN @ \cup {q.last} ELSE @]
<1> DEFINE s == IF r.frames # <<>> /\ r.frames[Len(r.frames)].kind = "array"
                THEN ElementDone(r) ELSE Returned(r, 1)
<1>1. /\ readers # <<>>
      /\ n = 0 => readers' = <<>>
      /\ n # 0 => readers' = Append(SubSeq(readers, 1, n - 1), s)
  BY DEF Return
<1>2. /\ readers \in Seq(ReaderSet) /\ Len(readers) \in Nat /\ Len(readers) >= 1
      /\ TraversalInv
  BY <1>1, RLemma DEF OrderInv
<1>3. CASE n = 0
  <2>1. readers' = <<>> /\ Len(readers') = 0
    BY <1>1, <1>3
  <2> QED BY <2>1 DEF OrderInv
<1>4. CASE n # 0
  <2> DEFINE m == n - 1
  <2>1. /\ n \in Nat /\ m \in Nat /\ m + 1 = n /\ m < Len(readers)
        /\ n \in 1..Len(readers) /\ n \in 1..(Len(readers) - 1)
    <3>1. \A k \in Nat : k >= 1 /\ k - 1 # 0 =>
            /\ k - 1 \in Nat /\ (k - 1) - 1 \in Nat /\ ((k - 1) - 1) + 1 = k - 1
            /\ k - 1 \in 1..k /\ k - 1 \in 1..(k - 1) /\ (k - 1) - 1 < k
      OBVIOUS
    <3> QED BY <1>2, <1>4, <3>1
  <2>2. readers' = Append(SubSeq(readers, 1, m), s)
    BY <1>1, <1>4
  <2>3. q \in ReaderSet /\ Placed(q) /\ Waiting(q) /\ Ordered(q, TRUE)
    <3>1. q \in ReaderSet
      BY <1>2, <2>1, ElementOfSeq
    <3>2. Placed(q) /\ Waiting(q) /\ Ordered(q, TRUE)
      BY <1>2, <2>1 DEF TraversalInv, Structure, OrderInv
    <3> QED BY <3>1, <3>2
  <2> HIDE DEF n, q
  <2>4. /\ r \in ReaderSet /\ r.parcel = q.parcel /\ r.idx = q.idx /\ r.frames = q.frames
        /\ r.loopVisit = q.loopVisit /\ r.last = q.last /\ r.seen = q.seen
        /\ r.put = IF R.put # {} THEN q.put \cup {q.last} ELSE q.put
    BY <2>3 DEF ReaderSet
  <2> HIDE DEF r
  <2>5. r.put \subseteq r.seen
    BY <2>3, <2>4 DEF Waiting, Placed
  <2>6. /\ Placed(r) /\ (AtPlace(r) <=> AtPlace(q)) /\ (AtArray(r) <=> AtArray(q))
        /\ Ordered(r, TRUE)
    BY <2>3, <2>4, <2>5, PlacedSame, OrderedSame DEF Placed
  <2>7. s \in ReaderSet /\ Ordered(s, FALSE)
    <3>1. CASE AtArray(r)
      <4>1. s = ElementDone(r)
        BY <3>1 DEF AtArray, TopOf
      <4> QED BY <2>4, <2>6, <3>1, <4>1, ElementSet, ElementOrdered
    <3>2. CASE ~AtArray(r)
      <4>1. s = Returned(r, 1) /\ AtPlace(r)
        BY <2>3, <2>6, <3>2 DEF AtArray, TopOf, Waiting
      <4> QED BY <2>4, <2>6, <4>1, ReturnedLemma, ReturnedOrdered
    <3> QED BY <3>1, <3>2
  <2> HIDE DEF s
  <2> DEFINE cut == SubSeq(readers, 1, m)
  <2>8. cut \in Seq(ReaderSet) /\ Len(cut) = m /\ \A i \in 1..m : cut[i] = readers[i]
    <3>1. \A i \in 1..m : i \in 1..Len(readers)
      BY <1>2, <2>1
    <3>2. \A i \in 1..m : readers[i] \in ReaderSet
      BY <1>2, <3>1, ElementOfSeq
    <3> HIDE DEF m
    <3> QED BY <1>2, <2>1, <3>2, SubSeqProperties
  <2> HIDE DEF m, cut
  <2>9. /\ Len(readers') = m + 1
        /\ \A i \in 1..m : readers'[i] = readers[i]
        /\ readers'[m + 1] = s
    BY <2>1, <2>2, <2>7, <2>8, AppendProperties DEF cut
  <2> QED BY <2>1, <2>7, <2>9, StackOrdered
<1> QED BY <1>3, <1>4


-----------------------------------------------------------------------------
(* Entering a loop *)

\* When no loop is being visited, the outermost one of the item is entered.
LEMMA OutermostLoop ==
  ASSUME R.parcel \in Parcel, R.loopVisit = {}, NEW i \in 1..Size(R),
         LoopsOf(R.parcel, i) # {}
  PROVE  HasValidLoop(i) /\ ValidLoop(i) = items[R.parcel][i].loops[1]
<1> DEFINE loops == items[R.parcel][i].loops
<1>1. DOMAIN loops = 1..Len(loops) /\ loops \in Seq(Loop)
  BY LoopsLemma DEF Size
<1>2. Len(loops) \in Nat
  BY <1>1, LenProperties
<1>3. Unvisited(i) = 1..Len(loops)
  BY <1>1 DEF Unvisited
<1>4. Len(loops) >= 1
  BY <1>1, <1>2 DEF LoopsOf
<1>5. HasValidLoop(i)
  BY <1>2, <1>3, <1>4 DEF HasValidLoop
<1> DEFINE first == CHOOSE k \in Unvisited(i) : \A m \in Unvisited(i) : k <= m
<1>6. ValidLoop(i) = loops[first]
  BY DEF ValidLoop
<1>7. first \in Unvisited(i) /\ \A m \in Unvisited(i) : first <= m
  <2>1. 1 \in Unvisited(i) /\ \A m \in Unvisited(i) : 1 <= m
    BY <1>2, <1>3, <1>4
  <2>2. \E k \in Unvisited(i) : \A m \in Unvisited(i) : k <= m
    BY <2>1
  <2> HIDE DEF loops
  <2> QED BY <2>2
<1> HIDE DEF first
<1>8. first = 1
  BY <1>2, <1>3, <1>4, <1>7
<1> QED BY <1>5, <1>6, <1>8

\* All items of a loop that is the outermost one of an item have it as that.
LEMMA FirstLoop ==
  ASSUME NEW p \in Parcel, NEW l \in Loop, NEW i \in InLoop(p, l), NEW j \in InLoop(p, l),
         items[p][i].loops[1] = l
  PROVE  items[p][j].loops[1] = l
<1>1. PICK k \in DOMAIN items[p][i].loops \cap DOMAIN items[p][j].loops :
        \A m \in 1..k : items[p][i].loops[m] = items[p][j].loops[m]
  BY LoopAssumption
<1>2. i \in 1..Len(items[p])
  BY Adjacent
<1>3. items[p][i].loops \in Seq(Loop) /\ DOMAIN items[p][i].loops = 1..Len(items[p][i].loops)
  BY <1>2, LoopsLemma
<1>4. Len(items[p][i].loops) \in Nat
  BY <1>3, LenProperties
<1>5. k \in 1..Len(items[p][i].loops)
  BY <1>1, <1>3
<1>6. 1 \in 1..k
  BY <1>4, <1>5
<1> QED BY <1>1, <1>6

LEMMA EnterOutermost ==
  ASSUME OrderInv, AtItem, R.frames = <<>>, SimpleNests(R.parcel),
         NEW l \in LoopsOf(R.parcel, R.idx), l \in Loop, l = ValidLoop(R.idx),
         NEW end \in Nat, R.idx < end, end <= Size(R) + 1,
         \A j \in R.idx..(end - 1) : l \in LoopsOf(R.parcel, j),
         end <= Size(R) => ~(HasValidLoop(end) /\ ValidLoop(end) = l)
  PROVE  /\ InLoop(R.parcel, l) = R.idx..(end - 1)
         /\ \A j \in R.idx..(end - 1) : items[R.parcel][j].loops[1] = l
<1> DEFINE p == R.parcel
<1> DEFINE i == R.idx
<1>1. /\ R \in ReaderSet /\ Visits(R) /\ Boundary(p, i) /\ Placed(R) /\ AtPlace(R)
  BY PositionLemma DEF Ordered
<1>2. p \in Parcel /\ i \in Nat /\ Size(R) \in Nat /\ i \in 1..Size(R)
  BY <1>1, PlaceLemma DEF AtPlace
<1>3. R.loopVisit = {}
  <2>1. Len(R.frames) = 0
    OBVIOUS
  <2> QED BY <1>1, <2>1 DEF Visits
<1>4. items[p][i].loops[1] = l /\ i \in InLoop(p, l)
  BY <1>2, <1>3, OutermostLoop, LoopsLemma DEF Size
<1>5. i..(end - 1) \subseteq InLoop(p, l)
  <2>1. \A j \in i..(end - 1) : j \in 1..Len(items[p])
    BY <1>2 DEF Size
  <2> QED BY <1>2, <2>1, LoopsLemma
<1>6. \A j \in InLoop(p, l) : j \in i..(end - 1)
  <2> SUFFICES ASSUME NEW j \in InLoop(p, l) PROVE j \in i..(end - 1)
    OBVIOUS
  <2>1. j \in 1..Len(items[p]) /\ j \in Nat
    BY <1>2, Adjacent, ItemsLemma
  <2>2. ~(j < i)
    BY <1>1, <1>2, <1>4, NoLoopAcross
  <2>3. ~(j >= end)
    <3> SUFFICES ASSUME j >= end PROVE FALSE
      OBVIOUS
    <3>1. end \in i..j /\ end <= Size(R) /\ end \in 1..Size(R)
      BY <1>2, <2>1 DEF Size
    <3>2. end \in InLoop(p, l)
      BY <1>2, <1>4, <3>1, Adjacent
    <3>3. items[p][end].loops[1] = l
      BY <1>2, <1>4, <3>2, FirstLoop
    <3>4. LoopsOf(p, end) # {}
      BY <1>2, <3>1, <3>2, LoopsLemma DEF Size
    <3> QED BY <1>2, <1>3, <3>1, <3>3, <3>4, OutermostLoop
  <2> QED BY <1>2, <2>1, <2>2, <2>3
<1>7. \A j \in i..(end - 1) : items[p][j].loops[1] = l
  BY <1>2, <1>4, <1>5, FirstLoop
<1> QED BY <1>5, <1>6, <1>7

LEMMA EnterInner ==
  ASSUME OrderInv, AtItem, R.frames # <<>>, SimpleNests(R.parcel),
         NEW i, i = Position, NEW l \in LoopsOf(R.parcel, i), l \in Loop, l \notin R.loopVisit,
         NEW end \in Nat, i < end, end <= Size(R) + 1,
         \A j \in i..(end - 1) : l \in LoopsOf(R.parcel, j)
  PROVE  end = i + 1 /\ InLoop(R.parcel, l) = {i}
<1> DEFINE p == R.parcel
<1>1. /\ R \in ReaderSet /\ Placed(R) /\ AtPlace(R) /\ InLoops(R) /\ i = Outer(R).at
      /\ Visits(R) /\ Nested1(R)
  BY PositionLemma DEF Ordered, Where
<1>2. /\ Outer(R).at \in Outer(R).begin..(Outer(R).end - 1)
      /\ Outer(R).begin \in Nat /\ Outer(R).end \in Nat /\ Outer(R).end <= Size(R) + 1
      /\ Outer(R).begin = R.idx /\ R.idx >= 1 /\ p \in Parcel /\ Size(R) \in Nat
  BY <1>1, PlaceLemma
<1>3. items[p][i].loops[1] = Outer(R).loop
  BY <1>1, <1>2 DEF Nested1
<1>4. Outer(R).loop \in R.loopVisit
  BY <1>1 DEF Visits, InLoops, IsRange, Outer
<1>5. i \in 1..Len(items[p]) /\ i \in Nat
  BY <1>1, <1>2 DEF Size
<1>6. InLoop(p, l) = {i}
  BY <1>2, <1>3, <1>4, <1>5, OuterOrAlone
<1>7. end = i + 1
  <2> SUFFICES ASSUME end # i + 1 PROVE FALSE
    OBVIOUS
  <2>1. i + 1 \in i..(end - 1)
    BY <1>5
  <2>2. l \in LoopsOf(p, i + 1)
    BY <2>1
  <2>3. i + 1 \in 1..Len(items[p])
    BY <1>2, <1>5, <2>1 DEF Size
  <2>4. i + 1 \in InLoop(p, l)
    BY <1>2, <2>2, <2>3, LoopsLemma
  <2> QED BY <1>5, <1>6, <2>4
<1> QED BY <1>6, <1>7

LEMMA EnterLoopOrder ==
  ASSUME OrderInv, TraversalInv', EnterLoop
  PROVE  OrderInv'
<1> DEFINE i == Position
<1> DEFINE l == ValidLoop(i)
<1> DEFINE c == Current
<1>1. TraversalInv /\ AtItem
  BY DEF OrderInv, EnterLoop
<1>2. l \in LoopsOf(R.parcel, i) /\ l \in Loop /\ l \notin R.loopVisit
  BY <1>1, EnterLemma
<1>3. PICK end \in Nat :
        /\ i < end /\ end <= Size(R) + 1
        /\ \A j \in i..(end - 1) : l \in LoopsOf(R.parcel, j)
        /\ end <= Size(R) => ~(HasValidLoop(end) /\ ValidLoop(end) = l)
        /\ SetR(PushFrame([c EXCEPT !.loopVisit = @ \cup {l}],
                          [kind |-> "range", begin |-> i, end |-> end,
                           loop |-> l, at |-> Check, count |-> 0]))
  BY <1>1, EnterLemma
<1> DEFINE f == [kind |-> "range", begin |-> i, end |-> end, loop |-> l, at |-> Check, count |-> 0]
<1> DEFINE q == [c EXCEPT !.loopVisit = @ \cup {l}]
<1>4. /\ c \in ReaderSet /\ Placed(c) /\ AtPlace(c)
      /\ c.parcel = R.parcel /\ c.idx = R.idx /\ c.frames = R.frames
      /\ c.loopVisit = R.loopVisit /\ c.last = R.last
      /\ readers # <<>> /\ i \in 1..Size(R) /\ (R.frames = <<>> => i = R.idx)
  BY <1>1, CurrentLemma
<1>5. Ordered(c, FALSE) /\ (SimpleNests(R.parcel) => i = Where(R))
  BY <1>1, <1>4, PositionLemma, OrderedSame
<1>6. Where(c) = Where(R)
  BY <1>4 DEF Where, InLoops, Outer, IsRange
<1>7. SimpleNests(R.parcel) =>
        IF R.frames = <<>>
        THEN /\ InLoop(R.parcel, l) = i..(end - 1)
             /\ \A j \in i..(end - 1) : items[R.parcel][j].loops[1] = l
        ELSE end = i + 1 /\ InLoop(R.parcel, l) = {i}
  <2> SUFFICES ASSUME SimpleNests(R.parcel)
               PROVE  IF R.frames = <<>>
                      THEN /\ InLoop(R.parcel, l) = i..(end - 1)
                           /\ \A j \in i..(end - 1) : items[R.parcel][j].loops[1] = l
                      ELSE end = i + 1 /\ InLoop(R.parcel, l) = {i}
    OBVIOUS
  <2>1. CASE R.frames = <<>>
    <3>1. i = R.idx
      BY <1>4, <2>1
    <3> QED BY <1>1, <1>2, <1>3, <2>1, <3>1, EnterOutermost
  <2>2. CASE R.frames # <<>>
    <3> HIDE DEF l
    <3> QED BY <1>1, <1>2, <1>3, <2>2, EnterInner
  <2> QED BY <2>1, <2>2
<1>8. SetR(PushFrame(q, f))
  BY <1>3
<1>9. /\ f \in Frame /\ f.kind = "range" /\ f.at = Check /\ f.begin = i /\ f.end = end
      /\ f.loop = l
  <2>1. i \in Nat /\ Check \in Nat
    BY <1>4 DEF Check
  <2> HIDE DEF l, i
  <2> QED BY <1>2, <2>1 DEF Frame, RangeFrame
<1>10. q = [c EXCEPT !.loopVisit = @ \cup {f.loop}]
  BY <1>9
<1> HIDE DEF f, c, l, i
<1>11. q \in ReaderSet /\ q.parcel = R.parcel
  BY <1>2, <1>4 DEF ReaderSet
<1>12. PushFrame(q, f) \in ReaderSet /\ PushFrame(q, f).parcel = R.parcel
  BY <1>9, <1>11, PushLemma DEF Kept
<1>13. Ordered(PushFrame(q, f), FALSE)
  <2>1. CASE SimpleNests(R.parcel)
    BY <1>2, <1>4, <1>5, <1>6, <1>7, <1>9, <1>10, <2>1, EnterOrdered
  <2>2. CASE ~SimpleNests(R.parcel)
    BY <1>12, <2>2 DEF Ordered
  <2> QED BY <2>1, <2>2
<1> QED BY <1>4, <1>8, <1>12, <1>13, SetROrdered

-----------------------------------------------------------------------------
(* The invariant *)

LEMMA InitOrder ==
  ASSUME Init
  PROVE  OrderInv
<1>1. TraversalInv
  BY InitLemma
<1>2. PICK p \in Parcel : \E d : readers = <<Reader(p, d, FALSE)>>
  BY ParcelAssumption DEF Init
<1>3. PICK d : readers = <<Reader(p, d, FALSE)>>
  BY <1>2
<1>4. Len(readers) = 1 /\ R = Reader(p, d, FALSE)
  BY <1>3 DEF R
<1>5. Ordered(R, FALSE)
  BY <1>4, NewOrdered
<1>6. \A i \in 1..(Len(readers) - 1) : FALSE
  BY <1>4
<1> QED BY <1>1, <1>5, <1>6 DEF OrderInv

LEMMA OrderStep ==
  ASSUME OrderInv, [Next]_vars
  PROVE  OrderInv'
<1>1. TraversalInv'
  BY StepLemma DEF OrderInv
<1>2. CASE EnterLoop     BY <1>1, <1>2, EnterLoopOrder
<1>3. CASE Iterate       BY <1>1, <1>3, IterateOrder
<1>4. CASE LeaveLoop     BY <1>1, <1>4, LeaveLoopOrder
<1>5. CASE NextIteration BY <1>1, <1>5, NextIterationOrder
<1>6. CASE SkipItem      BY <1>1, <1>6, SkipItemOrder
<1>7. CASE PlainItem     BY <1>1, <1>7, PlainItemOrder
<1>8. CASE StructItem    BY <1>1, <1>8, StructItemOrder
<1>9. CASE ArrayItem     BY <1>1, <1>9, ArrayItemOrder
<1>10. CASE SkipElement   BY <1>1, <1>10, SkipElementOrder
<1>11. CASE PlainElement  BY <1>1, <1>11, PlainElementOrder
<1>12. CASE StructElement BY <1>1, <1>12, StructElementOrder
<1>13. CASE LeaveArray    BY <1>1, <1>13, LeaveArrayOrder
<1>14. CASE Return        BY <1>1, <1>14, ReturnOrder
<1>15. CASE UNCHANGED vars
  <2>1. readers' = readers
    BY <1>15 DEF vars
  <2> QED BY <1>1, <2>1 DEF OrderInv, R
<1> QED BY <1>2, <1>3, <1>4, <1>5, <1>6, <1>7, <1>8, <1>9, <1>10, <1>11, <1>12, <1>13, <1>14, <1>15
     DEF Next

\* Every reader passes over items only when they are in loops that are not
\* entered, and leaves a loop where it ends (readWriteFrom, readWriteRange).
THEOREM ReadersOrdered == Spec => []OrderInv
<1>1. Init => OrderInv
  BY InitOrder
<1>2. OrderInv /\ [Next]_vars => OrderInv'
  BY OrderStep
<1> QED BY <1>1, <1>2, PTL DEF Spec


-----------------------------------------------------------------------------
(* The order of the items *)

LEMMA AloneOver ==
  ASSUME NEW p, NEW S, \A k \in S : Alone(p, k), NEW i, i \notin S
  PROVE  PassedOver(p, S, i)
<1> SUFFICES ASSUME NEW k \in S PROVE \E l \in LoopsOf(p, k) : i \notin InLoop(p, l)
  BY DEF PassedOver
<1>1. PICK l \in LoopsOf(p, k) : InLoop(p, l) = {k}
  BY DEF Alone
<1> QED BY <1>1

LEMMA PassedBoth ==
  ASSUME NEW p, NEW S, NEW T, NEW i, PassedOver(p, S, i), PassedOver(p, T, i)
  PROVE  PassedOver(p, S \cup T, i)
BY DEF PassedOver

\* Outside of loops, the item is behind the last one and what has been passed over.
LEMMA FollowsOutside ==
  ASSUME OrderInv, AtItem, ~HasValidLoop(Position), SimpleNests(R.parcel), R.frames = <<>>
  PROVE  Follows(R.parcel, R.last, Position)
<1>1. /\ R \in ReaderSet /\ Placed(R) /\ AtPlace(R) /\ ~AtArray(R) /\ ~InLoops(R)
      /\ Position = R.idx /\ Boundary(R.parcel, R.idx) /\ Recent(R, FALSE)
  BY PositionLemma DEF Ordered, Where
<1>2. R.last < R.idx /\ PassedOver(R.parcel, (R.last + 1)..(R.idx - 1), R.last)
  BY <1>1 DEF Recent
<1>3. /\ R.parcel \in Parcel /\ R.last \in Nat /\ R.idx \in Nat /\ Size(R) \in Nat
      /\ R.idx <= Size(R) + 1
  BY <1>1, PlaceLemma
<1>4. R.idx - 1 <= Len(items[R.parcel]) /\ R.idx <= R.idx
  BY <1>3 DEF Size
<1>5. PassedOver(R.parcel, (R.last + 1)..(R.idx - 1), R.idx)
  BY <1>1, <1>2, <1>3, <1>4, PassedBehind
<1> QED BY <1>1, <1>2, <1>5 DEF Follows

\* In a loop, it is behind it in the same iteration, or at it again in an inner
\* loop, or the first one of the iteration.
LEMMA FollowsInside ==
  ASSUME OrderInv, AtItem, ~HasValidLoop(Position), SimpleNests(R.parcel), R.frames # <<>>
  PROVE  Follows(R.parcel, R.last, Position)
<1> DEFINE p == R.parcel
<1> DEFINE f == Outer(R)
<1> DEFINE i == R.last
<1> DEFINE j == Position
<1>1. /\ R \in ReaderSet /\ Placed(R) /\ AtPlace(R) /\ InLoops(R) /\ j = f.at
      /\ Nested1(R) /\ Nested2(R) /\ Boundary(p, R.idx) /\ Recent(R, FALSE)
  BY PositionLemma DEF Ordered, Where
<1>2. /\ p \in Parcel /\ i \in Nat /\ R.idx \in Nat /\ Size(R) \in Nat /\ R.idx <= Size(R) + 1
      /\ f.begin \in Nat /\ f.end \in Nat /\ f.loop \in Loop /\ j \in f.begin..(f.end - 1)
      /\ f.begin = R.idx /\ R.idx >= 1 /\ Check = 0
  BY <1>1, PlaceLemma
<1>3. j \in Nat /\ f.at # Check
  BY <1>1, <1>2
<1>4. InRound(R, FALSE)
  BY <1>1, <1>3 DEF Recent
<1>5. CASE R.last = f.at /\ Len(R.frames) >= 2
  <2> DEFINE n == Len(R.frames)
  <2>1. IsRange(R, n) /\ n \in 2..n /\ n \in Nat /\ R.frames[n].loop \in Loop
    <3>1. n \in Nat /\ R.frames[n] \in Frame /\ R.frames[n].kind = "range"
      BY <1>1, FramesLemma DEF AtPlace, TopOf, Within
    <3> QED BY <1>5, <3>1, FrameKind DEF IsRange
  <2>2. InLoop(p, R.frames[n].loop) = {j}
    BY <1>1, <2>1 DEF Nested2
  <2>3. /\ {k \in {j} : k > i} = {} /\ {k \in {j} : k < j} = {} /\ i = j
    BY <1>1, <1>3, <1>5
  <2> QED BY <2>1, <2>2, <2>3 DEF Follows, PassedOver
<1>6. CASE R.last \in f.begin..(f.at - 1) /\ \A k \in (R.last + 1)..(f.at - 1) : Alone(p, k)
  <2>1. i < j /\ i \notin (i + 1)..(j - 1) /\ j \notin (i + 1)..(j - 1)
    BY <1>1, <1>2, <1>3, <1>6
  <2>2. \A k \in (i + 1)..(j - 1) : Alone(p, k)
    BY <1>1, <1>6
  <2> HIDE DEF j, p, i
  <2>3. PassedOver(p, (i + 1)..(j - 1), i) /\ PassedOver(p, (i + 1)..(j - 1), j)
    BY <2>1, <2>2, AloneOver
  <2> QED BY <2>1, <2>3 DEF Follows, p, i, j
<1>7. CASE /\ \A k \in f.begin..(f.at - 1) : Alone(p, k)
           /\ i < f.begin /\ PassedOver(p, (i + 1)..(f.begin - 1), i)
  <2> DEFINE b == f.begin
  <2>1. /\ i < j /\ i \notin b..(j - 1) /\ j \notin b..(j - 1) /\ b <= j /\ b - 1 <= Size(R)
        /\ (i + 1)..(j - 1) = ((i + 1)..(b - 1)) \cup (b..(j - 1))
    BY <1>2, <1>3, <1>7
  <2>2. \A k \in b..(j - 1) : Alone(p, k)
    BY <1>1, <1>7
  <2>3. Boundary(p, b) /\ PassedOver(p, (i + 1)..(b - 1), i) /\ b - 1 <= Len(items[p])
    BY <1>1, <1>2, <1>7, <2>1 DEF Size
  <2>4. b \in Nat /\ p \in Parcel /\ i \in Nat /\ j \in Nat
    BY <1>2, <1>3
  <2> HIDE DEF j, p, i, b
  <2>5. PassedOver(p, (i + 1)..(b - 1), j)
    BY <2>1, <2>3, <2>4, PassedBehind
  <2>6. PassedOver(p, b..(j - 1), i) /\ PassedOver(p, b..(j - 1), j)
    BY <2>1, <2>2, AloneOver
  <2>7. PassedOver(p, (i + 1)..(j - 1), i) /\ PassedOver(p, (i + 1)..(j - 1), j)
    <3> DEFINE U == ((i + 1)..(b - 1)) \cup (b..(j - 1))
    <3>1. (i + 1)..(j - 1) = U
      BY <2>1
    <3>2. PassedOver(p, U, i) /\ PassedOver(p, U, j)
      BY <2>3, <2>5, <2>6, PassedBoth
    <3> HIDE DEF U
    <3> QED BY <3>1, <3>2
  <2> QED BY <2>1, <2>7 DEF Follows, p, i, j
<1>8. CASE /\ \A k \in f.begin..(f.at - 1) : Alone(p, k)
           /\ i \in f.begin..(f.end - 1)
           /\ \A k \in (i + 1)..(f.end - 1) : Alone(p, k)
  <2> DEFINE l == f.loop
  <2>1. InLoop(p, l) = f.begin..(f.end - 1)
    BY <1>1 DEF Nested1
  <2>2. /\ {k \in InLoop(p, l) : k > i} = (i + 1)..(f.end - 1)
        /\ {k \in InLoop(p, l) : k < j} = f.begin..(j - 1)
        /\ i \notin (i + 1)..(f.end - 1) /\ j \notin f.begin..(j - 1)
    <3> HIDE DEF j, l, f
    <3> QED BY <1>2, <1>3, <1>8, <2>1
  <2>3. /\ {i, j} \subseteq InLoop(p, l) /\ l \in Loop
    BY <1>2, <1>8, <2>1
  <2>4. \A k \in f.begin..(j - 1) : Alone(p, k)
    BY <1>1, <1>8
  <2> HIDE DEF j, l, f, p, i
  <2>5. /\ PassedOver(p, (i + 1)..(f.end - 1), i)
        /\ PassedOver(p, f.begin..(j - 1), j)
    BY <1>8, <2>2, <2>4, AloneOver
  <2> QED BY <2>2, <2>3, <2>5 DEF Follows, p, i, j
<1> QED BY <1>4, <1>5, <1>6, <1>7, <1>8 DEF InRound, Round

\* The items of a transaction are written, or read from its reply, in the order
\* in which the program they were extracted from does it: nothing is left out
\* but loops that are not entered (readWriteFrom, readWriteRange,
\* getValidLoopIdxOf).  Loops may be nested when the inner ones have one item.
THEOREM ItemsInSourceOrder == Spec => []InSourceOrder
<1>1. OrderInv => InSourceOrder
  BY FollowsOutside, FollowsInside DEF InSourceOrder
<1> QED BY <1>1, ReadersOrdered, PTL
=============================================================================
