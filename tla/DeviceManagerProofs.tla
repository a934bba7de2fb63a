------------------------- MODULE DeviceManagerProofs -------------------------
(***************************************************************************)
(* Theorems about DeviceManager, for any number of files, instances,       *)
(* reboots, runs and faults.                                               *)
(*                                                                         *)
(* The recursion of reset, prepare and push is what makes them hard: while *)
(* a caller waits, the phone may be wiped and flashed again.  Nested says  *)
(* how the stack of callers looks, FilesSoFar and LogsSoFar what a caller  *)
(* may rely on when it is its turn again.                                  *)
(***************************************************************************)
EXTENDS DeviceManager, SequenceTheorems, TLAPS

-----------------------------------------------------------------------------
(* The invariants *)

Top(s)   == s[Len(s)]
Below(s) == SubSeq(s, 1, Len(s) - 1)
InReset  == {"ensure", "sanitizer", "flash", "prepare", "push", "await", "sanitized"}

\* run() and monitor() call reset first; in it only prepare, for the reset before it,
\* and push, within a prepare, do.
Nested(s) ==
  /\ s \in Seq(Caller)
  /\ \A i \in 1..Len(s) : s[i].at \in {"run", "monitor"} <=> i = 1
  /\ \A i \in 1..Len(s) :
       s[i].at = "push" => s[i - 1].at \in {"run", "flashed"} /\ s[i].file >= 1

CallsOK ==
  /\ Nested(calls)
  /\ pc \in InReset => Len(calls) >= 1
  /\ pc \in {"prepare", "push", "await"} => Top(calls).at \in {"run", "flashed"}

PlaceOK ==
  /\ pc \in InReset \cup {"check", "start", "sync", "sleep", "dead"}
  /\ next \in {"sanitizer", "flash"}
  /\ recovery_count \in Nat /\ file \in 1..(Files + 1) /\ todo \in Nat
  /\ (pc = "await" => file <= Files)
  /\ kinds \in Seq(Kind)
  /\ (pc \in {"check", "start"} => Len(kinds) >= 1)
  /\ phase \in {"run", "monitor"}
  /\ (pc \in {"check", "sync", "sleep"} => phase = "monitor")
  /\ (Len(calls) >= 1 /\ calls[1].at = "monitor" => phase = "monitor")

FlagsOK == asan \in BOOLEAN /\ logDir \in BOOLEAN

PhoneOK ==
  /\ mode \in Mode
  /\ files \subseteq AllFiles /\ deviceLogs \subseteq 1..MaxRuns
  /\ procs \in [Kind -> Nat]
  /\ faults \in 0..MaxFaults

BooksOK ==
  /\ flash_count \in Nat /\ accumulated \in [Numbered -> 0..MaxRuns]
  /\ hostDir \in Nat \cup {NoDir}
  /\ hostLogs \subseteq Numbered \X Nat \X (1..MaxRuns)
  /\ (phase = "monitor" \/ pc = "start" \/ flash_count # 0) => hostDir \in Nat

Types == CallsOK /\ PlaceOK /\ FlagsOK /\ PhoneOK /\ BooksOK

InSanitizer == pc = "sanitizer" \/ (pc = "ensure" /\ next = "sanitizer")

\* What is on a phone with its sanitizer: while it is pushed, the files before this one;
\* when the caller's turn comes, as many as it had pushed, or all if it was monitor().
FilesNow ==
  /\ pc \in {"push", "await"} => 1..(file - 1) \subseteq files
  /\ InSanitizer /\ Top(calls).at = "push" => 1..(Top(calls).file - 1) \subseteq files
  /\ InSanitizer /\ Top(calls).at = "monitor" => files = AllFiles
  /\ pc = "sanitized" \/ Supervising => files = AllFiles

FilesSoFar == asan => FilesNow

\* The host has logs of earlier flashes, and of this one up to the counters; those go
\* to the directory of this flash whenever fuzzers can be started.
HostLogsSoFar ==
  \A l \in hostLogs :
     l[2] <= flash_count /\ (l[2] = flash_count => l[3] <= accumulated[l[1]])

DirSoFar == hostDir \in Nat => hostDir <= flash_count

DeviceLogsSoFar == deviceLogs \subseteq 1..accumulated["fuzzer"]

DirNow ==
  /\ pc = "sanitized" \/ Supervising => hostDir = flash_count
  /\ asan /\ InSanitizer /\ Top(calls).at = "monitor" => hostDir = flash_count

LogsSoFar == HostLogsSoFar /\ DirSoFar /\ DeviceLogsSoFar /\ DirNow

-----------------------------------------------------------------------------
(* The stack of callers *)

LEMMA NestedPush ==
  ASSUME NEW s, Nested(s), Len(s) >= 1,
         NEW c \in Caller, c.at \in {"flashed", "push"},
         c.at = "push" => Top(s).at \in {"run", "flashed"} /\ c.file >= 1
  PROVE  /\ Nested(Append(s, c)) /\ Len(Append(s, c)) = Len(s) + 1
         /\ Top(Append(s, c)) = c /\ Append(s, c)[1] = s[1]
<1> DEFINE t == Append(s, c)
<1>1. t \in Seq(Caller) /\ Len(t) = Len(s) + 1 /\ Len(s) \in Nat
  BY DEF Nested
<1>2. t[Len(t)] = c /\ \A i \in 1..Len(s) : t[i] = s[i]
  BY <1>1 DEF Nested
<1>3. \A i \in 1..Len(t) : t[i].at \in {"run", "monitor"} <=> i = 1
  BY <1>1, <1>2 DEF Nested
<1>4. ASSUME NEW i \in 1..Len(t), t[i].at = "push"
      PROVE  t[i - 1].at \in {"run", "flashed"} /\ t[i].file >= 1
  <2>1. CASE i = Len(t)
    <3>1. t[i - 1] = Top(s)
      BY <1>1, <1>2, <2>1 DEF Top
    <3> QED
      BY <1>2, <1>4, <2>1, <3>1
  <2>2. CASE i # Len(t)
    <3>1. i \in 1..Len(s) /\ i # 1
      BY <1>1, <1>3, <1>4, <2>2
    <3>2. t[i] = s[i] /\ t[i - 1] = s[i - 1]
      BY <1>1, <1>2, <3>1
    <3> QED
      BY <1>4, <3>1, <3>2 DEF Nested
  <2> QED
    BY <2>1, <2>2
<1> QED
  BY <1>1, <1>2, <1>3, <1>4 DEF Nested, Top

LEMMA NestedPop ==
  ASSUME NEW s, Nested(s), Len(s) >= 1
  PROVE  /\ Nested(Below(s)) /\ Len(Below(s)) = Len(s) - 1 /\ Len(s) \in Nat
         /\ Top(s) \in Caller
         /\ Len(s) > 1 => Below(s)[1] = s[1]
         /\ Top(s).at \notin {"run", "monitor"} => Len(Below(s)) >= 1
         /\ Top(s).at \in {"run", "monitor"} => Len(Below(s)) = 0 /\ Top(s) = s[1]
         /\ Top(s).at = "push" => Top(Below(s)).at \in {"run", "flashed"} /\ Top(s).file >= 1
<1> DEFINE t == Below(s)
<1>1. s \in Seq(Caller) /\ Len(s) \in Nat /\ Top(s) \in Caller
  BY DEF Nested, Top
<1>2. t \in Seq(Caller) /\ Len(t) = Len(s) - 1
  <2>1. \A i \in 1..(Len(s) - 1) : s[i] \in Caller
    BY <1>1
  <2>2. t \in Seq(Caller) /\ Len(t) = IF 1 <= Len(s) - 1 THEN (Len(s) - 1) - 1 + 1 ELSE 0
    BY <1>1, <2>1, SubSeqProperties DEF Below
  <2>3. \A n \in Nat : n >= 1 => (IF 1 <= n - 1 THEN (n - 1) - 1 + 1 ELSE 0) = n - 1
    OBVIOUS
  <2> QED
    BY <1>1, <2>2, <2>3
<1>2a. \A i \in 1..Len(t) : t[i] = s[i]
  <2>1. \A i \in 1..(Len(s) - 1) : s[i] \in Caller
    BY <1>1
  <2>2. \A i \in 1..(Len(s) - 1) - 1 + 1 : Below(s)[i] = s[1 + i - 1]
    BY <1>1, <2>1, SubSeqProperties DEF Below
  <2> QED
    BY <1>1, <1>2, <2>2
<1>3. Nested(t)
  <2>1. \A i \in 1..Len(t) : i \in 1..Len(s) /\ t[i] = s[i]
    BY <1>1, <1>2, <1>2a
  <2>2. \A i \in 1..Len(t) : t[i].at \in {"run", "monitor"} <=> i = 1
    BY <2>1 DEF Nested
  <2>3. ASSUME NEW i \in 1..Len(t), t[i].at = "push"
        PROVE  t[i - 1].at \in {"run", "flashed"} /\ t[i].file >= 1
    <3>1. i # 1 /\ i - 1 \in 1..Len(t)
      BY <1>1, <1>2, <1>2a, <2>2, <2>3
    <3> QED
      BY <2>1, <2>3, <3>1 DEF Nested
  <2> QED
    BY <1>2, <2>2, <2>3 DEF Nested
<1>4. Top(s).at \in {"run", "monitor"} <=> Len(s) = 1
  <2>1. Len(s) \in 1..Len(s)
    BY <1>1
  <2> QED
    BY <2>1 DEF Nested, Top
<1>5. ASSUME Top(s).at = "push"
      PROVE  Top(t).at \in {"run", "flashed"} /\ Top(s).file >= 1
  <2>1. Len(t) >= 1 /\ Top(t) = s[Len(s) - 1]
    BY <1>1, <1>2, <1>2a, <1>4, <1>5 DEF Top
  <2> QED
    BY <1>1, <1>5, <2>1 DEF Nested, Top
<1> QED
  BY <1>1, <1>2, <1>2a, <1>3, <1>4, <1>5 DEF Top

LEMMA NestedFirst ==
  ASSUME NEW at \in {"run", "monitor"}
  PROVE  /\ Nested(<<Plain(at)>>) /\ Len(<<Plain(at)>>) = 1
         /\ Top(<<Plain(at)>>) = Plain(at) /\ <<Plain(at)>>[1] = Plain(at)
         /\ Plain(at).at = at
BY DeviceAssumption DEF Nested, Plain, Caller, Top

LEMMA NestedNone == Nested(<<>>) /\ Len(<<>>) = 0
BY DEF Nested

-----------------------------------------------------------------------------
(* Every variable has its type, and the callers are nested as they should be *)

LEMMA Bounds ==
  /\ Files \in Nat /\ Files >= 1 /\ Instances \in Nat /\ RecoveryTries \in Nat
  /\ MaxRuns \in Nat /\ MaxRuns >= 1 /\ MaxFaults \in Nat /\ NoDir \notin Nat
BY DeviceAssumption

LEMMA FlagsInit == Init => FlagsOK
BY Zenon DEF Init, FlagsOK

LEMMA FlagsStep == FlagsOK /\ Next => FlagsOK'
<1> SUFFICES ASSUME FlagsOK, Next PROVE FlagsOK'
  OBVIOUS
<1>1. CASE UNCHANGED <<asan, logDir>>
  BY <1>1 DEF FlagsOK
<1>2. CASE DataLost \/ (asan' = TRUE /\ logDir' = FALSE)
  BY <1>2, Zenon DEF DataLost, FlagsOK
<1>3. CASE logDir' = FALSE /\ UNCHANGED asan
  BY <1>3, Zenon DEF FlagsOK
<1>4. CASE logDir' = (logDir \/ Connected) /\ UNCHANGED asan
  BY <1>4, Zenon DEF FlagsOK
<1>5. Manage => \/ UNCHANGED <<asan, logDir>> \/ DataLost \/ (asan' = TRUE /\ logDir' = FALSE)
                \/ (logDir' = FALSE /\ UNCHANGED asan)
                \/ (logDir' = (logDir \/ Connected) /\ UNCHANGED asan)
  BY Zenon
     DEF Manage, InDeviceState, RebootFastboot, RebootRecovery, WipeRecovery, AskAgain,
         ResetReturns, NeedsFlash, Flash, Flashed, Prepare, Push, PushFailed, PushAgain,
         InitLogDir, Sanitized, Check, RunProcess, NextKind, LastKind, SyncLog, Monitor, phone
<1>6. Raise \/ Phone => UNCHANGED <<asan, logDir>> \/ DataLost
  BY Zenon DEF Raise, Phone, Glitch, Restart, BadBoot, LoseData, ComesBack, ProcessDies, phone
<1> QED
  BY <1>1, <1>2, <1>3, <1>4, <1>5, <1>6 DEF Next

LEMMA TypesInit == Init => Types
<1> SUFFICES ASSUME Init PROVE Types
  OBVIOUS
<1>1. CallsOK
  BY NestedFirst DEF Init, CallsOK, InReset
<1>2. PlaceOK
  BY Bounds, NestedFirst DEF Init, PlaceOK, InReset, Kind
<1>3. PhoneOK
  BY Bounds DEF Init, PhoneOK
<1>4. BooksOK
  BY Bounds DEF Init, BooksOK
<1> QED
  BY <1>1, <1>2, <1>3, <1>4, FlagsInit DEF Types

\* What the phone does leaves the manager's state alone.
LEMMA TypesPhone == Types /\ Phone => Types'
<1> SUFFICES ASSUME Types, Phone PROVE Types'
  OBVIOUS
<1>1. UNCHANGED <<place, books>>
  BY DEF Phone, Glitch, Restart, BadBoot, LoseData, ComesBack, ProcessDies
<1>2. CallsOK' /\ PlaceOK' /\ BooksOK'
  BY <1>1 DEF Types, CallsOK, PlaceOK, BooksOK, place, books
<1>3. PhoneOK'
  <2> USE Bounds DEF Types, PhoneOK, Mode, Fault
  <2>1. Down \in [Kind -> Nat]
    BY DEF Down
  <2>2. CASE Glitch
    BY <2>2 DEF Glitch
  <2>3. CASE Restart
    BY <2>1, <2>3 DEF Restart
  <2>4. CASE BadBoot
    BY <2>1, <2>4 DEF BadBoot
  <2>5. CASE LoseData
    BY <2>1, <2>5 DEF LoseData, DataLost
  <2>6. CASE ComesBack
    BY <2>6 DEF ComesBack
  <2>7. ASSUME NEW k \in Kind, ProcessDies(k) PROVE PhoneOK'
    BY <2>7 DEF ProcessDies
  <2> QED
    BY <2>2, <2>3, <2>4, <2>5, <2>6, <2>7 DEF Phone
<1> QED
  BY <1>2, <1>3, FlagsStep DEF Types, Next

\* Waiting for the phone, and the wipe.
LEMMA TypesEnsure ==
  ASSUME Types,
         \/ InDeviceState \/ RebootFastboot \/ RebootRecovery \/ WipeRecovery
         \/ AskAgain \/ NeedsFlash \/ Flash
  PROVE  Types'
<1> USE Bounds DEF Types, InReset
<1>1. CallsOK'
  BY DEF CallsOK, InDeviceState, RebootFastboot, RebootRecovery, WipeRecovery, AskAgain,
         NeedsFlash, Flash, Ensure, place, books, PlaceOK
<1>2. PlaceOK'
  BY DEF PlaceOK, InDeviceState, RebootFastboot, RebootRecovery, WipeRecovery, AskAgain,
         NeedsFlash, Flash, Ensure, place, books
<1>3. PhoneOK'
  <2>1. CASE WipeRecovery
    <3>1. /\ mode' = "away" /\ UNCHANGED <<procs, faults>>
          /\ (files' = {} /\ deviceLogs' = {}) \/ UNCHANGED <<files, deviceLogs>>
      BY <2>1, Zenon DEF WipeRecovery, DataLost
    <3> QED
      BY <3>1 DEF PhoneOK, Mode
  <2>2. CASE Flash
    <3>1. /\ files' = {} /\ deviceLogs' = {} /\ procs' = [k \in Kind |-> 0]
          /\ (mode' = "away" /\ faults' = faults) \/ (mode' \in Mode /\ Fault)
      BY <2>2, Zenon DEF Flash
    <3> QED
      BY <3>1 DEF PhoneOK, Mode, Fault
  <2>3. CASE ~WipeRecovery /\ ~Flash
    BY <2>3 DEF PhoneOK, InDeviceState, RebootFastboot, RebootRecovery, AskAgain, NeedsFlash,
                phone, Mode
  <2> QED
    BY <2>1, <2>2, <2>3
<1>4. BooksOK'
  <2>1. CASE WipeRecovery
    <3>1. (IF flash_count = 0 THEN 0 ELSE hostDir) \in Nat
      BY DEF BooksOK
    <3>2. Synced(IF flash_count = 0 THEN 0 ELSE hostDir) \subseteq Numbered \X Nat \X (1..MaxRuns)
      BY <3>1 DEF BooksOK, PhoneOK, Synced, Numbered
    <3> QED
      BY <2>1, <3>1, <3>2 DEF WipeRecovery, BooksOK
  <2>2. CASE ~WipeRecovery
    BY <2>2 DEF BooksOK, PlaceOK, InDeviceState, RebootFastboot, RebootRecovery, AskAgain,
                NeedsFlash, Flash, Ensure, books, place
  <2> QED
    BY <2>1, <2>2
<1> QED
  BY <1>1, <1>2, <1>3, <1>4, FlagsStep DEF Next, Manage

\* A caller of reset is put on the stack.
LEMMA TypesCall ==
  ASSUME Types, Flashed \/ PushAgain \/ Monitor
  PROVE  Types'
<1> USE Bounds DEF Types, InReset
<1>1. CallsOK' /\ (Len(calls') >= 1 /\ (calls'[1].at = "monitor" => phase = "monitor"))
  <2>1. CASE Flashed
    <3>1. Plain("flashed") \in Caller /\ Plain("flashed").at = "flashed"
      BY DEF Plain, Caller
    <3> QED
      BY <2>1, <3>1, NestedPush DEF Flashed, Ensure, CallsOK, PlaceOK
  <2>2. CASE PushAgain
    <3> DEFINE c == [at |-> "push", file |-> file]
    <3>1. c \in Caller /\ c.at = "push" /\ c.file >= 1
      BY <2>2 DEF PushAgain, PlaceOK, Caller
    <3> QED
      BY <2>2, <3>1, NestedPush DEF PushAgain, Ensure, CallsOK, PlaceOK
  <2>3. CASE Monitor
    BY <2>3, NestedFirst DEF Monitor, Ensure, CallsOK, PlaceOK
  <2> QED
    BY <2>1, <2>2, <2>3
<1>2. /\ pc' = "ensure" /\ next' = "sanitizer" /\ recovery_count' = 0
      /\ UNCHANGED <<phone, file, kinds, todo, phase, books, faults>>
  BY DEF Flashed, PushAgain, Monitor, Ensure
<1>3. PlaceOK'
  BY <1>1, <1>2 DEF PlaceOK
<1>4. PhoneOK' /\ BooksOK'
  BY <1>2 DEF PhoneOK, BooksOK, phone, books
<1> QED
  BY <1>1, <1>3, <1>4, FlagsStep DEF Next, Manage

\* And its turn comes again.
LEMMA TypesReturn ==
  ASSUME Types, ResetReturns \/ Sanitized \/ InitLogDir
  PROVE  Types'
<1> USE Bounds DEF Types, InReset
<1>1. Nested(calls) /\ Len(calls) >= 1
  BY DEF CallsOK, ResetReturns, Sanitized, InitLogDir
<1> DEFINE c == Top(calls)
           t == Below(calls)
<1>2. /\ Nested(t) /\ Len(t) = Len(calls) - 1 /\ Len(calls) \in Nat /\ c \in Caller
      /\ Len(calls) > 1 => t[1] = calls[1]
      /\ c.at \notin {"run", "monitor"} => Len(t) >= 1
      /\ c.at \in {"run", "monitor"} => Len(t) = 0 /\ c = calls[1]
      /\ c.at = "push" => Top(t).at \in {"run", "flashed"} /\ c.file >= 1
  BY <1>1, NestedPop
<1> HIDE DEF c, t
<1>3. ResetReturns \/ Sanitized =>
        \/ c.at \in {"run", "flashed"} /\ pc' = "prepare" /\ UNCHANGED <<calls, file, kinds>>
        \/ c.at = "push" /\ pc' = "push" /\ file' = c.file /\ calls' = t /\ kinds' = kinds
        \/ c.at = "monitor" /\ pc' = "check" /\ kinds' = <<"fuzzer", "logcat", "script">>
           /\ calls' = t /\ file' = file
  BY DEF ResetReturns, Sanitized, ReturnFromReset, c, t, Top, Below
<1>4. InitLogDir =>
        /\ calls' = t
        /\ IF c.at = "run"
           THEN pc' = "start" /\ kinds' = <<"logcat", "fuzzer", "script">> /\ todo' = 1
           ELSE pc' = "sanitized" /\ UNCHANGED <<kinds, todo>>
        /\ c.at \in {"run", "flashed"}
  BY DEF InitLogDir, c, t, Top, Below, CallsOK
<1>5. c = Top(calls) /\ c.at \in {"run", "monitor", "flashed", "push"} /\ c.file \in 0..Files
  BY <1>2 DEF c, Caller
<1>6. CallsOK'
  <2>1. CASE ResetReturns \/ Sanitized
    BY <1>1, <1>2, <1>3, <1>5, <2>1 DEF CallsOK
  <2>2. CASE InitLogDir
    BY <1>1, <1>2, <1>4, <1>5, <2>2 DEF CallsOK
  <2> QED
    BY <2>1, <2>2
<1>7. PlaceOK'
  <2>1. Len(t) >= 1 => t[1] = calls[1]
    BY <1>2
  <2>2. CASE ResetReturns \/ Sanitized
    <3>1. UNCHANGED <<next, recovery_count, todo, phase>>
      BY <2>2 DEF ResetReturns, Sanitized
    <3>2. c.at = "monitor" => phase = "monitor"
      BY <1>1, <1>2, <1>5 DEF PlaceOK
    <3>3. <<"fuzzer", "logcat", "script">> \in Seq(Kind) /\ Len(<<"fuzzer", "logcat", "script">>) = 3
      BY DEF Kind
    <3>4. CASE c.at \in {"run", "flashed"}
      BY <1>3, <2>2, <3>1, <3>4 DEF PlaceOK
    <3>5. CASE c.at = "push"
      <4>1. file' \in 1..(Files + 1) /\ pc' = "push" /\ kinds' = kinds /\ calls' = t
        BY <1>2, <1>3, <1>5, <2>2, <3>5
      <4>2. Len(calls') >= 1 /\ calls'[1].at = "monitor" => phase' = "monitor"
        BY <1>1, <2>1, <3>1, <4>1 DEF PlaceOK
      <4> QED
        BY <3>1, <4>1, <4>2 DEF PlaceOK
    <3>6. CASE c.at = "monitor"
      <4>1. kinds' = <<"fuzzer", "logcat", "script">> /\ pc' = "check" /\ calls' = t /\ file' = file
        BY <1>3, <2>2, <3>6
      <4>2. kinds' \in Seq(Kind) /\ Len(kinds') = 3
        BY <3>3, <4>1
      <4>3. Len(calls') = 0
        BY <1>2, <3>6, <4>1
      <4> QED
        BY <3>1, <3>2, <3>6, <4>1, <4>2, <4>3 DEF PlaceOK
    <3> QED
      BY <1>3, <2>2, <3>4, <3>5, <3>6
  <2>3. CASE InitLogDir
    <3>1. UNCHANGED <<next, recovery_count, file, phase>>
      BY <2>3 DEF InitLogDir
    <3>2. <<"logcat", "fuzzer", "script">> \in Seq(Kind) /\ Len(<<"logcat", "fuzzer", "script">>) = 3
      BY DEF Kind
    <3>3. calls' = t /\ (Len(calls') >= 1 /\ calls'[1].at = "monitor" => phase' = "monitor")
      BY <1>1, <1>4, <2>1, <2>3, <3>1 DEF PlaceOK
    <3>4. CASE c.at = "run"
      <4>1. kinds' = <<"logcat", "fuzzer", "script">> /\ pc' = "start" /\ todo' = 1
        BY <1>4, <2>3, <3>4
      <4>2. kinds' \in Seq(Kind) /\ Len(kinds') = 3
        BY <3>2, <4>1
      <4> QED
        BY <3>1, <3>3, <4>1, <4>2 DEF PlaceOK
    <3>5. CASE c.at # "run"
      BY <1>4, <2>3, <3>1, <3>3, <3>5 DEF PlaceOK
    <3> QED
      BY <3>4, <3>5
  <2> QED
    BY <2>2, <2>3
<1>8. PhoneOK'
  BY DEF PhoneOK, ResetReturns, Sanitized, InitLogDir, phone
<1>9. BooksOK'
  BY <1>1, <1>2, <1>3, <1>4 DEF BooksOK, PlaceOK, ResetReturns, Sanitized, InitLogDir, books
<1> QED
  BY <1>6, <1>7, <1>8, <1>9, FlagsStep DEF Next, Manage

\* Preparing the phone.
LEMMA TypesPrepare ==
  ASSUME Types, Prepare \/ Push \/ PushFailed
  PROVE  Types'
<1> USE Bounds DEF Types, InReset
<1>1. CallsOK'
  BY DEF CallsOK, Prepare, Push, PushFailed
<1>2. PlaceOK'
  BY DEF PlaceOK, Prepare, Push, PushFailed
<1>3. PhoneOK'
  <2>1. CASE Prepare
    <3>1. /\ UNCHANGED <<mode, faults>>
          /\ \/ procs' = [procs EXCEPT !["fuzzer"] = 0] /\ files' = {} /\ deviceLogs' = {}
             \/ UNCHANGED <<procs, files, deviceLogs>>
      BY <2>1, Zenon DEF Prepare
    <3>2. [procs EXCEPT !["fuzzer"] = 0] \in [Kind -> Nat]
      BY DEF PhoneOK, Kind
    <3> QED
      BY <3>1, <3>2 DEF PhoneOK
  <2>2. CASE Push
    <3>1. file \in AllFiles
      BY <2>2 DEF Push, PlaceOK, AllFiles
    <3> QED
      BY <2>2, <3>1 DEF Push, PhoneOK
  <2>3. CASE PushFailed
    BY <2>3 DEF PushFailed, PhoneOK, phone
  <2> QED
    BY <2>1, <2>2, <2>3
<1>4. BooksOK'
  BY DEF BooksOK, Prepare, Push, PushFailed, books
<1> QED
  BY <1>1, <1>2, <1>3, <1>4, FlagsStep DEF Next, Manage

\* Starting what is missing.
LEMMA TypesProcesses ==
  ASSUME Types, Check \/ RunProcess \/ NextKind \/ LastKind \/ SyncLog
  PROVE  Types'
<1> USE Bounds DEF Types, InReset
<1>1. CallsOK'
  BY DEF CallsOK, Check, RunProcess, NextKind, LastKind, SyncLog
<1>2. \A k \in Kind : Required[k] \in Nat
  BY DEF Required
<1>3. pc \in {"check", "start"} => K \in Kind
  BY DEF K, PlaceOK
<1>4. pc \in {"check", "start"} => ProcessesSeen \in Nat
  BY <1>3 DEF ProcessesSeen, PhoneOK
<1>5. PlaceOK'
  <2>1. CASE Check
    BY <1>2, <1>3, <1>4, <2>1 DEF PlaceOK, Check
  <2>2. CASE RunProcess
    BY <2>2 DEF PlaceOK, RunProcess
  <2>3. CASE NextKind
    <3>1. Tail(kinds) \in Seq(Kind) /\ Len(Tail(kinds)) >= 1
      BY <2>3 DEF NextKind, PlaceOK
    <3>2. Head(Tail(kinds)) \in Kind
      BY <3>1
    <3> QED
      BY <1>2, <2>3, <3>1, <3>2 DEF PlaceOK, NextKind
  <2>4. CASE LastKind
    BY <2>4 DEF PlaceOK, LastKind
  <2>5. CASE SyncLog
    BY <2>5 DEF PlaceOK, SyncLog
  <2> QED
    BY <2>1, <2>2, <2>3, <2>4, <2>5
<1>6. \A k \in Numbered : NextRun(k) \in 1..MaxRuns
  BY DEF NextRun, BooksOK
<1>7. PhoneOK'
  <2>1. CASE Check
    <3>1. [procs EXCEPT ![K] = 0] \in [Kind -> Nat]
      BY DEF PhoneOK
    <3> HIDE DEF K
    <3>2. UNCHANGED <<mode, files, deviceLogs, faults>>
      BY <2>1 DEF Check
    <3>3. procs' \in {procs, [procs EXCEPT ![K] = 0]}
      BY <2>1 DEF Check
    <3> QED
      BY <3>1, <3>2, <3>3 DEF PhoneOK
  <2>2. CASE RunProcess
    <3>1. \A k \in Kind : [procs EXCEPT ![k] = @ + 1] \in [Kind -> Nat]
      BY DEF PhoneOK
    <3>2. /\ UNCHANGED <<mode, files, faults>>
          /\ procs' = procs \/ \E k \in Kind : procs' = [procs EXCEPT ![k] = @ + 1]
          /\ deviceLogs' \in {deviceLogs, deviceLogs \cup {NextRun("fuzzer")}}
      BY <2>2
         DEF RunProcess, RunOneFuzzer, RunOneLogcat, RunRestartDeviceScript, Kind
    <3> QED
      BY <1>6, <3>1, <3>2 DEF PhoneOK, Numbered
  <2>3. CASE NextKind \/ LastKind \/ SyncLog
    BY <2>3 DEF NextKind, LastKind, SyncLog, PhoneOK, phone
  <2> QED
    BY <2>1, <2>2, <2>3
<1>8. BooksOK'
  <2>1. CASE RunProcess
    BY <1>6, <2>1
       DEF RunProcess, RunOneFuzzer, RunOneLogcat, RunRestartDeviceScript, BooksOK, Numbered
  <2>2. CASE SyncLog
    <3>1. hostDir \in Nat
      BY <2>2 DEF SyncLog, PlaceOK, BooksOK
    <3>2. Synced(hostDir) \subseteq Numbered \X Nat \X (1..MaxRuns)
      BY <3>1 DEF BooksOK, PhoneOK, Synced, Numbered
    <3> QED
      BY <2>2, <3>1, <3>2 DEF SyncLog, BooksOK
  <2>3. CASE Check \/ NextKind \/ LastKind
    <3>1. UNCHANGED books
      BY <2>3 DEF Check, NextKind, LastKind
    <3>2. (phase' = "monitor" \/ pc' = "start") => (phase = "monitor" \/ pc = "start")
      BY <2>3 DEF Check, NextKind, LastKind, PlaceOK
    <3> QED
      BY <3>1, <3>2 DEF BooksOK, books
  <2> QED
    BY <2>1, <2>2, <2>3
<1> QED
  BY <1>1, <1>5, <1>7, <1>8, FlagsStep DEF Next, Manage

LEMMA TypesRaise == Types /\ Raise => Types'
<1> SUFFICES ASSUME Types, Raise PROVE Types'
  OBVIOUS
<1>1. CallsOK'
  BY NestedNone DEF Raise, CallsOK, InReset
<1>2. PlaceOK'
  BY NestedNone DEF Raise, Types, PlaceOK, InReset
<1>3. PhoneOK' /\ BooksOK'
  BY Bounds DEF Raise, Fault, Types, PhoneOK, PlaceOK, BooksOK, phone, books
<1> QED
  BY <1>1, <1>2, <1>3, FlagsStep DEF Types, Next

LEMMA TypesStep == Types /\ [Next]_vars => Types'
<1> SUFFICES ASSUME Types, [Next]_vars PROVE Types'
  OBVIOUS
<1>1. CASE Manage
  BY <1>1, TypesEnsure, TypesCall, TypesReturn, TypesPrepare, TypesProcesses DEF Manage
<1>2. CASE UNCHANGED vars
  BY <1>2 DEF vars, phone, place, books, Types, CallsOK, PlaceOK, FlagsOK, PhoneOK, BooksOK
<1> QED
  BY <1>1, <1>2, TypesRaise, TypesPhone DEF Next

\* In every execution: the callers that wait for a reset are at most one of run() and
\* monitor(), below it those of nested flashes, and a push only on top of the prepare
\* that it belongs to; and every variable has its type.
THEOREM CallersNested == Spec => []Types
BY TypesInit, TypesStep, PTL DEF Spec

\* Every variable of the supervision of a phone has its type: an empty stack of callers is
\* never read, and a counter never leaves its range.
THEOREM DeviceTypes == Spec => []TypeOK
<1>1. Types => TypeOK
  BY Zenon DEF Types, CallsOK, Nested, PlaceOK, FlagsOK, PhoneOK, BooksOK, InReset, TypeOK
<1> QED
  BY <1>1, CallersNested, PTL

-----------------------------------------------------------------------------
(* The files of a phone with its sanitizer *)

\* Only a flash brings the sanitizer, and who loses it loses the files as well.
LEMMA SanitizerKept ==
  ASSUME Next, asan'
  PROVE  \/ Flash
         \/ asan /\ (UNCHANGED files \/ Prepare \/ Push)
<1>1. Manage /\ ~Flash => asan /\ (UNCHANGED files \/ Prepare \/ Push)
  BY Zenon
     DEF Manage, InDeviceState, RebootFastboot, RebootRecovery, WipeRecovery, AskAgain,
         ResetReturns, NeedsFlash, Flashed, Prepare, Push, PushFailed, PushAgain, DataLost,
         InitLogDir, Sanitized, Check, RunProcess, NextKind, LastKind, SyncLog, Monitor, phone
<1>2. Raise \/ Phone => asan /\ UNCHANGED files
  BY Zenon DEF Raise, Phone, Glitch, Restart, BadBoot, LoseData, DataLost, ComesBack,
               ProcessDies, phone
<1> QED
  BY <1>1, <1>2 DEF Next

LEMMA FilesCall ==
  ASSUME Types, FilesNow, UNCHANGED files, Flashed \/ PushAgain \/ Monitor
  PROVE  FilesNow'
<1> USE DEF FilesNow, InSanitizer, Supervising, Ensure
<1>1. CASE Flashed
  <2>1. Plain("flashed") \in Caller /\ Plain("flashed").at = "flashed"
    BY Bounds DEF Plain, Caller
  <2>2. Top(calls').at = "flashed"
    BY <1>1, <2>1, NestedPush DEF Flashed, Types, CallsOK, InReset
  <2> QED
    BY <1>1, <2>2 DEF Flashed
<1>2. CASE PushAgain
  <2> DEFINE c == [at |-> "push", file |-> file]
  <2>1. c \in Caller /\ c.at = "push" /\ c.file = file /\ c.file >= 1
    BY <1>2, Bounds DEF PushAgain, Types, PlaceOK, Caller
  <2>2. Top(calls') = c
    BY <1>2, <2>1, NestedPush DEF PushAgain, Types, CallsOK, InReset
  <2> QED
    BY <1>2, <2>1, <2>2 DEF PushAgain
<1>3. CASE Monitor
  <2>1. Top(calls').at = "monitor" /\ files' = AllFiles
    BY <1>3, NestedFirst DEF Monitor
  <2> QED
    BY <1>3, <2>1 DEF Monitor
<1> QED
  BY <1>1, <1>2, <1>3

LEMMA FilesReturn ==
  ASSUME Types, FilesNow, UNCHANGED files, ResetReturns \/ Sanitized \/ InitLogDir
  PROVE  FilesNow'
<1> USE DEF FilesNow, InSanitizer, Supervising
<1>1. Top(calls) \in Caller
  BY NestedPop DEF Types, CallsOK, InReset, ResetReturns, Sanitized, InitLogDir
<1>2. CASE InitLogDir
  <2>1. 1..(file - 1) \subseteq files /\ file = Files + 1 /\ files \subseteq 1..Files
    BY <1>2, Bounds DEF InitLogDir, Types, PlaceOK, PhoneOK, AllFiles
  <2>2. files = AllFiles
    <3>1. 1..Files \subseteq files
      BY <2>1, Bounds
    <3> QED
      BY <2>1, <3>1 DEF AllFiles
  <2>3. pc' \in {"start", "sanitized"}
    BY <1>2, Zenon DEF InitLogDir
  <2> QED
    BY <2>2, <2>3
<1>3. CASE ResetReturns \/ Sanitized
  <2> DEFINE c == Top(calls)
  <2>1. \/ c.at \in {"run", "flashed"} /\ pc' = "prepare"
        \/ c.at = "push" /\ pc' = "push" /\ file' = c.file
        \/ c.at = "monitor" /\ pc' = "check"
    BY <1>3 DEF ResetReturns, Sanitized, ReturnFromReset, Top
  <2>2. c.at = "push" => 1..(c.file - 1) \subseteq files
    BY <1>1, <1>3, Bounds DEF ResetReturns, Sanitized, AllFiles, Caller
  <2>3. c.at = "monitor" => files = AllFiles
    BY <1>3 DEF ResetReturns, Sanitized
  <2> QED
    BY <2>1, <2>2, <2>3
<1> QED
  BY <1>2, <1>3

LEMMA FilesStep ==
  ASSUME ~Exceptions, Types, FilesSoFar, [Next]_vars
  PROVE  FilesSoFar'
<1> SUFFICES ASSUME asan' PROVE FilesNow'
  BY DEF FilesSoFar
<1>1. CASE UNCHANGED vars
  BY <1>1 DEF FilesSoFar, FilesNow, InSanitizer, Supervising, vars, phone, place
<1>2. CASE Flash
  BY <1>2 DEF Flash, FilesNow, InSanitizer, Supervising, place
<1>3. CASE Next /\ ~Flash
  <2>1. FilesNow /\ (UNCHANGED files \/ Prepare \/ Push)
    BY <1>3, SanitizerKept DEF FilesSoFar
  <2>2. CASE Prepare
    BY <2>2 DEF Prepare, FilesNow, InSanitizer, Supervising
  <2>3. CASE Push
    BY <2>1, <2>3 DEF Push, FilesNow, InSanitizer, Supervising, Types, PlaceOK
  <2>4. CASE UNCHANGED files /\ (Flashed \/ PushAgain \/ Monitor)
    BY <2>1, <2>4, FilesCall
  <2>5. CASE UNCHANGED files /\ (ResetReturns \/ Sanitized \/ InitLogDir)
    BY <2>1, <2>5, FilesReturn
  <2>6. CASE UNCHANGED files /\ (InDeviceState \/ RebootFastboot \/ RebootRecovery
                                   \/ WipeRecovery \/ AskAgain \/ NeedsFlash \/ PushFailed)
    BY <2>1, <2>6
       DEF InDeviceState, RebootFastboot, RebootRecovery, WipeRecovery, AskAgain, NeedsFlash,
           PushFailed, Ensure, FilesNow, InSanitizer, Supervising, Types, PlaceOK, place
  <2>7. CASE UNCHANGED files /\ (Check \/ RunProcess \/ NextKind \/ LastKind \/ SyncLog)
    BY <2>1, <2>7
       DEF Check, RunProcess, NextKind, LastKind, SyncLog, FilesNow, InSanitizer, Supervising
  <2>8. CASE UNCHANGED files /\ Phone
    <3>1. UNCHANGED place
      BY <2>8 DEF Phone, Glitch, Restart, BadBoot, LoseData, ComesBack, ProcessDies
    <3> QED
      BY <2>1, <2>8, <3>1 DEF FilesNow, InSanitizer, Supervising, place
  <2>9. ~Raise
    BY DEF Raise
  <2> QED
    BY <1>3, <2>1, <2>2, <2>3, <2>4, <2>5, <2>6, <2>7, <2>8, <2>9 DEF Next, Manage
<1> QED
  BY <1>1, <1>2, <1>3

\* As long as no command of the manager raises, a phone that is supervised and has its
\* sanitizer has every file that push_fuzzer_data pushes: whatever the phone did between
\* two commands, and however deep reset, prepare and push were nested on the way.
THEOREM FilesAlwaysComplete ==
  ASSUME ~Exceptions
  PROVE  Spec => []FilesComplete
<1>1. Init => FilesSoFar
  BY NestedFirst DEF Init, FilesSoFar, FilesNow, InSanitizer, Supervising
<1>2. Types /\ FilesSoFar /\ [Next]_vars => FilesSoFar'
  BY FilesStep
<1>3. Types /\ FilesSoFar => FilesComplete
  BY DEF FilesSoFar, FilesNow, FilesComplete
<1> QED
  BY <1>1, <1>2, <1>3, CallersNested, PTL DEF Spec

-----------------------------------------------------------------------------
(* The logs of a run *)

\* Every step but a wipe, a run and a sync leaves the books, or moves to the directory of
\* this flash, and makes no log.
BooksKept ==
  /\ UNCHANGED <<flash_count, accumulated, hostLogs>>
  /\ hostDir' = hostDir \/ (hostDir' = flash_count /\ InitLogDir)
  /\ deviceLogs' = deviceLogs \/ deviceLogs' = {}

LEMMA BooksChange ==
  ASSUME Next
  PROVE  WipeRecovery \/ RunProcess \/ SyncLog \/ BooksKept
<1>1. Manage => WipeRecovery \/ RunProcess \/ SyncLog \/ BooksKept
  BY Zenon
     DEF Manage, InDeviceState, RebootFastboot, RebootRecovery, AskAgain, ResetReturns,
         NeedsFlash, Flash, Flashed, Prepare, Push, PushFailed, PushAgain, InitLogDir,
         Sanitized, Check, NextKind, LastKind, Monitor, phone, books, BooksKept
<1>2. Raise \/ Phone => BooksKept
  BY Zenon DEF Raise, Phone, Glitch, Restart, BadBoot, LoseData, DataLost, ComesBack,
               ProcessDies, phone, books, BooksKept
<1> QED
  BY <1>1, <1>2 DEF Next

LEMMA LogsWipe ==
  ASSUME ~WipeMayFail, Types, LogsSoFar, WipeRecovery
  PROVE  LogsSoFar'
<1> DEFINE dir == IF flash_count = 0 THEN 0 ELSE hostDir
<1>1. /\ hostDir' = dir /\ hostLogs' \in {hostLogs, Synced(dir)}
      /\ flash_count' = flash_count + 1 /\ deviceLogs' = {} /\ pc' = "ensure" /\ pc = "ensure"
      /\ accumulated' = [k \in Numbered |-> 0]
  BY DEF WipeRecovery, DataLost
<1>2. asan' = FALSE
  BY Zenon DEF WipeRecovery, DataLost
<1>3. dir \in Nat /\ dir <= flash_count /\ flash_count \in Nat
  BY DEF Types, BooksOK, LogsSoFar, DirSoFar
<1>4. \A l \in Synced(dir) : l[2] <= flash_count
  BY <1>3 DEF Synced, LogsSoFar, HostLogsSoFar
<1>5. \A l \in hostLogs' : l[2] <= flash_count /\ l[2] \in Nat
  <2>1. \A l \in hostLogs' : l[2] \in Nat
    BY <1>1, <1>3 DEF Synced, Types, BooksOK
  <2> QED
    BY <1>1, <1>4, <2>1 DEF LogsSoFar, HostLogsSoFar
<1>6. HostLogsSoFar'
  BY <1>1, <1>3, <1>5 DEF HostLogsSoFar
<1>7. DirSoFar' /\ DeviceLogsSoFar'
  BY <1>1, <1>3 DEF DirSoFar, DeviceLogsSoFar
<1>8. DirNow'
  BY <1>1, <1>2 DEF DirNow, Supervising
<1> QED
  BY <1>6, <1>7, <1>8 DEF LogsSoFar

LEMMA LogsRun ==
  ASSUME Types, LogsSoFar, RunProcess
  PROVE  LogsSoFar' /\ hostDir = flash_count
<1>1. hostDir = flash_count /\ flash_count \in Nat
  BY DEF RunProcess, LogsSoFar, DirNow, Supervising, Types, BooksOK
<1>2. /\ UNCHANGED <<pc, next, calls, asan, hostDir, flash_count>>
      /\ \/ accumulated' = accumulated
         \/ \E k \in Numbered : accumulated' = [accumulated EXCEPT ![k] = NextRun(k)]
      /\ hostLogs' \in {hostLogs, hostLogs \cup {<<"logcat", hostDir, accumulated'["logcat"]>>}}
      /\ deviceLogs' \in {deviceLogs, deviceLogs \cup {accumulated'["fuzzer"]}}
  BY DEF RunProcess, RunOneFuzzer, RunOneLogcat, RunRestartDeviceScript, Types, BooksOK, Numbered
<1>3. accumulated \in [Numbered -> 0..MaxRuns] /\ MaxRuns \in Nat
  BY Bounds DEF Types, BooksOK
<1>4. \A k \in Numbered : NextRun(k) \in 1..MaxRuns /\ NextRun(k) >= accumulated[k]
  BY <1>3, Bounds DEF NextRun
<1>5. /\ accumulated' \in [Numbered -> 0..MaxRuns]
      /\ \A k \in Numbered : accumulated'[k] >= accumulated[k]
  BY <1>2, <1>3, <1>4
<1>6. HostLogsSoFar'
  <2>1. ASSUME NEW l \in hostLogs
        PROVE  l[2] <= flash_count /\ (l[2] = flash_count => l[3] <= accumulated'[l[1]])
    <3>1. l[1] \in Numbered /\ l[3] \in Nat
      BY DEF Types, BooksOK
    <3> QED
      BY <1>3, <1>5, <3>1 DEF LogsSoFar, HostLogsSoFar
  <2>2. accumulated'["logcat"] \in Nat
    BY <1>5 DEF Numbered
  <2> QED
    BY <1>1, <1>2, <2>1, <2>2 DEF HostLogsSoFar
<1>7. DeviceLogsSoFar'
  <2>1. "fuzzer" \in Numbered
    BY DEF Numbered
  <2>2. deviceLogs \subseteq 1..accumulated'["fuzzer"]
    BY <1>3, <1>5, <2>1 DEF LogsSoFar, DeviceLogsSoFar
  <2>3. deviceLogs' # deviceLogs => accumulated'["fuzzer"] >= 1
    BY <1>3, <1>4, <2>1
       DEF RunProcess, RunOneFuzzer, RunOneLogcat, RunRestartDeviceScript
  <2> QED
    BY <1>2, <1>5, <2>1, <2>2, <2>3 DEF DeviceLogsSoFar
<1>8. DirSoFar' /\ DirNow'
  BY <1>1, <1>2 DEF LogsSoFar, DirSoFar, DirNow, Supervising, InSanitizer
<1> QED
  BY <1>1, <1>6, <1>7, <1>8 DEF LogsSoFar

LEMMA LogsSync ==
  ASSUME Types, LogsSoFar, SyncLog
  PROVE  LogsSoFar'
<1>1. hostDir = flash_count /\ flash_count \in Nat
  BY DEF SyncLog, LogsSoFar, DirNow, Supervising, Types, BooksOK
<1>2. \A l \in Synced(hostDir) : l[2] <= flash_count /\ (l[2] = flash_count => l[3] <= accumulated[l[1]])
  BY <1>1 DEF Synced, LogsSoFar, HostLogsSoFar, DeviceLogsSoFar
<1>3. HostLogsSoFar'
  BY <1>2 DEF SyncLog, LogsSoFar, HostLogsSoFar
<1>4. DirSoFar' /\ DeviceLogsSoFar' /\ DirNow'
  BY <1>1 DEF SyncLog, LogsSoFar, DirSoFar, DeviceLogsSoFar, DirNow, Supervising, InSanitizer, phone
<1> QED
  BY <1>3, <1>4 DEF LogsSoFar

LEMMA DirCall ==
  ASSUME Types, DirNow, Flashed \/ PushAgain \/ Monitor
  PROVE  DirNow'
<1> USE DEF DirNow, InSanitizer, Supervising, Ensure
<1>1. CASE Flashed
  <2>1. Plain("flashed") \in Caller /\ Plain("flashed").at = "flashed"
    BY Bounds DEF Plain, Caller
  <2>2. Top(calls').at = "flashed"
    BY <1>1, <2>1, NestedPush DEF Flashed, Types, CallsOK, InReset
  <2> QED
    BY <1>1, <2>2 DEF Flashed
<1>2. CASE PushAgain
  <2> DEFINE c == [at |-> "push", file |-> file]
  <2>1. c \in Caller /\ c.at = "push" /\ c.file >= 1
    BY <1>2, Bounds DEF PushAgain, Types, PlaceOK, Caller
  <2>2. Top(calls').at = "push"
    BY <1>2, <2>1, NestedPush DEF PushAgain, Types, CallsOK, InReset
  <2> QED
    BY <1>2, <2>2 DEF PushAgain
<1>3. CASE Monitor
  BY <1>3 DEF Monitor, books
<1> QED
  BY <1>1, <1>2, <1>3

LEMMA DirReturn ==
  ASSUME DirNow, ResetReturns \/ Sanitized \/ InitLogDir
  PROVE  DirNow'
<1> USE DEF DirNow, InSanitizer, Supervising
<1>1. CASE InitLogDir
  <2>1. pc' \in {"start", "sanitized"} /\ hostDir' = flash_count /\ flash_count' = flash_count
    BY <1>1, Zenon DEF InitLogDir
  <2> QED
    BY <2>1
<1>2. CASE ResetReturns
  <2>1. pc' \in {"prepare", "push"} \/ (pc' = "check" /\ Top(calls).at = "monitor")
    BY <1>2 DEF ResetReturns, ReturnFromReset, Top
  <2>2. asan /\ pc = "sanitizer" /\ UNCHANGED books
    BY <1>2 DEF ResetReturns
  <2> QED
    BY <2>1, <2>2 DEF books
<1>3. CASE Sanitized
  <2>1. pc' \in {"prepare", "push", "check"} /\ pc = "sanitized" /\ UNCHANGED books
    BY <1>3 DEF Sanitized, ReturnFromReset
  <2> QED
    BY <2>1 DEF books
<1> QED
  BY <1>1, <1>2, <1>3

LEMMA DirStep ==
  ASSUME ~Exceptions, Types, DirNow, BooksKept, Next
  PROVE  DirNow'
<1> USE DEF DirNow, InSanitizer, Supervising, books
<1>1. CASE Flashed \/ PushAgain \/ Monitor
  BY <1>1, DirCall
<1>2. CASE ResetReturns \/ Sanitized \/ InitLogDir
  BY <1>2, DirReturn
<1>3. CASE Flash \/ Prepare \/ Push \/ PushFailed \/ NeedsFlash
  <2>1. pc' \in {"flash", "push", "await"}
    BY <1>3 DEF Flash, Prepare, Push, PushFailed, NeedsFlash, place
  <2> QED
    BY <2>1
<1>4. CASE ~Flash /\ ( \/ Phone \/ InDeviceState \/ RebootFastboot \/ RebootRecovery
                      \/ WipeRecovery \/ AskAgain )
  <2>1. asan' => asan
    BY <1>4, SanitizerKept
  <2>2. CASE Phone
    <3>1. UNCHANGED <<place, books>>
      BY <2>2 DEF Phone, Glitch, Restart, BadBoot, LoseData, ComesBack, ProcessDies
    <3> QED
      BY <2>1, <3>1 DEF place
  <2>3. CASE InDeviceState \/ AskAgain
    <3>1. /\ UNCHANGED <<calls, books>> /\ pc' \in {"ensure", "sanitizer", "flash"}
          /\ InSanitizer' => InSanitizer
      BY <2>3 DEF InDeviceState, AskAgain, Ensure, Types, PlaceOK
    <3> QED
      BY <2>1, <3>1
  <2>4. CASE RebootFastboot \/ RebootRecovery \/ WipeRecovery
    <3>1. UNCHANGED <<pc, next, calls>> /\ pc = "ensure"
      BY <2>4 DEF RebootFastboot, RebootRecovery, WipeRecovery, place
    <3>2. hostDir' = hostDir /\ flash_count' = flash_count
      BY <3>1 DEF BooksKept, InitLogDir
    <3> QED
      BY <2>1, <3>1, <3>2
  <2> QED
    BY <1>4, <2>2, <2>3, <2>4
<1>5. CASE Check \/ RunProcess \/ NextKind \/ LastKind \/ SyncLog
  <2>1. pc \in {"check", "start", "sync"} /\ pc' \in {"check", "start", "sync", "sleep"}
    BY <1>5 DEF Check, RunProcess, NextKind, LastKind, SyncLog
  <2>2. hostDir' = hostDir /\ flash_count' = flash_count
    BY <1>5, Zenon DEF Check, RunProcess, NextKind, LastKind, SyncLog
  <2> QED
    BY <2>1, <2>2
<1>6. CASE Raise
  BY <1>6 DEF Raise
<1> QED
  BY <1>1, <1>2, <1>3, <1>4, <1>5, <1>6 DEF Next, Manage

LEMMA LogsStep ==
  ASSUME ~Exceptions, ~WipeMayFail, Types, LogsSoFar, [Next]_vars
  PROVE  LogsSoFar'
<1>1. CASE UNCHANGED vars
  BY <1>1 DEF LogsSoFar, HostLogsSoFar, DirSoFar, DeviceLogsSoFar, DirNow, InSanitizer,
              Supervising, vars, phone, place, books
<1>2. CASE BooksKept /\ Next
  <2>1. DirNow'
    BY <1>2, DirStep DEF LogsSoFar
  <2>2. HostLogsSoFar' /\ DirSoFar'
    BY <1>2 DEF BooksKept, LogsSoFar, HostLogsSoFar, DirSoFar, Types, BooksOK
  <2>3. DeviceLogsSoFar'
    BY <1>2 DEF BooksKept, LogsSoFar, DeviceLogsSoFar
  <2> QED
    BY <2>1, <2>2, <2>3 DEF LogsSoFar
<1> QED
  BY <1>1, <1>2, BooksChange, LogsWipe, LogsRun, LogsSync

\* A run that the counters number anew finds no log of that number: the only step that
\* raises a counter goes to the directory of this flash, whose logs it is above.
LEMMA NewRunNewLog ==
  ASSUME Types, LogsSoFar, Next,
         NEW k \in Numbered, accumulated'[k] = accumulated[k] + 1
  PROVE  <<k, hostDir, accumulated'[k]>> \notin hostLogs
<1>1. accumulated[k] \in Nat
  BY DEF Types, BooksOK
<1>2. ~BooksKept /\ ~SyncLog
  BY <1>1 DEF BooksKept, SyncLog
<1>3. ~WipeRecovery
  BY <1>1 DEF WipeRecovery
<1>4. hostDir = flash_count
  BY <1>2, <1>3, BooksChange, LogsRun
<1> QED
  BY <1>1, <1>4 DEF LogsSoFar, HostLogsSoFar

\* As long as no command of the manager raises and the wipes work, no run of a fuzzer or of
\* logcat is numbered like a log that the host already has, be it of this flash or of an
\* earlier one.
THEOREM LogsNeverReused ==
  ASSUME ~Exceptions, ~WipeMayFail
  PROVE  Spec => RunLogsDistinct
<1>1. Init => LogsSoFar
  BY NestedFirst, Bounds
     DEF Init, LogsSoFar, HostLogsSoFar, DirSoFar, DeviceLogsSoFar, DirNow, Supervising,
         InSanitizer
<1>2. Types /\ LogsSoFar /\ [Next]_vars => LogsSoFar'
  BY LogsStep
<1>3. ASSUME Types, LogsSoFar, [Next]_vars
      PROVE  [ \A k \in Numbered :
                 accumulated'[k] = accumulated[k] + 1
                 => <<k, hostDir, accumulated'[k]>> \notin hostLogs ]_vars
  BY <1>3, NewRunNewLog
<1> QED
  BY <1>1, <1>2, <1>3, CallersNested, PTL DEF Spec, RunLogsDistinct
=============================================================================
