---------------------------- MODULE DeviceManager ----------------------------
(***************************************************************************)
(* The supervision of one phone: class Device of                           *)
(* fuzzer-engine/manager/manager.py with the Flasher of flash.py, and the  *)
(* phone itself as the environment.                                        *)
(*                                                                         *)
(* Each manager step is one adb or fastboot exchange, or a few whose       *)
(* result nobody reads; the phone may change between two steps.  The       *)
(* methods reset, ensure_in_sanitizer_state, prepare and push call each    *)
(* other: calls is the stack of the places that wait for a reset to return. *)
(***************************************************************************)
EXTENDS Naturals, Sequences, FiniteSets

CONSTANTS
  Files,          \* what push_fuzzer_data pushes, numbered in order
  Instances,      \* max_instance_number
  RecoveryTries,  \* reboots tried on a phone in recovery (5 in the code)
  WipeMayFail,    \* wipe_userdata_and_cache may leave the data as they were
  Exceptions,     \* a command of the manager may raise
  NoDir,          \* host_current_log_dir is not assigned yet
  MaxRuns,        \* bound: counters of runs stop here
  MaxFaults       \* bound: how many faults of the phone happen

ASSUME DeviceAssumption ==
  /\ {Files, Instances, RecoveryTries, MaxRuns} \subseteq Nat \ {0}
  /\ MaxFaults \in Nat
  /\ {WipeMayFail, Exceptions} \subseteq BOOLEAN
  /\ NoDir \notin Nat

VARIABLES
  \* the phone
  mode,           \* what get_device_state reports
  asan,           \* /data holds the sanitizer libraries
  files,          \* the pushed files that are in the work directory
  logDir,         \* the log directory exists on the phone
  deviceLogs,     \* the numbers of the fuzzer logs in it
  procs,          \* how many processes of each kind run
  \* the manager
  pc,             \* where it is
  next,           \* what ensure_in_device_state returns to
  calls,          \* the callers of reset
  recovery_count,
  file,           \* the next file to push
  kinds,          \* the kinds of process still to supervise in this round
  todo,           \* how many processes of the first of them are to be started
  phase,          \* "run" until monitor() is entered
  flash_count,
  accumulated,    \* accumulated_fuzzer_num and accumulated_logcat_num
  hostDir,        \* host_current_log_dir
  hostLogs,       \* the log files on the host
  faults          \* faults so far

phone == <<mode, asan, files, logDir, deviceLogs, procs>>
place == <<pc, next, calls, recovery_count, file, kinds, todo, phase>>
books == <<flash_count, accumulated, hostDir, hostLogs>>
vars == <<phone, place, books, faults>>

Mode == {"device", "recovery", "fastboot", "offline", "away"}
Kind == {"fuzzer", "logcat", "script"}
Numbered == {"fuzzer", "logcat"}   \* the kinds whose runs are counted

AllFiles == 1..Files
Required == [k \in Kind |-> IF k = "fuzzer" THEN Instances ELSE 1]
OnDevice == {"fuzzer", "script"}

Caller == [at : {"run", "monitor", "flashed", "push"}, file : 0..Files]
Plain(at) == [at |-> at, file |-> 0]

Connected == mode = "device"
Fault == faults < MaxFaults /\ faults' = faults + 1

Init ==
  /\ mode \in Mode
  /\ asan \in BOOLEAN
  /\ files = {} /\ logDir = FALSE /\ deviceLogs = {}
  /\ procs = [k \in Kind |-> 0]
  /\ pc = "ensure" /\ next = "sanitizer" /\ calls = <<Plain("run")>>
  /\ recovery_count = 0 /\ file = 1
  /\ kinds = <<>> /\ todo = 0 /\ phase = "run"
  /\ flash_count = 0 /\ accumulated = [k \in Numbered |-> 0]
  /\ hostDir = NoDir /\ hostLogs = {}
  /\ faults = 0

-----------------------------------------------------------------------------
(* ensure_in_device_state *)

Ensure(then) == pc' = "ensure" /\ next' = then /\ recovery_count' = 0

InDeviceState ==
  /\ pc = "ensure" /\ Connected
  /\ pc' = next
  /\ UNCHANGED <<phone, next, calls, recovery_count, file, kinds, todo, phase, books, faults>>

\* Mutant: the fastboot case is missing.
RebootFastbootMissing ==
  /\ pc = "ensure" /\ mode = "fastboot"
  /\ UNCHANGED vars

RebootFastboot ==
  /\ pc = "ensure" /\ mode = "fastboot"
  /\ mode' = "away"
  /\ UNCHANGED <<asan, files, logDir, deviceLogs, procs, place, books, faults>>

RebootRecovery ==
  /\ pc = "ensure" /\ mode = "recovery" /\ recovery_count < RecoveryTries
  /\ recovery_count' = recovery_count + 1
  /\ mode' = "away"
  /\ UNCHANGED <<asan, files, logDir, deviceLogs, procs,
                 pc, next, calls, file, kinds, todo, phase, books, faults>>

\* sync_log, which may fail in recovery.
Synced(dir) == hostLogs \cup {<<"fuzzer", dir, n>> : n \in deviceLogs}

\* Everything under /data is gone, and the phone restarts.
DataLost ==
  /\ asan' = FALSE /\ files' = {} /\ logDir' = FALSE /\ deviceLogs' = {}

\* Mutant: the logs go on under the old number of flashes.
WipeRecoverySameFlash ==
  /\ pc = "ensure" /\ mode = "recovery" /\ recovery_count >= RecoveryTries
  /\ recovery_count' = recovery_count + 1
  /\ LET dir == IF flash_count = 0 THEN 0 ELSE hostDir IN
     hostDir' = dir /\ hostLogs' \in {hostLogs, Synced(dir)}
  /\ accumulated' = [k \in Numbered |-> 0]
  /\ DataLost
  /\ mode' = "away"
  /\ UNCHANGED <<flash_count, procs, pc, next, calls, file, kinds, todo, phase, faults>>

\* One reboot too many: the old logs are synced, the books are turned to the
\* next flash, and the data are wiped; whether that worked is only logged.
WipeRecovery ==
  /\ pc = "ensure" /\ mode = "recovery" /\ recovery_count >= RecoveryTries
  /\ recovery_count' = recovery_count + 1
  /\ LET dir == IF flash_count = 0 THEN 0 ELSE hostDir IN
     hostDir' = dir /\ hostLogs' \in {hostLogs, Synced(dir)}
  /\ flash_count' = flash_count + 1
  /\ accumulated' = [k \in Numbered |-> 0]
  /\ \/ DataLost
     \/ WipeMayFail /\ UNCHANGED <<asan, files, logDir, deviceLogs>>
  /\ mode' = "away"
  /\ UNCHANGED <<procs, pc, next, calls, file, kinds, todo, phase, faults>>

-----------------------------------------------------------------------------
(* ensure_in_sanitizer_state and reset *)

\* check_asan_status cannot tell while the phone is not connected, and then
\* waits for it again.
AskAgain ==
  /\ pc \in {"sanitizer", "flash"} /\ ~Connected
  /\ Ensure(pc)
  /\ UNCHANGED <<phone, calls, file, kinds, todo, phase, books, faults>>

\* reset returns: run() and ensure_in_sanitizer_state go on to prepare, where
\* their entry of calls is still needed; push tries again; monitor goes on to
\* its checks.
ReturnFromReset ==
  LET c == calls[Len(calls)]
      below == SubSeq(calls, 1, Len(calls) - 1)
  IN \/ /\ c.at \in {"run", "flashed"}
        /\ pc' = "prepare"
        /\ UNCHANGED <<calls, file, kinds>>
     \/ /\ c.at = "push"
        /\ pc' = "push" /\ file' = c.file /\ calls' = below
        /\ UNCHANGED kinds
     \/ /\ c.at = "monitor"
        /\ pc' = "check" /\ kinds' = <<"fuzzer", "logcat", "script">> /\ calls' = below
        /\ UNCHANGED file

ResetReturns ==
  /\ pc = "sanitizer" /\ Connected /\ asan
  /\ ReturnFromReset
  /\ UNCHANGED <<phone, next, recovery_count, todo, phase, books, faults>>

NeedsFlash ==
  /\ pc = "sanitizer" /\ Connected /\ ~asan
  /\ pc' = "flash"
  /\ UNCHANGED <<phone, next, calls, recovery_count, file, kinds, todo, phase, books, faults>>

\* flash_santizier_image; a flash that fails leaves the phone anywhere.
Flash ==
  /\ pc = "flash" /\ Connected /\ ~asan
  /\ files' = {} /\ logDir' = FALSE /\ deviceLogs' = {}
  /\ procs' = [k \in Kind |-> 0]
  /\ \/ asan' = TRUE /\ mode' = "away" /\ UNCHANGED faults
     \/ Fault /\ mode' \in Mode /\ UNCHANGED asan
  /\ UNCHANGED <<place, books>>

\* The loop over check_asan_status ends: reset, then prepare.
Flashed ==
  /\ pc = "flash" /\ Connected /\ asan
  /\ Ensure("sanitizer")
  /\ calls' = Append(calls, Plain("flashed"))
  /\ UNCHANGED <<phone, file, kinds, todo, phase, books, faults>>

-----------------------------------------------------------------------------
(* prepare *)

\* The remaining fuzzers are killed and the work directory is removed; nobody
\* looks whether the commands reached the phone.
Prepare ==
  /\ pc = "prepare"
  /\ pc' = "push" /\ file' = 1
  /\ IF Connected
     THEN /\ procs' = [procs EXCEPT !["fuzzer"] = 0]
          /\ files' = {} /\ logDir' = FALSE /\ deviceLogs' = {}
     ELSE UNCHANGED <<procs, files, logDir, deviceLogs>>
  /\ UNCHANGED <<mode, asan, next, calls, recovery_count, kinds, todo, phase, books, faults>>

Push ==
  /\ pc = "push" /\ file <= Files /\ Connected
  /\ files' = files \cup {file}
  /\ file' = file + 1
  /\ UNCHANGED <<mode, asan, logDir, deviceLogs, procs,
                 pc, next, calls, recovery_count, kinds, todo, phase, books, faults>>

\* Mutant: a push that failed is not repeated.
PushFailedIgnored ==
  /\ pc = "push" /\ file <= Files /\ ~Connected
  /\ file' = file + 1
  /\ UNCHANGED <<phone, pc, next, calls, recovery_count, kinds, todo, phase, books, faults>>

\* The push failed: wait for the phone, reset, and push again.
PushFailed ==
  /\ pc = "push" /\ file <= Files /\ ~Connected
  /\ pc' = "await"
  /\ UNCHANGED <<phone, next, calls, recovery_count, file, kinds, todo, phase, books, faults>>

PushAgain ==
  /\ pc = "await" /\ Connected
  /\ Ensure("sanitizer")
  /\ calls' = Append(calls, [at |-> "push", file |-> file])
  /\ UNCHANGED <<phone, file, kinds, todo, phase, books, faults>>

\* init_log_dir; mkdir on the phone is not checked either. Then run() goes on
\* to _run(), and ensure_in_sanitizer_state to the end of its reset.
InitLogDir ==
  /\ pc = "push" /\ file > Files
  /\ hostDir' = flash_count
  /\ logDir' = (logDir \/ Connected)
  /\ LET c == calls[Len(calls)] IN
     /\ calls' = SubSeq(calls, 1, Len(calls) - 1)
     /\ IF c.at = "run"
        THEN pc' = "start" /\ kinds' = <<"logcat", "fuzzer", "script">> /\ todo' = 1
        ELSE pc' = "sanitized" /\ UNCHANGED <<kinds, todo>>
  /\ UNCHANGED <<mode, asan, files, deviceLogs, procs, next, recovery_count, file, phase,
                 flash_count, accumulated, hostLogs, faults>>

\* The reset that flashed is over: it returns without another look at the phone.
Sanitized ==
  /\ pc = "sanitized"
  /\ ReturnFromReset
  /\ UNCHANGED <<phone, next, recovery_count, todo, phase, books, faults>>

-----------------------------------------------------------------------------
(* check_process_status and monitor *)

K == Head(kinds)

\* ps | grep | awk: when adb fails, its error message bypasses the pipe and is
\* taken for the list of one process.
ProcessesSeen == IF K \in OnDevice /\ ~Connected THEN 1 ELSE procs[K]

\* What a command to the phone can reach.
Reached == K \notin OnDevice \/ Connected

\* Mutant: too many processes are left as they are.
CheckEnough ==
  /\ pc = "check"
  /\ pc' = "start"
  /\ todo' = IF ProcessesSeen < Required[K] THEN Required[K] - ProcessesSeen ELSE 0
  /\ UNCHANGED <<phone, next, calls, recovery_count, file, kinds, phase, books, faults>>

\* Mutant: any process is taken for all of them.
CheckAny ==
  /\ pc = "check"
  /\ pc' = "start"
  /\ todo' = IF ProcessesSeen = 0 THEN Required[K] ELSE 0
  /\ UNCHANGED <<phone, next, calls, recovery_count, file, kinds, phase, books, faults>>

Check ==
  /\ pc = "check"
  /\ pc' = "start"
  /\ \/ /\ ProcessesSeen <= Required[K]
        /\ todo' = Required[K] - ProcessesSeen
        /\ UNCHANGED procs
     \/ /\ ProcessesSeen > Required[K]
        /\ todo' = Required[K]
        /\ procs' = IF Reached THEN [procs EXCEPT ![K] = 0] ELSE procs
  /\ UNCHANGED <<mode, asan, files, logDir, deviceLogs,
                 next, calls, recovery_count, file, kinds, phase, books, faults>>

\* The number of the next run: the counters stop at the bound.
NextRun(k) == IF accumulated[k] < MaxRuns THEN accumulated[k] + 1 ELSE MaxRuns

\* run_one_fuzzer: the shell opens the log, then looks for the program.
RunOneFuzzer ==
  /\ K = "fuzzer"
  /\ accumulated' = [accumulated EXCEPT !["fuzzer"] = NextRun("fuzzer")]
  /\ IF Connected /\ logDir
     THEN /\ deviceLogs' = deviceLogs \cup {NextRun("fuzzer")}
          /\ procs' = IF files = AllFiles THEN [procs EXCEPT !["fuzzer"] = @ + 1] ELSE procs
     ELSE UNCHANGED <<deviceLogs, procs>>
  /\ UNCHANGED hostLogs

\* run_one_logcat: its log is on the host.
RunOneLogcat ==
  /\ K = "logcat"
  /\ accumulated' = [accumulated EXCEPT !["logcat"] = NextRun("logcat")]
  /\ hostLogs' = hostLogs \cup {<<"logcat", hostDir, NextRun("logcat")>>}
  /\ procs' = [procs EXCEPT !["logcat"] = @ + 1]
  /\ UNCHANGED deviceLogs

RunRestartDeviceScript ==
  /\ K = "script"
  /\ procs' = IF Connected /\ files = AllFiles THEN [procs EXCEPT !["script"] = @ + 1] ELSE procs
  /\ UNCHANGED <<accumulated, deviceLogs, hostLogs>>

RunProcess ==
  /\ pc = "start" /\ todo > 0
  /\ todo' = todo - 1
  /\ RunOneFuzzer \/ RunOneLogcat \/ RunRestartDeviceScript
  /\ UNCHANGED <<mode, asan, files, logDir, pc, next, calls, recovery_count, file, kinds,
                 phase, flash_count, hostDir, faults>>

\* _run() starts everything without looking; monitor() checks first.
NextKind ==
  /\ pc = "start" /\ todo = 0 /\ Len(kinds) > 1
  /\ kinds' = Tail(kinds)
  /\ IF phase = "run" THEN todo' = Required[Head(Tail(kinds))] /\ UNCHANGED pc
     ELSE pc' = "check" /\ UNCHANGED todo
  /\ UNCHANGED <<phone, next, calls, recovery_count, file, phase, books, faults>>

LastKind ==
  /\ pc = "start" /\ todo = 0 /\ Len(kinds) = 1
  /\ kinds' = <<>>
  /\ pc' = IF phase = "run" THEN "sleep" ELSE "sync"
  /\ phase' = "monitor"
  /\ UNCHANGED <<phone, next, calls, recovery_count, file, todo, books, faults>>

SyncLog ==
  /\ pc = "sync"
  /\ pc' = "sleep"
  /\ hostLogs' = IF Connected THEN Synced(hostDir) ELSE hostLogs
  /\ UNCHANGED <<phone, next, calls, recovery_count, file, kinds, todo, phase,
                 flash_count, accumulated, hostDir, faults>>

Monitor ==
  /\ pc = "sleep"
  /\ Ensure("sanitizer")
  /\ calls' = <<Plain("monitor")>>
  /\ UNCHANGED <<phone, file, kinds, todo, phase, books, faults>>

\* A command raises: monitor() catches the exception and starts its next round,
\* run() does not.
Raise ==
  /\ Exceptions /\ Fault
  /\ pc \notin {"sleep", "dead"}
  /\ pc' = IF phase = "monitor" THEN "sleep" ELSE "dead"
  /\ calls' = <<>> /\ kinds' = <<>> /\ todo' = 0
  /\ UNCHANGED <<phone, next, recovery_count, file, phase, books>>

-----------------------------------------------------------------------------
(* The phone *)

Down == [k \in Kind |-> IF k \in OnDevice THEN 0 ELSE procs[k]]

\* adb loses the phone, which runs on.
Glitch ==
  /\ Fault /\ Connected
  /\ mode' \in {"offline", "away"}
  /\ UNCHANGED <<asan, files, logDir, deviceLogs, procs, place, books>>

\* The phone restarts: by itself, or by restart_device.sh.
Restart ==
  /\ Fault /\ Connected
  /\ mode' = "away" /\ procs' = Down
  /\ UNCHANGED <<asan, files, logDir, deviceLogs, place, books>>

\* It ends in recovery or in fastboot.
BadBoot ==
  /\ Fault /\ mode = "away"
  /\ mode' \in {"recovery", "fastboot"} /\ procs' = Down
  /\ UNCHANGED <<asan, files, logDir, deviceLogs, place, books>>

\* It resets itself to factory data.
LoseData ==
  /\ Fault /\ Connected
  /\ DataLost /\ mode' = "away" /\ procs' = Down
  /\ UNCHANGED <<place, books>>

ProcessDies(k) ==
  /\ Fault /\ procs[k] > 0
  /\ procs' = [procs EXCEPT ![k] = @ - 1]
  /\ UNCHANGED <<mode, asan, files, logDir, deviceLogs, place, books>>

\* It has booted, or adb reconnect has helped.
ComesBack ==
  /\ mode \in {"away", "offline"}
  /\ mode' = "device"
  /\ UNCHANGED <<asan, files, logDir, deviceLogs, procs, place, books, faults>>

-----------------------------------------------------------------------------
Manage ==
  \/ InDeviceState \/ RebootFastboot \/ RebootRecovery \/ WipeRecovery
  \/ AskAgain \/ ResetReturns \/ NeedsFlash \/ Flash \/ Flashed
  \/ Prepare \/ Push \/ PushFailed \/ PushAgain \/ InitLogDir \/ Sanitized
  \/ Check \/ RunProcess \/ NextKind \/ LastKind \/ SyncLog \/ Monitor

Phone ==
  \/ Glitch \/ Restart \/ BadBoot \/ LoseData \/ ComesBack
  \/ \E k \in Kind : ProcessDies(k)

Next == Manage \/ Raise \/ Phone

Spec == Init /\ [][Next]_vars

\* The manager's process runs, and a phone that is booting or offline comes
\* back at last.
FairSpec == Spec /\ WF_vars(Manage) /\ WF_vars(ComesBack)

-----------------------------------------------------------------------------
(* Properties *)

TypeOK ==
  /\ mode \in Mode /\ asan \in BOOLEAN /\ logDir \in BOOLEAN
  /\ files \subseteq AllFiles /\ deviceLogs \subseteq 1..MaxRuns
  /\ procs \in [Kind -> Nat]
  /\ pc \in {"ensure", "sanitizer", "flash", "prepare", "push", "await", "sanitized",
             "check", "start", "sync", "sleep", "dead"}
  /\ next \in {"sanitizer", "flash"}
  /\ calls \in Seq(Caller) /\ kinds \in Seq(Kind)
  /\ recovery_count \in Nat /\ file \in 1..(Files + 1) /\ todo \in Nat
  /\ phase \in {"run", "monitor"}
  /\ flash_count \in Nat /\ accumulated \in [Numbered -> 0..MaxRuns]
  /\ hostDir \in Nat \cup {NoDir}
  /\ hostLogs \subseteq Numbered \X Nat \X (1..MaxRuns)
  /\ faults \in 0..MaxFaults

\* A phone that the manager supervises and that still has its sanitizer has all
\* the pushed files as well: through restarts, lost connections, lost data and
\* nested resets, the one is never there without the other.  (Without exceptions:
\* after one between flashing and preparing, the next round finds the phone with
\* its sanitizer and does not prepare it.)
Supervising == pc \in {"check", "start", "sync", "sleep"}
FilesComplete == Supervising /\ asan => files = AllFiles

\* "for different fuzzer's run log": no run reuses a log file that the host
\* already has of another run.
RunLogsDistinct ==
  [][ \A k \in Numbered :
        accumulated'[k] = accumulated[k] + 1 => <<k, hostDir, accumulated'[k]>> \notin hostLogs ]_vars

\* The wait of push, which leaves a phone in recovery or fastboot alone.
Stranded == pc = "await" /\ mode \in {"recovery", "fastboot"}

\* An exception has ended run(), before monitor() was entered.
NeverMonitored == pc = "dead" /\ phase = "run"

\* The recursion of reset, prepare and push ends, and the manager gets back to
\* its round, also after exceptions, once the phone causes no more trouble: the
\* wait of push is the only place where it can be stuck.
MonitorGoesOn == []<>(pc = "sleep" \/ Stranded \/ NeverMonitored)

\* Too many fuzzers, which a misread list of processes can lead to, are brought
\* back to the number that is wanted.
OverstartCorrected ==
  (procs["fuzzer"] > Instances) ~> (procs["fuzzer"] <= Instances \/ NeverMonitored)

\* "how many fuzzers will run on one mobile phone": that many, again and again,
\* on a phone that has its files and its log directory, whatever its restarts,
\* lost connections, failed flashes and exceptions of the manager have led to.
SuppliedFuzzersRun ==
  []<>( \/ procs["fuzzer"] = Instances
        \/ ~logDir \/ files # AllFiles
        \/ Stranded \/ NeverMonitored )
=============================================================================
