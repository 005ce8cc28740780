------------------------------ MODULE RunLedger ------------------------------
(***************************************************************************)
(* `marc` as a wrapper around claude (src/internal/clauderun): several     *)
(* wrapped runs on one host share ~/.marc/runs.jsonl.  A run that resumes  *)
(* a session first asks the ledger how the last runs in its directory      *)
(* ended; when claude is over the run appends its own record and, once the *)
(* file is long, rewrites it through one temporary path.  Nothing is       *)
(* locked.                                                                 *)
(*                                                                         *)
(* A file is a sequence of lines.  The rewrite does not open its file for  *)
(* appending: it writes at its own offset, so two of them on one inode     *)
(* write over each other, line for line (the lines are taken to be of one  *)
(* length), and a line written past the end leaves a hole before it.       *)
(***************************************************************************)
EXTENDS Naturals, Sequences, FiniteSets

CONSTANTS
  Runs,        \* the invocations of marc
  Dirs,        \* the directories claude is run in
  DirOf,       \* the working directory of each run
  Earlier,     \* the ledgers an earlier history may have left
  Modes,       \* the values of on_crash_loop that are configured
  Threshold,   \* crash_loop_threshold, its default applied
  Keep,        \* ledgerMaxLines
  Exits,       \* the reasons classifyExit tells apart
  None,        \* no inode
  MaxFaults    \* bound: I/O errors and kills

Record == [by : Runs \union {None}, dir : Dirs, reason : Exits]

ASSUME RunsAssumption == IsFiniteSet(Runs) /\ DirOf \in [Runs -> Dirs]
ASSUME InodeAssumption == None \notin Nat
ASSUME KeepAssumption == Keep \in Nat \ {0} /\ Threshold \in Nat \ {0}
ASSUME ModesAssumption == "unset" \notin Modes
ASSUME ExitsAssumption == Exits \intersect {"half", "junk", "hole"} = {}
ASSUME EarlierAssumption == Earlier \subseteq Seq(Record)

VARIABLES
  mode,       \* the configured on_crash_loop
  ledger,     \* the inode runs.jsonl names, or None
  tmp,        \* the inode runs.jsonl.tmp names, or None
  content,    \* the lines of each inode
  pc,         \* where each run is
  guard,      \* the mode each run works with
  asks,       \* how each run was invoked: resuming, forced
  resumed,    \* runs whose claude was started with its resume flags
  fd,         \* the inode each run has open
  keep,       \* the lines a run's rewrite keeps
  done,       \* how many of them it has written
  recorded,   \* history: the records appended, in order
  streakAt,   \* history: the true streak when the guard looked, in the newest
              \* Keep records and in all of them
  held,       \* history: the runs whose guard would not let them resume
  overlap,    \* history: a rewrite ran beside an append or another rewrite
  torn,       \* history: a record was cut short
  blind,      \* history: the runs whose guard could not read the ledger
  faults

files == <<ledger, tmp, content>>
invocation == <<guard, asks, resumed>>
rewrite == <<fd, keep, done>>
history == <<recorded, torn>>
seen == <<streakAt, held, blind>>
ledgerVars == <<mode, files, pc, invocation, rewrite, history, seen, overlap, faults>>

Inodes == 1 .. Cardinality(Runs) + 2
NoRecord(what) == [by |-> None, dir |-> None, reason |-> what]
Half == NoRecord("half")   \* a line without its end
Junk == NoRecord("junk")   \* a line that is no record
Hole == NoRecord("hole")   \* bytes nobody wrote

----------------------------------------------------------------------------
(* The ledger as a file *)

\* readLines: the lines in order; a hole has no line end and spoils the line
\* behind it.
Lines(file) ==
  LET kept == {i \in DOMAIN file : file[i] # Hole}
      nth == [i \in kept |-> Cardinality({j \in kept : j <= i})]
      read(i) == IF file[i] = Half \/ (i > 1 /\ file[i - 1] = Hole) THEN Junk ELSE file[i]
  IN  [n \in 1 .. Cardinality(kept) |-> read(CHOOSE i \in kept : nth[i] = n)]

Appended(file, line) ==
  IF file # <<>> /\ file[Len(file)] = Half
  THEN [file EXCEPT ![Len(file)] = Junk]
  ELSE Append(file, line)

WrittenAt(file, i, line) ==
  [j \in 1 .. (IF Len(file) < i THEN i ELSE Len(file)) |->
     IF j = i THEN line ELSE IF j <= Len(file) THEN file[j] ELSE Hole]

LastOf(n, s) == SubSeq(s, Len(s) - n + 1, Len(s))

Ledger == IF ledger = None THEN <<>> ELSE Lines(content[ledger])

\* classifyExit and abnormal: every reason but "ok" is abnormal.
Abnormal(rec) == rec.reason # "ok"

\* recentForCWD, as positions.
OfDir(dir, lines) == {i \in DOMAIN lines : lines[i].dir = dir}

Streak_Total(dir, lines) ==
  Cardinality({i \in OfDir(dir, lines) : Abnormal(lines[i])})

\* abnormalStreak: the runs of a directory behind its last clean one.
Streak(dir, lines) ==
  LET clean == {i \in OfDir(dir, lines) : ~Abnormal(lines[i])}
  IN  Cardinality({i \in OfDir(dir, lines) : \A j \in clean : j < i})

RunsInit ==
  /\ mode \in Modes
  /\ \E lines \in Earlier :
       /\ ledger = IF lines = <<>> THEN None ELSE 1
       /\ recorded = lines
       /\ content = [i \in Inodes |-> IF i = 1 THEN lines ELSE <<>>]
  /\ tmp = None
  /\ pc = [r \in Runs |-> "new"] /\ guard = [r \in Runs |-> "warn"]
  /\ asks = [r \in Runs |-> [resume |-> FALSE, forced |-> FALSE]] /\ resumed = {}
  /\ fd = [r \in Runs |-> None] /\ keep = [r \in Runs |-> <<>>] /\ done = [r \in Runs |-> 0]
  /\ streakAt = [r \in Runs |-> [new |-> 0, all |-> 0]] /\ held = {} /\ blind = {}
  /\ overlap = FALSE /\ torn = FALSE /\ faults = 0

----------------------------------------------------------------------------
(* Before claude is started *)

Goes(r, from, to) ==
  /\ pc[r] = from
  /\ pc' = [pc EXCEPT ![r] = to]

\* resolveGuard: anything but the five modes is "warn".  A negative threshold,
\* which turns the guard off, is not modelled.
ResolveGuard(on) == IF on \in {"backoff", "prompt", "fresh", "block"} THEN on ELSE "warn"

\* Flags and configuration; one that cannot be read counts as absent.
Start(r) ==
  /\ \E ask \in [resume : BOOLEAN, forced : BOOLEAN], on \in {mode, "unset"} :
       /\ asks' = [asks EXCEPT ![r] = ask]
       /\ guard' = [guard EXCEPT ![r] = ResolveGuard(on)]
       /\ Goes(r, "new", IF ask.resume /\ ~ask.forced THEN "guard" ELSE "launch")
  /\ UNCHANGED <<mode, files, resumed, rewrite, history, seen, faults>>

\* An unknown profile, no proxy, no claude: the run ends without a record.
Refuse(r) ==
  /\ Goes(r, "new", "over")
  /\ UNCHANGED <<mode, files, invocation, rewrite, history, seen, faults>>

\* What follows from a crash loop in each mode; prompt needs a terminal and
\* a yes, backoff sleeps.
Verdicts(g, streak) ==
  IF streak < Threshold THEN {"launch"}
  ELSE CASE g = "warn" -> {"launch"}
         [] g = "backoff" -> {"cooling"}
         [] g = "prompt" -> {"launch", "over"}
         [] g = "fresh" -> {"strip"}
         [] g = "block" -> {"over"}

\* History, not the ledger: the crashes of a directory since its last clean run.
Crashes(dir, records) ==
  LET own == {i \in DOMAIN records : records[i].dir = dir}
  IN  Cardinality({i \in own : \A j \in own : j >= i => records[j].reason # "ok"})

Newest == LastOf(IF Len(recorded) < Keep THEN Len(recorded) ELSE Keep, recorded)

\* guardResume with abnormalStreak; a ledger that cannot be read has no runs.
GuardResume(r) ==
  /\ \E readable \in BOOLEAN, verdict \in {"launch", "cooling", "strip", "over"} :
       /\ verdict \in Verdicts(guard[r], IF readable THEN Streak(DirOf[r], Ledger) ELSE 0)
       /\ IF readable THEN UNCHANGED <<blind, faults>>
          ELSE /\ faults < MaxFaults /\ faults' = faults + 1
               /\ blind' = blind \union {r}
       /\ Goes(r, "guard", verdict)
       /\ held' = IF verdict \in {"strip", "over"} THEN held \union {r} ELSE held
  /\ streakAt' = [streakAt EXCEPT ![r] =
                   [new |-> Crashes(DirOf[r], Newest), all |-> Crashes(DirOf[r], recorded)]]
  /\ UNCHANGED <<mode, files, invocation, rewrite, history>>

CooledDown(r) ==
  /\ Goes(r, "cooling", "launch")
  /\ UNCHANGED <<mode, files, invocation, rewrite, history, seen, faults>>

\* stripResumeFlags.
StripResume(r) ==
  /\ Goes(r, "strip", "launch")
  /\ asks' = [asks EXCEPT ![r].resume = FALSE]
  /\ UNCHANGED <<mode, files, guard, resumed, rewrite, history, seen, faults>>

Launch(r) ==
  /\ Goes(r, "launch", "running")
  /\ resumed' = IF asks[r].resume THEN resumed \union {r} ELSE resumed
  /\ UNCHANGED <<mode, files, guard, asks, rewrite, history, seen, faults>>

ClaudeEnds(r) ==
  /\ Goes(r, "running", "open")
  /\ UNCHANGED <<mode, files, invocation, rewrite, history, seen, faults>>

----------------------------------------------------------------------------
(* appendRun *)

\* An inode without a name and without anyone who has it open.
FreshInode ==
  CHOOSE i \in Inodes : i \notin {ledger, tmp} /\ \A r \in Runs : fd[r] # i

OpenLedger(r) ==
  /\ Goes(r, "open", "write")
  /\ IF ledger = None
     THEN /\ ledger' = FreshInode
          /\ content' = [content EXCEPT ![FreshInode] = <<>>]
     ELSE UNCHANGED <<ledger, content>>
  /\ fd' = [fd EXCEPT ![r] = ledger']
  /\ UNCHANGED <<mode, tmp, invocation, keep, done, history, seen, faults>>

\* The file was opened for appending: the record goes behind whatever the
\* inode holds now.
WriteRecord(r) ==
  /\ Goes(r, "write", "count")
  /\ \E reason \in Exits :
       LET rec == [by |-> r, dir |-> DirOf[r], reason |-> reason]
       IN  /\ content' = [content EXCEPT ![fd[r]] = Appended(@, rec)]
           /\ recorded' = Append(recorded, rec)
  /\ fd' = [fd EXCEPT ![r] = None]
  /\ UNCHANGED <<mode, ledger, tmp, invocation, keep, done, torn, seen, faults>>

\* Half of the record is written, or nothing: appendRun returns the error.
WriteFails(r) ==
  /\ faults < MaxFaults /\ faults' = faults + 1
  /\ Goes(r, "write", "over")
  /\ \/ /\ content' = [content EXCEPT ![fd[r]] = Appended(@, Half)]
        /\ torn' = TRUE
     \/ UNCHANGED <<content, torn>>
  /\ fd' = [fd EXCEPT ![r] = None]
  /\ UNCHANGED <<mode, ledger, tmp, invocation, keep, done, recorded, seen>>

----------------------------------------------------------------------------
(* pruneLedger *)

CountLines_First(r) ==
  /\ IF Len(Ledger) <= 2 * Keep
     THEN Goes(r, "count", "over") /\ UNCHANGED keep
     ELSE /\ Goes(r, "count", "create")
          /\ keep' = [keep EXCEPT ![r] = SubSeq(Ledger, 1, Keep)]
  /\ UNCHANGED <<mode, files, invocation, fd, done, history, seen, faults>>

CountLines(r) ==
  /\ IF Len(Ledger) <= 2 * Keep
     THEN Goes(r, "count", "over") /\ UNCHANGED keep
     ELSE /\ Goes(r, "count", "create")
          /\ keep' = [keep EXCEPT ![r] = LastOf(Keep, Ledger)]
  /\ UNCHANGED <<mode, files, invocation, fd, done, history, seen, faults>>

\* O_TRUNC: the inode at the temporary path is emptied under whoever else
\* is writing to it.
CreateTmp(r) ==
  /\ Goes(r, "create", "copy")
  /\ tmp' = IF tmp = None THEN FreshInode ELSE tmp
  /\ content' = [content EXCEPT ![tmp'] = <<>>]
  /\ fd' = [fd EXCEPT ![r] = tmp']
  /\ done' = [done EXCEPT ![r] = 0]
  /\ UNCHANGED <<mode, ledger, invocation, keep, history, seen, faults>>

CopyLine(r) ==
  /\ Goes(r, "copy", IF done[r] + 1 < Len(keep[r]) THEN "copy" ELSE "rename")
  /\ content' = [content EXCEPT ![fd[r]] = WrittenAt(@, done[r] + 1, keep[r][done[r] + 1])]
  /\ done' = [done EXCEPT ![r] = @ + 1]
  /\ fd' = [fd EXCEPT ![r] = IF done'[r] < Len(keep[r]) THEN @ ELSE None]
  /\ UNCHANGED <<mode, ledger, tmp, invocation, keep, history, seen, faults>>

\* Whatever the temporary path names by now; nothing, and the error of the
\* rename is ignored.
RenameTmp(r) ==
  /\ Goes(r, "rename", "over")
  /\ ledger' = IF tmp = None THEN ledger ELSE tmp
  /\ tmp' = None
  /\ UNCHANGED <<mode, content, invocation, rewrite, history, seen, faults>>

\* Any of its calls fails: the rewrite stops where it stands.
PruneFails(r) ==
  /\ faults < MaxFaults /\ faults' = faults + 1
  /\ \E at \in {"count", "create", "copy", "rename"} : Goes(r, at, "over")
  /\ fd' = [fd EXCEPT ![r] = None]
  /\ UNCHANGED <<mode, files, invocation, keep, done, history, seen>>

Kill(r) ==
  /\ faults < MaxFaults /\ faults' = faults + 1
  /\ pc[r] \notin {"new", "over"}
  /\ pc' = [pc EXCEPT ![r] = "over"]
  /\ fd' = [fd EXCEPT ![r] = None]
  /\ UNCHANGED <<mode, files, invocation, keep, done, history, seen>>

RunStep(r) ==
  Start(r) \/ Refuse(r) \/ GuardResume(r) \/ CooledDown(r) \/ StripResume(r) \/ Launch(r)
    \/ ClaudeEnds(r) \/ OpenLedger(r) \/ WriteRecord(r) \/ WriteFails(r)
    \/ CountLines(r) \/ CreateTmp(r) \/ CopyLine(r) \/ RenameTmp(r) \/ PruneFails(r)
    \/ Kill(r)

\* A rewrite works from a copy of the ledger that an append or another
\* rewrite makes stale.
Rewriting(r) == pc[r] \in {"create", "copy", "rename"}
Overlapping ==
  \E a, b \in Runs : a # b /\ Rewriting(a) /\ (Rewriting(b) \/ pc[b] = "write")

RunsNext ==
  /\ \E r \in Runs : RunStep(r)
  /\ overlap' = (overlap \/ Overlapping')

RunsSpec == RunsInit /\ [][RunsNext]_ledgerVars

----------------------------------------------------------------------------
(* Properties *)

\* The ledger is the newest end of what the runs recorded, at least Keep
\* records of it, unless a rewrite ran beside another run's append or
\* rewrite, or a record was cut short.  Kills and errors in a rewrite lose
\* nothing (ledger.go:54-97).
LedgerIsTheEnd ==
  overlap \/ torn \/
    LET lines == Ledger
    IN  \E n \in 0 .. Len(recorded) :
          /\ n >= Keep \/ n = Len(recorded)
          /\ lines = LastOf(n, recorded)

\* A crash loop is not resumed behind the back of "fresh" or "block": a run
\* that resumes under them was forced, could not read the ledger, or came
\* after crashes that are no longer among the newest Keep records.  And a run
\* is held back only after Threshold crashes in its own directory
\* (guard.go:127-177, ledger.go:120-140).
GuardIsRight ==
  overlap \/ torn \/
    \A r \in Runs :
      /\ r \in resumed /\ guard[r] \in {"fresh", "block"} /\ ~asks[r].forced /\ r \notin blind
           => streakAt[r].new < Threshold
      /\ r \in held => streakAt[r].all >= Threshold

=============================================================================
