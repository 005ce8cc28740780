---------------------------- MODULE LedgerProofs ----------------------------
(***************************************************************************)
(* Proofs about module RunLedger, for any number of runs and directories:  *)
(* as long as no rewrite ran beside an append or another rewrite and no    *)
(* record was cut short, the ledger is the newest end of what was          *)
(* recorded, whatever fails or is killed, and the guard judges by it.      *)
(*                                                                         *)
(* The inductive invariant follows a rewrite from the copy it takes        *)
(* (RewriteInv) to the rename that puts that copy in place.  What the      *)
(* guard saw (GuardInv) rests on one fact about sequences: the crashes a   *)
(* directory ends with are no fewer in a longer end of the same history.   *)
(***************************************************************************)
EXTENDS RunLedger, SequenceTheorems, FiniteSetTheorems, TLAPS

----------------------------------------------------------------------------
(* The newest end of a sequence *)

\* The last n elements of a sequence, by position.
LEMMA LastOfSeq ==
  ASSUME NEW S, NEW s \in Seq(S), NEW n \in 0 .. Len(s)
  PROVE  /\ LastOf(n, s) \in Seq(S) /\ Len(LastOf(n, s)) = n
         /\ DOMAIN LastOf(n, s) = 1 .. n
         /\ \A i \in 1 .. n : LastOf(n, s)[i] = s[Len(s) - n + i]
<1>1. Len(s) \in Nat /\ \A i \in 1 .. Len(s) : s[i] \in S
  BY LenProperties, ElementOfSeq
<1> DEFINE m == Len(s) - n + 1
<1>2. m \in Int /\ Len(s) \in Int /\ \A i \in m .. Len(s) : s[i] \in S
  BY <1>1
<1>3. /\ LastOf(n, s) \in Seq(S)
      /\ Len(LastOf(n, s)) = IF m <= Len(s) THEN Len(s) - m + 1 ELSE 0
      /\ \A i \in 1 .. Len(s) - m + 1 : LastOf(n, s)[i] = s[m + i - 1]
  BY <1>2, SubSeqProperties DEF LastOf
<1>4. Len(LastOf(n, s)) = n
  BY <1>1, <1>3
<1>5. \A i \in 1 .. n : LastOf(n, s)[i] = s[Len(s) - n + i]
  BY <1>1, <1>3
<1> QED BY <1>3, <1>4, <1>5, LenProperties

\* The end of an end is an end.
LEMMA LastOfLast ==
  ASSUME NEW S, NEW s \in Seq(S), NEW n \in 0 .. Len(s), NEW m \in 0 .. n
  PROVE  LastOf(m, LastOf(n, s)) = LastOf(m, s)
<1>1. Len(s) \in Nat /\ m \in 0 .. Len(s)
  BY LenProperties
<1>2. /\ LastOf(n, s) \in Seq(S) /\ Len(LastOf(n, s)) = n
      /\ \A i \in 1 .. n : LastOf(n, s)[i] = s[Len(s) - n + i]
  BY LastOfSeq
<1>3. /\ LastOf(m, s) \in Seq(S) /\ Len(LastOf(m, s)) = m
      /\ \A i \in 1 .. m : LastOf(m, s)[i] = s[Len(s) - m + i]
  BY <1>1, LastOfSeq
<1>4. m \in 0 .. Len(LastOf(n, s))
  BY <1>2
<1>5. /\ LastOf(m, LastOf(n, s)) \in Seq(S) /\ Len(LastOf(m, LastOf(n, s))) = m
      /\ \A i \in 1 .. m : LastOf(m, LastOf(n, s))[i] = LastOf(n, s)[Len(LastOf(n, s)) - m + i]
  BY <1>2, <1>4, LastOfSeq
<1>6. \A i \in 1 .. m : LastOf(m, LastOf(n, s))[i] = LastOf(m, s)[i]
  <2> TAKE i \in 1 .. m
  <2>1. n - m + i \in 1 .. n /\ Len(s) - n + (n - m + i) = Len(s) - m + i
    BY <1>1
  <2>2. LastOf(m, LastOf(n, s))[i] = LastOf(n, s)[n - m + i]
    BY <1>2, <1>5
  <2>3. LastOf(n, s)[n - m + i] = s[Len(s) - m + i]
    BY <1>2, <2>1
  <2> QED BY <1>3, <2>2, <2>3
<1> QED BY <1>3, <1>5, <1>6, SeqEqual

\* What is recorded next is recorded at the end.
LEMMA LastOfAppend ==
  ASSUME NEW S, NEW s \in Seq(S), NEW n \in 0 .. Len(s), NEW e \in S
  PROVE  LastOf(n + 1, Append(s, e)) = Append(LastOf(n, s), e)
<1>1. Len(s) \in Nat
  BY LenProperties
<1>2. /\ LastOf(n, s) \in Seq(S) /\ Len(LastOf(n, s)) = n
      /\ \A i \in 1 .. n : LastOf(n, s)[i] = s[Len(s) - n + i]
  BY LastOfSeq
<1>3. /\ Append(s, e) \in Seq(S) /\ Len(Append(s, e)) = Len(s) + 1
      /\ \A i \in 1 .. Len(s) : Append(s, e)[i] = s[i]
      /\ Append(s, e)[Len(s) + 1] = e
  BY AppendProperties
<1>4. /\ Append(LastOf(n, s), e) \in Seq(S) /\ Len(Append(LastOf(n, s), e)) = n + 1
      /\ \A i \in 1 .. n : Append(LastOf(n, s), e)[i] = LastOf(n, s)[i]
      /\ Append(LastOf(n, s), e)[n + 1] = e
  BY <1>2, AppendProperties
<1>5. n + 1 \in 0 .. Len(Append(s, e))
  BY <1>1, <1>3
<1>6. /\ LastOf(n + 1, Append(s, e)) \in Seq(S) /\ Len(LastOf(n + 1, Append(s, e))) = n + 1
      /\ \A i \in 1 .. n + 1 :
           LastOf(n + 1, Append(s, e))[i] = Append(s, e)[Len(Append(s, e)) - (n + 1) + i]
  BY <1>3, <1>5, LastOfSeq
<1>7. \A i \in 1 .. n + 1 : LastOf(n + 1, Append(s, e))[i] = Append(LastOf(n, s), e)[i]
  <2> TAKE i \in 1 .. n + 1
  <2>0. n \in Nat /\ Len(Append(s, e)) - (n + 1) + i = Len(s) - n + i
    BY <1>1, <1>3
  <2>1. LastOf(n + 1, Append(s, e))[i] = Append(s, e)[Len(s) - n + i]
    BY <1>6, <2>0
  <2>2. CASE i = n + 1
    BY <1>1, <1>3, <1>4, <2>1, <2>2
  <2>3. CASE i \in 1 .. n
    <3>1. Len(s) - n + i \in 1 .. Len(s)
      BY <1>1, <2>3
    <3> QED BY <1>2, <1>3, <1>4, <2>1, <2>3, <3>1
  <2>4. i = n + 1 \/ i \in 1 .. n
    BY <1>1
  <2> QED BY <2>2, <2>3, <2>4
<1> QED BY <1>4, <1>6, <1>7, SeqEqual

\* All of it is an end too.
LEMMA LastOfAll ==
  ASSUME NEW S, NEW s \in Seq(S)
  PROVE  LastOf(Len(s), s) = s /\ Len(s) \in Nat
<1>1. Len(s) \in Nat
  BY LenProperties
<1>2. LastOf(Len(s), s) = SubSeq(s, 1, Len(s))
  BY <1>1 DEF LastOf
<1> QED BY <1>1, <1>2, SubSeqFull

----------------------------------------------------------------------------
(* Crashes *)

\* The crashes a directory ends with are no fewer in the whole than in its end.
LEMMA CrashesOfLast ==
  ASSUME NEW S, NEW s \in Seq(S), NEW n \in 0 .. Len(s), NEW dir
  PROVE  /\ Crashes(dir, LastOf(n, s)) \in Nat /\ Crashes(dir, s) \in Nat
         /\ Crashes(dir, LastOf(n, s)) <= Crashes(dir, s)
<1>1. Len(s) \in Nat /\ DOMAIN s = 1 .. Len(s)
  BY LenProperties
<1>2. /\ DOMAIN LastOf(n, s) = 1 .. n
      /\ \A i \in 1 .. n : LastOf(n, s)[i] = s[Len(s) - n + i]
  BY LastOfSeq
<1> DEFINE d == Len(s) - n
           own(t) == {i \in DOMAIN t : t[i].dir = dir}
           tail(t) == {i \in own(t) : \A j \in own(t) : j >= i => t[j].reason # "ok"}
           A == tail(LastOf(n, s))
           B == tail(s)
           f == [i \in A |-> i + d]
<1>3. Crashes(dir, LastOf(n, s)) = Cardinality(A) /\ Crashes(dir, s) = Cardinality(B)
  BY DEF Crashes
<1>4. d \in Nat /\ A \subseteq 1 .. n /\ B \subseteq 1 .. Len(s)
  BY <1>1, <1>2
<1>5. ASSUME NEW i \in A PROVE i + d \in B
  <2>0. i \in 1 .. n
    BY <1>4
  <2>1. i \in 1 .. n /\ i + d \in 1 .. Len(s) /\ s[i + d] = LastOf(n, s)[i]
    <3>1. i + d = Len(s) - n + i /\ i + d \in 1 .. Len(s)
      BY <1>1, <2>0
    <3> QED BY <1>2, <2>0, <3>1
  <2>2. i + d \in own(s)
    BY <1>1, <2>1
  <2>3. ASSUME NEW j \in own(s), j >= i + d PROVE s[j].reason # "ok"
    <3>1. j - d \in 1 .. n /\ j - d >= i /\ LastOf(n, s)[j - d] = s[j]
      BY <1>1, <1>2, <1>4, <2>1, <2>3
    <3>2. j - d \in own(LastOf(n, s))
      BY <1>2, <3>1
    <3> QED BY <3>1, <3>2
  <2> QED BY <2>2, <2>3
<1>6. f \in Injection(A, B)
  <2>1. f \in [A -> B]
    BY <1>5
  <2>2. \A i, j \in A : f[i] = f[j] => i = j
    BY <1>4
  <2> HIDE DEF A, B, f
  <2> QED BY <2>1, <2>2 DEF Injection, IsInjective
<1>7. IsFiniteSet(1 .. Len(s))
  BY <1>1, FS_Interval
<1> HIDE DEF A, B, f
<1>8. IsFiniteSet(B)
  BY <1>4, <1>7, FS_Subset
<1>9. IsFiniteSet(A) /\ Cardinality(A) <= Cardinality(B)
  BY <1>6, <1>8, FS_Injection
<1> QED BY <1>3, <1>8, <1>9, FS_CardinalityType

\* A longer end of the history ends with no fewer crashes.
LEMMA CrashesGrow ==
  ASSUME NEW S, NEW s \in Seq(S), NEW n \in 0 .. Len(s), NEW m \in 0 .. n, NEW dir
  PROVE  /\ Crashes(dir, LastOf(m, s)) \in Nat /\ Crashes(dir, LastOf(n, s)) \in Nat
         /\ Crashes(dir, LastOf(m, s)) <= Crashes(dir, LastOf(n, s))
<1>1. LastOf(n, s) \in Seq(S) /\ Len(LastOf(n, s)) = n
  BY LastOfSeq
<1>2. LastOf(m, LastOf(n, s)) = LastOf(m, s)
  BY LastOfLast
<1> QED BY <1>1, <1>2, CrashesOfLast

\* What the guard counts behind the last clean run are the crashes at the end.
LEMMA StreakIsCrashes ==
  ASSUME NEW S, NEW s \in Seq(S), NEW dir
  PROVE  Streak(dir, s) = Crashes(dir, s)
<1>1. DOMAIN s \subseteq Int
  BY LenProperties
<1>2. OfDir(dir, s) \subseteq Int
  BY <1>1 DEF OfDir
<1> DEFINE own == OfDir(dir, s)
           clean == {i \in own : ~Abnormal(s[i])}
<1>3. Streak(dir, s) = Cardinality({i \in own : \A j \in clean : j < i})
  BY DEF Streak
<1>4. Crashes(dir, s) = Cardinality({i \in own : \A j \in own : j >= i => s[j].reason # "ok"})
  BY DEF Crashes, OfDir
<1>5. \A j \in own : j \in clean <=> s[j].reason = "ok"
  BY DEF Abnormal
<1>6. ASSUME NEW i \in own
      PROVE  (\A j \in clean : j < i) <=> (\A j \in own : j >= i => s[j].reason # "ok")
  <2>1. ASSUME NEW j \in own PROVE (j < i) <=> ~(j >= i)
    BY <1>2
  <2> HIDE DEF own
  <2> QED BY <1>5, <2>1
<1>7. {i \in own : \A j \in clean : j < i}
        = {i \in own : \A j \in own : j >= i => s[j].reason # "ok"}
  BY <1>6
<1> QED BY <1>3, <1>4, <1>7

\* A file of whole records reads as it was written.
LEMMA LinesOfRecords ==
  ASSUME NEW file \in Seq(Record)
  PROVE  Lines(file) = file
<1>1. Len(file) \in Nat /\ DOMAIN file = 1 .. Len(file) /\ \A i \in 1 .. Len(file) : file[i] \in Record
  BY LenProperties, ElementOfSeq
<1>2. \A rec \in Record : rec # Half /\ rec # Hole
  BY ExitsAssumption DEF Record, Half, Hole, NoRecord
<1> DEFINE kept == {i \in DOMAIN file : file[i] # Hole}
           nth == [i \in kept |-> Cardinality({j \in kept : j <= i})]
           read(i) == IF file[i] = Half \/ (i > 1 /\ file[i - 1] = Hole) THEN Junk ELSE file[i]
<1>4. Lines(file) = [n \in 1 .. Cardinality(kept) |-> read(CHOOSE i \in kept : nth[i] = n)]
  BY DEF Lines
<1>3. kept = 1 .. Len(file)
  BY <1>1, <1>2
<1> HIDE DEF kept
<1>5. Cardinality(kept) = Len(file)
  <2>1. Cardinality(1 .. Len(file)) = IF 1 > Len(file) THEN 0 ELSE Len(file) - 1 + 1
    BY <1>1, FS_Interval
  <2> QED BY <1>1, <1>3, <2>1
<1>6. ASSUME NEW i \in kept PROVE nth[i] = i
  <2>0. nth[i] = Cardinality({j \in kept : j <= i}) /\ i \in 1 .. Len(file)
    BY <1>3
  <2>1. {j \in kept : j <= i} = 1 .. i
    BY <1>1, <1>3, <2>0
  <2>2. Cardinality(1 .. i) = IF 1 > i THEN 0 ELSE i - 1 + 1
    BY <2>0, FS_Interval
  <2>3. Cardinality(1 .. i) = i
    BY <1>1, <2>0, <2>2
  <2>4. nth[i] = Cardinality(1 .. i)
    BY <2>0, <2>1
  <2> QED BY <2>3, <2>4
<1>7. ASSUME NEW i \in kept PROVE read(i) = file[i]
  BY <1>1, <1>2, <1>3
<1> HIDE DEF nth, read
<1>8. ASSUME NEW n \in kept PROVE read(CHOOSE i \in kept : nth[i] = n) = file[n]
  <2>1. (CHOOSE i \in kept : nth[i] = n) = n
    BY <1>6
  <2> QED BY <1>7, <2>1
<1>9. Lines(file) = [n \in 1 .. Len(file) |-> file[n]]
  BY <1>3, <1>4, <1>5, <1>8
<1> QED BY <1>1, <1>9, LenProperties

----------------------------------------------------------------------------
(* The inductive invariant *)

Places == {"new", "guard", "cooling", "strip", "launch", "running", "open", "write",
           "count", "create", "copy", "rename", "over"}

RunTypes ==
  /\ pc \in [Runs -> Places]
  /\ guard \in [Runs -> {"warn", "backoff", "prompt", "fresh", "block"}]
  /\ asks \in [Runs -> [resume : BOOLEAN, forced : BOOLEAN]]
  /\ streakAt \in [Runs -> [new : Nat, all : Nat]]

FileTypes ==
  /\ ledger \in Inodes \union {None} /\ tmp \in Inodes \union {None}
  /\ tmp # None => tmp # ledger
  /\ content \in [Inodes -> Seq(Record)] /\ recorded \in Seq(Record)
  /\ fd \in [Runs -> Inodes \union {None}]
  /\ keep \in [Runs -> Seq(Record)] /\ done \in [Runs -> Nat]

\* An open file is the ledger of a run that records or the temporary file of a
\* run that copies.
OpenInv ==
  \A r \in Runs :
    /\ pc[r] \notin {"write", "copy"} => fd[r] = None
    /\ pc[r] = "write" => ledger # None /\ fd[r] = ledger
    /\ pc[r] = "copy" => tmp # None /\ fd[r] = tmp

\* The ledger without readLines: all its lines are whole records.
Stored == IF ledger = None THEN <<>> ELSE content[ledger]

EndOfHistory(lines) ==
  \E n \in 0 .. Len(recorded) :
    /\ n >= Keep \/ n = Len(recorded)
    /\ lines = LastOf(n, recorded)

\* A rewrite keeps what is still the newest end, and the temporary file holds
\* what it has copied of that.
RewriteInv ==
  \A r \in Runs :
    /\ Rewriting(r) => Keep <= Len(recorded) /\ keep[r] = LastOf(Keep, recorded)
    /\ pc[r] = "copy" => done[r] < Keep /\ content[tmp] = SubSeq(keep[r], 1, done[r])
    /\ pc[r] = "rename" => tmp # None /\ content[tmp] = keep[r]

\* A run that resumes, or is about to, under "fresh" or "block".
Resuming(r) ==
  /\ r \in resumed \/ (pc[r] = "launch" /\ asks[r].resume)
  /\ guard[r] \in {"fresh", "block"} /\ ~asks[r].forced /\ r \notin blind

\* What the guard saw is what it acted on.
GuardInv ==
  \A r \in Runs :
    /\ pc[r] = "cooling" => guard[r] = "backoff"
    /\ r \in resumed => pc[r] \notin {"new", "guard", "cooling", "strip", "launch"}
    /\ r \in held => pc[r] \notin {"new", "guard"} /\ streakAt[r].all >= Threshold
    /\ Resuming(r) => streakAt[r].new < Threshold

FileInv == FileTypes /\ OpenInv /\ EndOfHistory(Stored) /\ RewriteInv

Sound == RunTypes /\ FileInv /\ GuardInv /\ ~Overlapping

LedgerInv == overlap \/ torn \/ Sound

LEMMA Bounds ==
  /\ Keep \in Nat /\ Keep > 0 /\ Threshold \in Nat /\ Threshold > 0
  /\ Inodes \subseteq Nat /\ None \notin Inodes
  <1>1. Cardinality(Runs) \in Nat
    BY RunsAssumption, FS_CardinalityType
  <1> QED BY <1>1, KeepAssumption, InodeAssumption DEF Inodes

LEMMA LedgerInvInit == RunsInit => LedgerInv
<1> SUFFICES ASSUME RunsInit PROVE Sound
  BY DEF LedgerInv
<1> USE DEF RunsInit
<1>1. PICK lines \in Earlier :
        /\ ledger = IF lines = <<>> THEN None ELSE 1
        /\ recorded = lines
        /\ content = [i \in Inodes |-> IF i = 1 THEN lines ELSE <<>>]
  OBVIOUS
<1>2. lines \in Seq(Record) /\ <<>> \in Seq(Record)
  BY EarlierAssumption
<1>3. 1 \in Inodes
  <2>1. Cardinality(Runs) \in Nat
    BY RunsAssumption, FS_CardinalityType
  <2> QED BY <2>1 DEF Inodes
<1>4. content \in [Inodes -> Seq(Record)] /\ content[1] = lines
  BY <1>1, <1>2, <1>3
<1>5. FileTypes
  BY <1>1, <1>2, <1>3, <1>4, Bounds DEF FileTypes
<1>6. EndOfHistory(Stored)
  <2>1. Stored = lines
    BY <1>1, <1>3, <1>4, Bounds DEF Stored
  <2>2. LastOf(Len(lines), lines) = lines /\ Len(lines) \in Nat
    BY <1>2, LastOfAll
  <2>3. Len(recorded) \in 0 .. Len(recorded) /\ Stored = LastOf(Len(recorded), recorded)
    BY <1>1, <2>1, <2>2
  <2> QED BY <2>3 DEF EndOfHistory
<1>7. OpenInv /\ RewriteInv /\ ~Overlapping
  BY DEF OpenInv, RewriteInv, Rewriting, Overlapping
<1>8. RunTypes /\ GuardInv
  BY DEF RunTypes, Places, GuardInv, Resuming
<1> QED BY <1>5, <1>6, <1>7, <1>8 DEF Sound, FileInv

----------------------------------------------------------------------------
(* The file *)

\* While it is sound the ledger reads as it is stored.
LEMMA LedgerIsStored ==
  ASSUME FileTypes
  PROVE  Ledger = Stored /\ Stored \in Seq(Record)
<1>1. ledger # None => content[ledger] \in Seq(Record)
  BY DEF FileTypes
<1>2. ledger # None => Lines(content[ledger]) = content[ledger]
  BY <1>1, LinesOfRecords
<1>3. <<>> \in Seq(Record)
  OBVIOUS
<1> QED BY <1>1, <1>2, <1>3 DEF Ledger, Stored

\* A run that has no file open finds a new inode: all that is open has a name.
LEMMA FreshInodeExists ==
  ASSUME FileTypes, OpenInv, NEW r \in Runs
  PROVE  FreshInode \in Inodes \ {ledger, tmp, None}
<1>1. Cardinality(Runs) \in Nat /\ Cardinality(Runs) # 0
  BY RunsAssumption, FS_CardinalityType, FS_EmptySet
<1>2. {1, 2, 3} \subseteq Inodes
  BY <1>1 DEF Inodes
<1>3. PICK i \in {1, 2, 3} : i \notin {ledger, tmp}
  OBVIOUS
<1>4. \A b \in Runs : fd[b] \in {None, ledger, tmp}
  BY DEF OpenInv
<1>5. i \in Inodes /\ i \notin {ledger, tmp} /\ \A b \in Runs : fd[b] # i
  BY <1>2, <1>3, <1>4, Bounds
<1> QED BY <1>5, Bounds DEF FreshInode

\* Beside a rewrite nobody rewrites or records.
LEMMA RewritesAlone ==
  ASSUME ~Overlapping, NEW a \in Runs, NEW b \in Runs, a # b, Rewriting(a)
  PROVE  ~Rewriting(b) /\ pc[b] # "write"
  BY DEF Overlapping

\* A run that moves on without touching the files, and leaves none open.
LEMMA FilesAside ==
  ASSUME FileInv, RunTypes, NEW r \in Runs, NEW to \in Places \ {"write", "create", "copy", "rename"},
         pc' = [pc EXCEPT ![r] = to], fd' = [fd EXCEPT ![r] = None],
         UNCHANGED <<files, keep, done, recorded>>
  PROVE  FileInv'
<1>1. /\ pc'[r] = to /\ fd'[r] = None
      /\ \A b \in Runs : b # r => pc'[b] = pc[b] /\ fd'[b] = fd[b]
  BY DEF RunTypes, FileInv, FileTypes
<1>2. UNCHANGED <<ledger, tmp, content, keep, done, recorded>>
  BY DEF files
<1>3. FileTypes'
  BY <1>2 DEF FileInv, FileTypes
<1>4. OpenInv'
  BY <1>1, <1>2 DEF FileInv, OpenInv
<1>5. EndOfHistory(Stored)'
  BY <1>2 DEF FileInv, EndOfHistory, Stored
<1>6. RewriteInv'
  BY <1>1, <1>2 DEF FileInv, RewriteInv, Rewriting
<1> QED BY <1>3, <1>4, <1>5, <1>6 DEF FileInv

LEMMA OpenKeepsFiles ==
  ASSUME FileInv, RunTypes, NEW r \in Runs, OpenLedger(r), ~Overlapping, ~Overlapping'
  PROVE  FileInv'
<1>1. /\ pc' = [pc EXCEPT ![r] = "write"] /\ fd' = [fd EXCEPT ![r] = ledger']
      /\ UNCHANGED <<tmp, keep, done, recorded>>
  BY DEF OpenLedger, Goes, history
<1>2. /\ pc'[r] = "write" /\ fd'[r] = ledger'
      /\ \A b \in Runs : b # r => pc'[b] = pc[b] /\ fd'[b] = fd[b]
  BY <1>1 DEF RunTypes, FileInv, FileTypes
<1>3. \A b \in Runs : ~Rewriting(b)' /\ ~Rewriting(b)
  <2>1. \A b \in Runs \ {r} : ~Rewriting(b)'
    BY <1>2 DEF Overlapping
  <2> QED BY <1>2, <2>1 DEF Rewriting, OpenLedger, Goes
<1>4. RewriteInv'
  BY <1>3 DEF RewriteInv, Rewriting
<1>5. \A b \in Runs \ {r} : pc[b] = "write" => ledger # None
  BY DEF FileInv, OpenInv
<1>6. CASE ledger = None
  <2>1. ledger' = FreshInode /\ content' = [content EXCEPT ![FreshInode] = <<>>]
    BY <1>6 DEF OpenLedger
  <2>2. FreshInode \in Inodes \ {ledger, tmp, None}
    BY FreshInodeExists DEF FileInv
  <2>3. FileTypes'
    <3>1. <<>> \in Seq(Record)
      OBVIOUS
    <3> QED BY <1>1, <2>1, <2>2, <3>1 DEF FileInv, FileTypes
  <2>4. OpenInv'
    BY <1>1, <1>2, <1>3, <1>5, <1>6, <2>1, <2>2 DEF FileInv, OpenInv, Rewriting
  <2>5. EndOfHistory(Stored)'
    <3>1. Stored = <<>> /\ Stored' = <<>>
      BY <1>6, <2>1, <2>2 DEF Stored, FileInv, FileTypes
    <3> QED BY <1>1, <3>1 DEF FileInv, EndOfHistory
  <2> QED BY <1>4, <2>3, <2>4, <2>5 DEF FileInv
<1>7. CASE ledger # None
  <2>1. UNCHANGED <<ledger, content>>
    BY <1>7 DEF OpenLedger
  <2>2. FileTypes'
    BY <1>1, <2>1 DEF FileInv, FileTypes
  <2>3. OpenInv'
    BY <1>1, <1>2, <1>7, <2>1 DEF FileInv, OpenInv
  <2>4. EndOfHistory(Stored)'
    BY <1>1, <2>1 DEF FileInv, EndOfHistory, Stored
  <2> QED BY <1>4, <2>2, <2>3, <2>4 DEF FileInv
<1> QED BY <1>6, <1>7

\* A record behind the newest end of the history, in the file and in the
\* history.
LEMMA RecordKeepsFiles ==
  ASSUME FileInv, RunTypes, NEW r \in Runs, WriteRecord(r), ~Overlapping
  PROVE  FileInv'
<1>1. PICK reason \in Exits :
        LET rec == [by |-> r, dir |-> DirOf[r], reason |-> reason]
        IN  /\ content' = [content EXCEPT ![fd[r]] = Appended(@, rec)]
            /\ recorded' = Append(recorded, rec)
  BY DEF WriteRecord
<1> DEFINE rec == [by |-> r, dir |-> DirOf[r], reason |-> reason]
<1>2. rec \in Record
  BY RunsAssumption DEF Record
<1>3. /\ pc[r] = "write" /\ pc' = [pc EXCEPT ![r] = "count"] /\ fd' = [fd EXCEPT ![r] = None]
      /\ UNCHANGED <<ledger, tmp, keep, done>>
  BY DEF WriteRecord, Goes
<1>4. /\ pc'[r] = "count" /\ fd'[r] = None
      /\ \A b \in Runs : b # r => pc'[b] = pc[b] /\ fd'[b] = fd[b]
  BY <1>3 DEF RunTypes, FileInv, FileTypes
<1>5. fd[r] = ledger /\ ledger # None /\ ledger \in Inodes /\ Stored = content[ledger]
  BY <1>3 DEF FileInv, OpenInv, FileTypes, Stored
<1>6. Appended(content[ledger], rec) = Append(content[ledger], rec)
  <2>1. content[ledger] \in Seq(Record)
    BY <1>5 DEF FileInv, FileTypes
  <2>2. \A other \in Record : other # Half
    BY ExitsAssumption DEF Record, Half, NoRecord
  <2>3. content[ledger] # <<>> => content[ledger][Len(content[ledger])] \in Record
    BY <2>1, EmptySeq, ElementOfSeq
  <2> QED BY <2>2, <2>3 DEF Appended
<1> HIDE DEF rec
<1>7. content' = [content EXCEPT ![ledger] = Append(content[ledger], rec)]
      /\ recorded' = Append(recorded, rec)
  BY <1>1, <1>5, <1>6 DEF rec
<1>8. FileTypes'
  <2>1. recorded' \in Seq(Record)
    BY <1>2, <1>7, AppendProperties DEF FileInv, FileTypes
  <2>2. Append(content[ledger], rec) \in Seq(Record)
    BY <1>2, <1>5, AppendProperties DEF FileInv, FileTypes
  <2>3. content' \in [Inodes -> Seq(Record)]
    BY <1>7, <2>2 DEF FileInv, FileTypes
  <2> QED BY <1>3, <2>1, <2>3 DEF FileInv, FileTypes
<1>9. OpenInv'
  BY <1>3, <1>4 DEF FileInv, OpenInv
<1>10. EndOfHistory(Stored)'
  <2>1. PICK n \in 0 .. Len(recorded) :
          /\ n >= Keep \/ n = Len(recorded)
          /\ Stored = LastOf(n, recorded)
    BY DEF FileInv, EndOfHistory
  <2>2. recorded \in Seq(Record) /\ Len(recorded) \in Nat /\ Len(recorded') = Len(recorded) + 1
    BY <1>2, <1>7, LenProperties, AppendProperties DEF FileInv, FileTypes
  <2>3. Stored' = Append(Stored, rec)
    BY <1>3, <1>5, <1>7 DEF Stored, FileInv, FileTypes
  <2>4. Stored' = LastOf(n + 1, recorded')
    BY <1>2, <1>7, <2>1, <2>2, <2>3, LastOfAppend
  <2>5. n + 1 \in 0 .. Len(recorded') /\ (n + 1 >= Keep \/ n + 1 = Len(recorded'))
    BY <2>1, <2>2, Bounds
  <2> QED BY <2>4, <2>5 DEF EndOfHistory
<1>11. RewriteInv'
  <2>1. \A b \in Runs : ~Rewriting(b)'
    <3>1. \A b \in Runs \ {r} : ~Rewriting(b)
      BY <1>3 DEF Overlapping
    <3> QED BY <1>4, <3>1 DEF Rewriting
  <2> QED BY <2>1 DEF RewriteInv, Rewriting
<1> QED BY <1>8, <1>9, <1>10, <1>11 DEF FileInv

\* A rewrite starts from the newest end, which nobody lengthens while it runs.
LEMMA CountKeepsFiles ==
  ASSUME FileInv, RunTypes, NEW r \in Runs, CountLines(r)
  PROVE  FileInv'
<1>1. pc[r] = "count" /\ fd[r] = None /\ fd \in [Runs -> Inodes \union {None}]
  BY DEF CountLines, Goes, FileInv, OpenInv, FileTypes
<1>2. fd' = [fd EXCEPT ![r] = None] /\ UNCHANGED <<files, fd, done, recorded>>
  BY <1>1 DEF CountLines, history
<1>3. CASE pc' = [pc EXCEPT ![r] = "over"] /\ UNCHANGED keep
  BY <1>2, <1>3, FilesAside DEF Places
<1>4. CASE /\ Len(Ledger) > 2 * Keep /\ pc' = [pc EXCEPT ![r] = "create"]
           /\ keep' = [keep EXCEPT ![r] = LastOf(Keep, Ledger)]
  <2>1. UNCHANGED <<ledger, tmp, content, fd, done, recorded>>
    BY <1>2 DEF files
  <2>2. /\ pc'[r] = "create" /\ \A b \in Runs : b # r => pc'[b] = pc[b]
        /\ keep'[r] = LastOf(Keep, Ledger) /\ \A b \in Runs : b # r => keep'[b] = keep[b]
    BY <1>4 DEF RunTypes, FileInv, FileTypes
  <2>3. PICK n \in 0 .. Len(recorded) : Stored = LastOf(n, recorded)
    BY DEF FileInv, EndOfHistory
  <2>4. recorded \in Seq(Record) /\ Len(recorded) \in Nat
    BY LenProperties DEF FileInv, FileTypes
  <2>5. Ledger = LastOf(n, recorded)
    BY <2>3, LedgerIsStored DEF FileInv
  <2>6. Len(Ledger) = n /\ Keep \in 0 .. n /\ Keep \in 0 .. Len(recorded)
    BY <1>4, <2>4, <2>5, LastOfSeq, Bounds
  <2>7. LastOf(Keep, Ledger) = LastOf(Keep, recorded) /\ LastOf(Keep, recorded) \in Seq(Record)
    BY <2>4, <2>5, <2>6, LastOfLast, LastOfSeq
  <2>8. FileTypes'
    BY <1>4, <2>1, <2>7 DEF FileInv, FileTypes
  <2>9. OpenInv'
    BY <1>1, <2>1, <2>2 DEF FileInv, OpenInv
  <2>10. EndOfHistory(Stored)'
    BY <2>1 DEF FileInv, EndOfHistory, Stored
  <2>11. RewriteInv'
    BY <2>1, <2>2, <2>4, <2>6, <2>7 DEF FileInv, RewriteInv, Rewriting
  <2> QED BY <2>8, <2>9, <2>10, <2>11 DEF FileInv
<1>5. Len(Ledger) \in Nat
  <2>1. Stored \in Seq(Record) /\ Ledger = Stored
    BY LedgerIsStored DEF FileInv
  <2> QED BY <2>1, LenProperties
<1> QED BY <1>3, <1>4, <1>5, Bounds DEF CountLines, Goes

LEMMA CreateKeepsFiles ==
  ASSUME FileInv, RunTypes, NEW r \in Runs, CreateTmp(r), ~Overlapping
  PROVE  FileInv'
<1>1. /\ pc[r] = "create" /\ pc' = [pc EXCEPT ![r] = "copy"] /\ fd' = [fd EXCEPT ![r] = tmp']
      /\ done' = [done EXCEPT ![r] = 0] /\ content' = [content EXCEPT ![tmp'] = <<>>]
      /\ UNCHANGED <<ledger, keep, recorded>>
  BY DEF CreateTmp, Goes, history
<1>2. tmp' \in Inodes /\ tmp' # ledger
  BY FreshInodeExists DEF CreateTmp, FileInv, FileTypes
<1>3. /\ pc'[r] = "copy" /\ fd'[r] = tmp' /\ done'[r] = 0 /\ content'[tmp'] = <<>>
      /\ \A b \in Runs : b # r => pc'[b] = pc[b] /\ fd'[b] = fd[b] /\ done'[b] = done[b]
  BY <1>1, <1>2 DEF RunTypes, FileInv, FileTypes
<1>4. \A b \in Runs \ {r} : ~Rewriting(b) /\ ~Rewriting(b)' /\ pc'[b] # "write"
  BY <1>1, <1>3, RewritesAlone DEF Rewriting
<1>5. FileTypes'
  <2>1. <<>> \in Seq(Record)
    OBVIOUS
  <2> QED BY <1>1, <1>2, <2>1 DEF FileInv, FileTypes
<1>6. OpenInv'
  BY <1>1, <1>2, <1>3, <1>4, Bounds DEF FileInv, OpenInv, Rewriting
<1>7. EndOfHistory(Stored)'
  <2>1. Stored' = Stored
    BY <1>1, <1>2 DEF Stored, FileInv, FileTypes
  <2> QED BY <1>1, <2>1 DEF FileInv, EndOfHistory
<1>8. RewriteInv'
  <2>1. keep[r] = LastOf(Keep, recorded) /\ Keep <= Len(recorded)
    BY <1>1 DEF FileInv, RewriteInv, Rewriting
  <2>2. SubSeq(keep[r], 1, 0) = <<>>
    BY SubSeqEmpty
  <2> QED BY <1>1, <1>3, <1>4, <2>1, <2>2, Bounds DEF RewriteInv, Rewriting
<1> QED BY <1>5, <1>6, <1>7, <1>8 DEF FileInv

\* One line more of a sequence, written behind those before it.
LEMMA OneLineMore ==
  ASSUME NEW S, NEW s \in Seq(S), NEW d \in Nat, d < Len(s)
  PROVE  /\ WrittenAt(SubSeq(s, 1, d), d + 1, s[d + 1]) = SubSeq(s, 1, d + 1)
         /\ SubSeq(s, 1, d + 1) \in Seq(S)
<1>1. Len(s) \in Nat /\ \A i \in 1 .. Len(s) : s[i] \in S
  BY LenProperties, ElementOfSeq
<1>2. /\ SubSeq(s, 1, d) \in Seq(S) /\ Len(SubSeq(s, 1, d)) = d
      /\ \A i \in 1 .. d : SubSeq(s, 1, d)[i] = s[i]
  <2>1. 1 \in Int /\ d \in Int /\ \A i \in 1 .. d : s[i] \in S
    BY <1>1
  <2>2. /\ SubSeq(s, 1, d) \in Seq(S) /\ Len(SubSeq(s, 1, d)) = IF 1 <= d THEN d - 1 + 1 ELSE 0
        /\ \A i \in 1 .. d - 1 + 1 : SubSeq(s, 1, d)[i] = s[1 + i - 1]
    BY <2>1, SubSeqProperties
  <2> QED BY <2>2
<1> DEFINE t == SubSeq(s, 1, d + 1)
<1>3. t \in Seq(S) /\ Len(t) = d + 1 /\ \A i \in 1 .. d + 1 : t[i] = s[i]
  <2>1. 1 \in Int /\ d + 1 \in Int /\ \A i \in 1 .. d + 1 : s[i] \in S
    BY <1>1
  <2>2. /\ t \in Seq(S) /\ Len(t) = IF 1 <= d + 1 THEN d + 1 - 1 + 1 ELSE 0
        /\ \A i \in 1 .. d + 1 - 1 + 1 : t[i] = s[1 + i - 1]
    BY <2>1, SubSeqProperties
  <2> HIDE DEF t
  <2> QED BY <2>2
<1> HIDE DEF t
<1>4. t = [i \in 1 .. d + 1 |-> s[i]]
  <2>1. t \in [1 .. d + 1 -> S]
    BY <1>3, LenProperties
  <2> QED BY <1>3, <2>1
<1>5. WrittenAt(SubSeq(s, 1, d), d + 1, s[d + 1]) = [i \in 1 .. d + 1 |-> s[i]]
  BY <1>2 DEF WrittenAt
<1> QED BY <1>3, <1>4, <1>5 DEF t

LEMMA CopyKeepsFiles ==
  ASSUME FileInv, RunTypes, NEW r \in Runs, CopyLine(r), ~Overlapping
  PROVE  FileInv'
<1> DEFINE d == done[r]
           next == IF d + 1 < Len(keep[r]) THEN "copy" ELSE "rename"
<1>1. /\ pc[r] = "copy" /\ pc' = [pc EXCEPT ![r] = next] /\ done' = [done EXCEPT ![r] = d + 1]
      /\ content' = [content EXCEPT
                       ![fd[r]] = WrittenAt(content[fd[r]], d + 1, keep[r][d + 1])]
      /\ fd' = [fd EXCEPT ![r] = IF done'[r] < Len(keep[r]) THEN fd[r] ELSE None]
      /\ UNCHANGED <<ledger, tmp, keep, recorded>>
  BY DEF CopyLine, Goes, history, FileInv, FileTypes
<1>2. /\ d \in Nat /\ d < Keep /\ Keep <= Len(recorded) /\ keep[r] = LastOf(Keep, recorded)
      /\ tmp \in Inodes /\ tmp # None /\ tmp # ledger /\ fd[r] = tmp
      /\ content[tmp] = SubSeq(keep[r], 1, d) /\ keep[r] \in Seq(Record)
  BY <1>1, Bounds DEF FileInv, FileTypes, OpenInv, RewriteInv, Rewriting
<1>3. Len(keep[r]) = Keep
  <2>1. recorded \in Seq(Record) /\ Keep \in 0 .. Len(recorded)
    BY <1>2, LenProperties, Bounds DEF FileInv, FileTypes
  <2> QED BY <1>2, <2>1, LastOfSeq
<1>4. /\ content' = [content EXCEPT ![tmp] = SubSeq(keep[r], 1, d + 1)]
      /\ SubSeq(keep[r], 1, d + 1) \in Seq(Record)
  BY <1>1, <1>2, <1>3, OneLineMore
<1>5. /\ pc'[r] = next /\ done'[r] = d + 1 /\ content'[tmp] = SubSeq(keep[r], 1, d + 1)
      /\ fd'[r] = IF d + 1 < Keep THEN tmp ELSE None
      /\ \A b \in Runs : b # r => pc'[b] = pc[b] /\ fd'[b] = fd[b] /\ done'[b] = done[b]
  BY <1>1, <1>2, <1>3, <1>4 DEF RunTypes, FileInv, FileTypes
<1>6. next = IF d + 1 < Keep THEN "copy" ELSE "rename"
  BY <1>3
<1>7. \A b \in Runs \ {r} : ~Rewriting(b) /\ ~Rewriting(b)' /\ pc'[b] # "write"
  BY <1>1, <1>5, RewritesAlone DEF Rewriting
<1>8. FileTypes'
  <2>1. content' \in [Inodes -> Seq(Record)]
    BY <1>4 DEF FileInv, FileTypes
  <2>2. done' \in [Runs -> Nat]
    BY <1>1, <1>2 DEF FileInv, FileTypes
  <2>3. fd' \in [Runs -> Inodes \union {None}]
    BY <1>1, <1>2 DEF FileInv, FileTypes
  <2> QED BY <1>1, <2>1, <2>2, <2>3 DEF FileInv, FileTypes
<1> HIDE DEF d, next
<1>9. OpenInv'
  BY <1>1, <1>2, <1>5, <1>6, <1>7 DEF FileInv, OpenInv, Rewriting
<1>10. EndOfHistory(Stored)'
  <2>1. Stored' = Stored
    BY <1>1, <1>2, <1>4 DEF Stored, FileInv, FileTypes
  <2> QED BY <1>1, <2>1 DEF FileInv, EndOfHistory
<1>11. RewriteInv'
  <2>1. ~(d + 1 < Keep) => content'[tmp] = keep[r]
    <3>1. ~(d + 1 < Keep) => d + 1 = Len(keep[r])
      BY <1>2, <1>3, Bounds
    <3> QED BY <1>2, <1>5, <3>1, SubSeqFull
  <2>2. keep'[r] = keep[r] /\ tmp' = tmp /\ recorded' = recorded
    BY <1>1
  <2>3. ASSUME NEW b \in Runs \ {r}
        PROVE  pc'[b] \notin {"create", "copy", "rename"}
    BY <1>7 DEF Rewriting
  <2>4. /\ Rewriting(r)' => Keep <= Len(recorded') /\ keep'[r] = LastOf(Keep, recorded')
        /\ pc'[r] = "copy" => done'[r] < Keep /\ content'[tmp'] = SubSeq(keep'[r], 1, done'[r])
        /\ pc'[r] = "rename" => tmp' # None /\ content'[tmp'] = keep'[r]
    BY <1>2, <1>5, <1>6, <2>1, <2>2
  <2> QED BY <2>3, <2>4 DEF RewriteInv, Rewriting
<1> QED BY <1>8, <1>9, <1>10, <1>11 DEF FileInv

\* The rename puts the newest Keep records in place of the ledger.
LEMMA RenameKeepsFiles ==
  ASSUME FileInv, RunTypes, NEW r \in Runs, RenameTmp(r), ~Overlapping
  PROVE  FileInv'
<1>1. /\ pc[r] = "rename" /\ pc' = [pc EXCEPT ![r] = "over"] /\ tmp' = None
      /\ UNCHANGED <<content, fd, keep, done, recorded>>
  BY DEF RenameTmp, Goes, history, rewrite
<1>2. /\ Keep <= Len(recorded) /\ keep[r] = LastOf(Keep, recorded)
      /\ tmp # None /\ content[tmp] = keep[r] /\ ledger' = tmp
  BY <1>1 DEF FileInv, RewriteInv, Rewriting, RenameTmp
<1>3. pc'[r] = "over" /\ \A b \in Runs : b # r => pc'[b] = pc[b]
  BY <1>1 DEF RunTypes
<1>4. \A b \in Runs \ {r} : ~Rewriting(b) /\ pc'[b] # "write"
  BY <1>1, <1>3, RewritesAlone DEF Rewriting
<1>5. FileTypes'
  BY <1>1, <1>2 DEF FileInv, FileTypes
<1>6. OpenInv'
  BY <1>1, <1>3, <1>4 DEF FileInv, OpenInv, Rewriting
<1>7. EndOfHistory(Stored)'
  <2>1. Stored' = LastOf(Keep, recorded')
    BY <1>1, <1>2 DEF Stored
  <2>2. Keep \in 0 .. Len(recorded') /\ Keep >= Keep
    <3>1. Len(recorded) \in Nat
      BY LenProperties DEF FileInv, FileTypes
    <3> QED BY <1>1, <1>2, <3>1, Bounds
  <2> QED BY <2>1, <2>2 DEF EndOfHistory
<1>8. RewriteInv'
  BY <1>3, <1>4 DEF RewriteInv, Rewriting
<1> QED BY <1>5, <1>6, <1>7, <1>8 DEF FileInv

\* No step of a run spoils the files, as long as no record is cut short.
LEMMA StepKeepsFiles ==
  ASSUME FileInv, RunTypes, ~Overlapping, ~Overlapping', ~torn',
         NEW r \in Runs, RunStep(r)
  PROVE  FileInv'
<1>0. fd \in [Runs -> Inodes \union {None}]
  BY DEF FileInv, FileTypes
<1>1. CASE Start(r) \/ Refuse(r) \/ GuardResume(r) \/ CooledDown(r) \/ StripResume(r)
             \/ Launch(r) \/ ClaudeEnds(r)
  <2>1. PICK to \in Places \ {"write", "create", "copy", "rename"} :
          pc' = [pc EXCEPT ![r] = to] /\ pc[r] \notin {"write", "copy"}
    BY <1>1 DEF Start, Refuse, GuardResume, CooledDown, StripResume, Launch, ClaudeEnds,
                Goes, Places
  <2>2. UNCHANGED <<files, fd, keep, done, recorded>>
    BY <1>1 DEF Start, Refuse, GuardResume, CooledDown, StripResume, Launch, ClaudeEnds,
                rewrite, history
  <2>3. fd' = [fd EXCEPT ![r] = None]
    BY <1>0, <2>1, <2>2 DEF FileInv, OpenInv
  <2> QED BY <2>1, <2>2, <2>3, FilesAside
<1>2. CASE OpenLedger(r)
  BY <1>2, OpenKeepsFiles
<1>3. CASE WriteRecord(r)
  BY <1>3, RecordKeepsFiles
<1>4. CASE WriteFails(r) \/ PruneFails(r) \/ Kill(r)
  <2>1. pc' = [pc EXCEPT ![r] = "over"] /\ fd' = [fd EXCEPT ![r] = None]
    BY <1>4 DEF WriteFails, PruneFails, Kill, Goes
  <2>2. UNCHANGED <<files, keep, done, recorded>>
    BY <1>4 DEF WriteFails, PruneFails, Kill, files, history
  <2> QED BY <2>1, <2>2, FilesAside DEF Places
<1>5. CASE CountLines(r)
  BY <1>5, CountKeepsFiles
<1>6. CASE CreateTmp(r)
  BY <1>6, CreateKeepsFiles
<1>7. CASE CopyLine(r)
  BY <1>7, CopyKeepsFiles
<1>8. CASE RenameTmp(r)
  BY <1>8, RenameKeepsFiles
<1> QED BY <1>1, <1>2, <1>3, <1>4, <1>5, <1>6, <1>7, <1>8 DEF RunStep

----------------------------------------------------------------------------
(* The guard *)

\* After the guard a run's steps leave alone what it saw and decided.
LEMMA GuardAside ==
  ASSUME GuardInv, RunTypes, NEW r \in Runs,
         NEW to \in Places \ {"new", "guard", "cooling", "strip", "launch"},
         pc' = [pc EXCEPT ![r] = to], UNCHANGED <<invocation, seen>>
  PROVE  GuardInv'
<1>1. pc'[r] = to /\ \A b \in Runs : b # r => pc'[b] = pc[b]
  BY DEF RunTypes
<1>2. UNCHANGED <<guard, asks, resumed, streakAt, held, blind>>
  BY DEF invocation, seen
<1>3. \A b \in Runs : Resuming(b)' => Resuming(b)
  BY <1>1, <1>2 DEF Resuming
<1> QED BY <1>1, <1>2, <1>3 DEF GuardInv

\* What the guard reads lies between the newest Keep records and all of them.
LEMMA GuardSees ==
  ASSUME FileInv, NEW dir
  PROVE  /\ Crashes(dir, Newest) \in Nat /\ Crashes(dir, recorded) \in Nat
         /\ Streak(dir, Ledger) \in Nat
         /\ Crashes(dir, Newest) <= Streak(dir, Ledger)
         /\ Streak(dir, Ledger) <= Crashes(dir, recorded)
<1>1. PICK n \in 0 .. Len(recorded) :
        (n >= Keep \/ n = Len(recorded)) /\ Stored = LastOf(n, recorded)
  BY DEF FileInv, EndOfHistory
<1>2. recorded \in Seq(Record) /\ Len(recorded) \in Nat
  BY LenProperties DEF FileInv, FileTypes
<1>3. Ledger = LastOf(n, recorded) /\ Ledger \in Seq(Record)
  BY <1>1, LedgerIsStored DEF FileInv
<1>4. Streak(dir, Ledger) = Crashes(dir, LastOf(n, recorded))
  BY <1>3, StreakIsCrashes
<1> DEFINE m == IF Len(recorded) < Keep THEN Len(recorded) ELSE Keep
<1>5. m \in 0 .. n /\ Newest = LastOf(m, recorded)
  BY <1>1, <1>2, Bounds DEF Newest
<1> HIDE DEF m
<1>6. /\ Crashes(dir, LastOf(m, recorded)) \in Nat /\ Crashes(dir, LastOf(n, recorded)) \in Nat
      /\ Crashes(dir, LastOf(m, recorded)) <= Crashes(dir, LastOf(n, recorded))
  BY <1>2, <1>5, CrashesGrow
<1>7. Crashes(dir, recorded) \in Nat /\ Crashes(dir, LastOf(n, recorded)) <= Crashes(dir, recorded)
  BY <1>2, CrashesOfLast
<1> QED BY <1>4, <1>5, <1>6, <1>7

\* The guard itself: it lets a run pass only on a short streak, unless it could
\* not read the ledger or its mode lets it, and holds it only on a long one.
LEMMA GuardDecides ==
  ASSUME GuardInv, FileInv, RunTypes, NEW r \in Runs, GuardResume(r)
  PROVE  GuardInv' /\ RunTypes'
<1> DEFINE streak(readable) == IF readable THEN Streak(DirOf[r], Ledger) ELSE 0
           new == Crashes(DirOf[r], Newest)
           all == Crashes(DirOf[r], recorded)
<1>1. PICK readable \in BOOLEAN, verdict \in {"launch", "cooling", "strip", "over"} :
        /\ verdict \in Verdicts(guard[r], streak(readable))
        /\ IF readable THEN UNCHANGED <<blind, faults>>
           ELSE faults < MaxFaults /\ faults' = faults + 1 /\ blind' = blind \union {r}
        /\ Goes(r, "guard", verdict)
        /\ held' = IF verdict \in {"strip", "over"} THEN held \union {r} ELSE held
  BY DEF GuardResume
<1>2. /\ streakAt' = [streakAt EXCEPT ![r] = [new |-> new, all |-> all]]
      /\ UNCHANGED <<guard, asks, resumed>>
  BY DEF GuardResume, invocation
<1>3. /\ new \in Nat /\ all \in Nat /\ streak(readable) \in Nat
      /\ readable => new <= streak(readable)
      /\ streak(readable) <= all
  BY GuardSees
<1> HIDE DEF streak, new, all
<1>4. /\ pc[r] = "guard" /\ pc' = [pc EXCEPT ![r] = verdict] /\ pc'[r] = verdict
      /\ streakAt'[r].new = new /\ streakAt'[r].all = all
      /\ \A b \in Runs : b # r => pc'[b] = pc[b] /\ streakAt'[b] = streakAt[b]
  BY <1>1, <1>2 DEF Goes, RunTypes
<1>5. RunTypes'
  <2>1. verdict \in Places
    BY DEF Places
  <2> QED BY <1>2, <1>3, <1>4, <2>1 DEF RunTypes
<1>6. r \notin resumed /\ r \notin held
  BY <1>4 DEF GuardInv
<1>7. ASSUME NEW b \in Runs, b # r
      PROVE  /\ pc'[b] = "cooling" => guard'[b] = "backoff"
             /\ b \in resumed' => pc'[b] \notin {"new", "guard", "cooling", "strip", "launch"}
             /\ b \in held' => pc'[b] \notin {"new", "guard"} /\ streakAt'[b].all >= Threshold
             /\ Resuming(b)' => streakAt'[b].new < Threshold
  <2>1. (b \in held' <=> b \in held) /\ (b \in blind' <=> b \in blind)
    BY <1>1, <1>7
  <2>2. Resuming(b)' => Resuming(b)
    BY <1>2, <1>4, <1>7, <2>1 DEF Resuming
  <2> QED BY <1>2, <1>4, <1>7, <2>1, <2>2 DEF GuardInv
<1>8. verdict = "cooling" => guard[r] = "backoff"
  BY <1>1 DEF RunTypes, Verdicts
<1>9. r \in held' => verdict \in {"strip", "over"} /\ all >= Threshold
  <2>1. verdict \in {"strip", "over"} => streak(readable) >= Threshold
    BY <1>1, <1>3, Bounds DEF Verdicts
  <2> QED BY <1>1, <1>3, <1>6, <2>1, Bounds
<1>10. Resuming(r)' => new < Threshold
  <2>1. SUFFICES ASSUME Resuming(r)' PROVE new < Threshold
    OBVIOUS
  <2>2. verdict = "launch" /\ guard[r] \in {"fresh", "block"} /\ r \notin blind'
    BY <1>2, <1>4, <1>6, <2>1 DEF Resuming
  <2>3. readable
    BY <1>1, <2>2
  <2>4. streak(readable) < Threshold
    <3>1. ~(streak(readable) < Threshold) => Verdicts(guard[r], streak(readable)) \subseteq {"strip", "over"}
      <4>1. CASE guard[r] = "fresh"
        BY <4>1 DEF Verdicts
      <4>2. CASE guard[r] = "block"
        BY <4>2 DEF Verdicts
      <4> QED BY <2>2, <4>1, <4>2
    <3> QED BY <1>1, <2>2, <3>1
  <2>5. new <= streak(readable) /\ new \in Nat /\ streak(readable) \in Nat
    BY <1>3, <2>3, Zenon
  <2>6. ASSUME NEW s \in Nat, new <= s, s < Threshold, new \in Nat PROVE new < Threshold
    BY <2>6, Bounds
  <2> QED BY <2>4, <2>5, <2>6
<1>11. GuardInv'
  <2>1. /\ pc'[r] = "cooling" => guard'[r] = "backoff"
        /\ r \in resumed' => pc'[r] \notin {"new", "guard", "cooling", "strip", "launch"}
        /\ r \in held' => pc'[r] \notin {"new", "guard"} /\ streakAt'[r].all >= Threshold
        /\ Resuming(r)' => streakAt'[r].new < Threshold
    BY <1>2, <1>4, <1>6, <1>8, <1>9, <1>10
  <2> QED BY <1>7, <2>1 DEF GuardInv
<1> QED BY <1>5, <1>11

\* Every step of a run keeps what its guard saw in line with what it did.
LEMMA StepKeepsGuard ==
  ASSUME GuardInv, FileInv, RunTypes, NEW r \in Runs, RunStep(r)
  PROVE  GuardInv' /\ RunTypes'
<1>1. CASE Start(r)
  <2>1. PICK ask \in [resume : BOOLEAN, forced : BOOLEAN], on \in {mode, "unset"} :
          /\ asks' = [asks EXCEPT ![r] = ask]
          /\ guard' = [guard EXCEPT ![r] = ResolveGuard(on)]
          /\ Goes(r, "new", IF ask.resume /\ ~ask.forced THEN "guard" ELSE "launch")
    BY <1>1 DEF Start
  <2> DEFINE to == IF ask.resume /\ ~ask.forced THEN "guard" ELSE "launch"
  <2>2. UNCHANGED <<resumed, streakAt, held, blind>>
    BY <1>1 DEF Start, seen
  <2>3. ResolveGuard(on) \in {"warn", "backoff", "prompt", "fresh", "block"} /\ to \in Places
    BY DEF ResolveGuard, Places
  <2>4. RunTypes' /\ pc[r] = "new" /\ pc'[r] = to /\ asks'[r] = ask
        /\ \A b \in Runs : b # r => pc'[b] = pc[b] /\ guard'[b] = guard[b] /\ asks'[b] = asks[b]
    BY <2>1, <2>2, <2>3 DEF Goes, RunTypes
  <2>5. r \notin resumed /\ r \notin held
    BY <2>4 DEF GuardInv
  <2>6. \A b \in Runs : Resuming(b)' => b # r /\ Resuming(b)
    BY <2>2, <2>4, <2>5 DEF Resuming
  <2> QED BY <2>2, <2>4, <2>5, <2>6 DEF GuardInv
<1>2. CASE GuardResume(r)
  BY <1>2, GuardDecides
<1>3. CASE CooledDown(r) \/ StripResume(r) \/ Launch(r)
  <2>1. /\ pc[r] \in {"cooling", "strip", "launch"}
        /\ pc' = [pc EXCEPT ![r] = IF pc[r] = "launch" THEN "running" ELSE "launch"]
        /\ UNCHANGED <<guard, streakAt, held, blind>>
    BY <1>3 DEF CooledDown, StripResume, Launch, Goes, invocation, seen
  <2>2. /\ pc'[r] = IF pc[r] = "launch" THEN "running" ELSE "launch"
        /\ \A b \in Runs : b # r => pc'[b] = pc[b]
    BY <2>1 DEF RunTypes
  <2>3. /\ \A b \in Runs : b # r => asks'[b] = asks[b] /\ (b \in resumed' <=> b \in resumed)
        /\ asks'[r] \in [resume : BOOLEAN, forced : BOOLEAN]
        /\ asks' \in [Runs -> [resume : BOOLEAN, forced : BOOLEAN]]
        /\ asks'[r].forced = asks[r].forced
    BY <1>3 DEF CooledDown, StripResume, Launch, invocation, RunTypes
  <2>4. RunTypes'
    BY <2>1, <2>3 DEF RunTypes, Places
  <2>5. \A b \in Runs : b # r => (Resuming(b)' <=> Resuming(b))
    BY <2>1, <2>2, <2>3 DEF Resuming
  <2>6. Resuming(r)' => Resuming(r)
    <3>1. CASE CooledDown(r)
      <4>1. pc[r] = "cooling" /\ guard[r] = "backoff"
        BY <3>1 DEF CooledDown, Goes, GuardInv
      <4> QED BY <2>1, <4>1 DEF Resuming
    <3>2. CASE StripResume(r)
      <4>1. pc[r] = "strip" /\ ~asks'[r].resume /\ resumed' = resumed /\ r \notin resumed
        BY <3>2 DEF StripResume, Goes, GuardInv, RunTypes
      <4> QED BY <4>1 DEF Resuming
    <3>3. CASE Launch(r)
      <4>1. /\ pc[r] = "launch" /\ pc'[r] # "launch" /\ asks' = asks
            /\ r \in resumed' => r \in resumed \/ asks[r].resume
        BY <2>2, <3>3 DEF Launch, Goes
      <4> QED BY <2>1, <4>1 DEF Resuming
    <3> QED BY <1>3, <3>1, <3>2, <3>3
  <2>7. r \in resumed' => pc'[r] \notin {"new", "guard", "cooling", "strip", "launch"}
    <3>1. r \notin resumed
      BY <2>1 DEF GuardInv
    <3> QED BY <1>3, <2>2, <3>1 DEF CooledDown, StripResume, Launch, Goes, invocation
  <2> QED BY <2>1, <2>2, <2>3, <2>4, <2>5, <2>6, <2>7 DEF GuardInv
<1>4. CASE Refuse(r) \/ ClaudeEnds(r) \/ OpenLedger(r) \/ WriteRecord(r) \/ WriteFails(r)
             \/ CountLines(r) \/ CreateTmp(r) \/ CopyLine(r) \/ RenameTmp(r)
             \/ PruneFails(r) \/ Kill(r)
  <2>1. PICK to \in Places \ {"new", "guard", "cooling", "strip", "launch"} :
          pc' = [pc EXCEPT ![r] = to]
    BY <1>4 DEF Refuse, ClaudeEnds, OpenLedger, WriteRecord, WriteFails, CountLines, CreateTmp,
                CopyLine, RenameTmp, PruneFails, Kill, Goes, Places
  <2>2. UNCHANGED <<invocation, seen>>
    BY <1>4 DEF Refuse, ClaudeEnds, OpenLedger, WriteRecord, WriteFails, CountLines, CreateTmp,
                CopyLine, RenameTmp, PruneFails, Kill
  <2>3. RunTypes'
    BY <2>1, <2>2 DEF RunTypes, invocation, seen
  <2> QED BY <2>1, <2>2, <2>3, GuardAside
<1> QED BY <1>1, <1>2, <1>3, <1>4 DEF RunStep

----------------------------------------------------------------------------
(* The theorems *)

LEMMA LedgerInvStep == LedgerInv /\ [RunsNext]_ledgerVars => LedgerInv'
<1> SUFFICES ASSUME LedgerInv, [RunsNext]_ledgerVars, ~overlap', ~torn' PROVE Sound'
  BY DEF LedgerInv
<1>1. CASE UNCHANGED ledgerVars
  <2>1. UNCHANGED <<pc, guard, asks, resumed, streakAt, held, blind, ledger, tmp, content,
                    fd, keep, done, recorded, overlap, torn>>
    BY <1>1 DEF ledgerVars, files, invocation, rewrite, history, seen
  <2>2. Sound
    BY <2>1 DEF LedgerInv
  <2>3. RunTypes' /\ GuardInv'
    BY <2>1, <2>2 DEF Sound, RunTypes, GuardInv, Resuming
  <2>4. FileTypes' /\ OpenInv'
    BY <2>1, <2>2 DEF Sound, FileInv, FileTypes, OpenInv
  <2>5. EndOfHistory(Stored)' /\ RewriteInv' /\ ~Overlapping'
    BY <2>1, <2>2 DEF Sound, FileInv, EndOfHistory, Stored, RewriteInv, Rewriting, Overlapping
  <2> QED BY <2>3, <2>4, <2>5 DEF Sound, FileInv
<1>2. CASE RunsNext
  <2>1. PICK r \in Runs : RunStep(r)
    BY <1>2 DEF RunsNext
  <2>2. ~overlap /\ ~Overlapping'
    BY <1>2 DEF RunsNext
  <2>3. ~torn
    BY <2>1 DEF RunStep, Start, Refuse, GuardResume, CooledDown, StripResume, Launch, ClaudeEnds,
                OpenLedger, WriteRecord, WriteFails, CountLines, CreateTmp, CopyLine, RenameTmp,
                PruneFails, Kill, history
  <2>4. Sound
    BY <2>2, <2>3 DEF LedgerInv
  <2>5. FileInv'
    BY <2>1, <2>2, <2>4, StepKeepsFiles DEF Sound
  <2>6. GuardInv' /\ RunTypes'
    BY <2>1, <2>4, StepKeepsGuard DEF Sound
  <2> QED BY <2>2, <2>5, <2>6 DEF Sound
<1> QED BY <1>1, <1>2

\* However many runs share the ledger, and whatever of theirs fails or is
\* killed, it is the newest end of what they recorded, at least Keep records of
\* it, until a rewrite runs beside an append or another rewrite or a record is
\* cut short (ledger.go:37-88).
THEOREM LedgerKeepsTheEnd == RunsSpec => []LedgerIsTheEnd
<1>1. LedgerInv => LedgerIsTheEnd
  <2> SUFFICES ASSUME Sound PROVE LedgerIsTheEnd
    BY DEF LedgerInv, LedgerIsTheEnd
  <2>1. Ledger = Stored
    BY LedgerIsStored DEF Sound, FileInv
  <2> QED BY <2>1 DEF Sound, FileInv, EndOfHistory, LedgerIsTheEnd
<1> QED BY <1>1, LedgerInvInit, LedgerInvStep, PTL DEF RunsSpec

\* For any threshold and any history a run that resumes under "fresh" or
\* "block" was forced, could not read the ledger or had too few crashes behind
\* it among the newest records; and none is held back without a crash loop of
\* its own directory (guard.go:122-177).
THEOREM GuardJudgesRightly == RunsSpec => []GuardIsRight
<1>1. LedgerInv => GuardIsRight
  BY DEF LedgerInv, Sound, GuardInv, Resuming, GuardIsRight
<1> QED BY <1>1, LedgerInvInit, LedgerInvStep, PTL DEF RunsSpec

=============================================================================
