------------------------------ MODULE HostProofs ------------------------------
(***************************************************************************)
(* What the commands of module Host leave on a host, for any number of     *)
(* updates, installs, failing calls and commands.                          *)
(*                                                                         *)
(* ConfigIsValidated is inductive once it also says what the command that  *)
(* is about to write has been told (ConfigInv).  DoctorIsRight follows     *)
(* from what doctor has looked at so far (DoctorInv), as long as nobody    *)
(* else takes a step, and from ConfigInv: doctor's own check of the store  *)
(* is not needed for it.                                                   *)
(*                                                                         *)
(* InstalledIsWhole needs to know what the one update that copies has      *)
(* written so far (UpdaterInv), and what an install reports follows from   *)
(* what it has done with the units before the one it has come to           *)
(* (ServicesInv).                                                          *)
(***************************************************************************)
EXTENDS Host, FiniteSetTheorems, SequenceTheorems, TLAPS

Positions == {"idle", "validate", "truncate", "write", "over"}

\* The client writes nothing its store has turned down.
ConfigInv ==
  /\ platform \in {"systemd", "launchd", "server"}
  /\ config \in {"absent", "partial"} \union Answers
  /\ answers \in Answers
  /\ cpc \in Positions
  /\ ~Server /\ cpc \in {"truncate", "write"} => answers # "bad"
  /\ ConfigIsValidated

LEMMA ConfigInvInit == ConfigInit => ConfigInv
  BY DEF ConfigInit, ConfigInv, ConfigIsValidated, Server, Answers, Positions

\* Whoever passes validation did not answer "bad".
LEMMA BadDoesNotValidate ==
  ASSUME NEW s \in StoreOf("bad") PROVE ~Validates(s)
  <1>1. s \in Stores /\ s.ping # "ok"
    BY DEF StoreOf
  <1>2. StoreResults(s).bucket = FALSE
    BY <1>1 DEF StoreResults, AuthAndBucket, Stores
  <1>3. "bucket" \in DOMAIN StoreResults(s)
    BY DEF StoreResults
  <1>4. QED
    BY <1>2, <1>3 DEF Validates

\* Every step of the configuration commands keeps the invariant.
LEMMA ConfigInvStep == ConfigInv /\ [ConfigNext]_configVars => ConfigInv'
  <1> SUFFICES ASSUME ConfigInv, [ConfigNext]_configVars PROVE ConfigInv'
    OBVIOUS
  <1> USE DEF ConfigInv, ConfigIsValidated, Server, Answers, Positions, ConfigGoes
  <1>1. CASE RunWizard
    BY <1>1 DEF RunWizard
  <1>2. CASE CollectFields
    BY <1>2 DEF CollectFields
  <1>3. CASE Validate
    <2>1. PICK s \in StoreOf(answers) :
            ConfigGoes("validate", IF Validates(s) THEN "truncate" ELSE "over")
      BY <1>3 DEF Validate
    <2>2. answers = "bad" => ~Validates(s)
      BY <2>1, BadDoesNotValidate
    <2>3. QED
      BY <1>3, <2>1, <2>2 DEF Validate
  <1>4. CASE PingAllServices
    BY <1>4 DEF PingAllServices
  <1>5. CASE TruncateConfig
    BY <1>5 DEF TruncateConfig
  <1>6. CASE WriteConfig
    BY <1>6 DEF WriteConfig
  <1>7. CASE KillConfigure
    BY <1>7 DEF KillConfigure
  <1>8. CASE ConfigAgain
    BY <1>8 DEF ConfigAgain
  <1>9. CASE UNCHANGED configVars
    BY <1>9 DEF configVars
  <1>10. QED
    BY <1>1, <1>2, <1>3, <1>4, <1>5, <1>6, <1>7, <1>8, <1>9 DEF ConfigNext

\* A client's configuration has passed every check when it is in place, however
\* installs, updates, reboots and doctor mix with the command (wizard.go:310-322).
THEOREM ConfigStaysValidated == HostSpec => []ConfigIsValidated
  <1>1. HostInit => ConfigInv
    BY ConfigInvInit DEF HostInit
  <1>2. ConfigInv /\ [HostNext]_hostVars => ConfigInv'
    <2>1. [HostNext]_hostVars => [ConfigNext]_configVars
      BY DEF HostNext, WorldStep, hostVars, worldVars
    <2>2. QED
      BY <2>1, ConfigInvStep
  <1>3. ConfigInv => ConfigIsValidated
    BY DEF ConfigInv
  <1>4. QED
    BY <1>1, <1>2, <1>3, PTL DEF HostSpec

----------------------------------------------------------------------------
\* What doctor knows at each of its steps, if nobody interfered.
DoctorInv ==
  /\ dpc # "idle" => ~Server
  /\ dpc \in {"idle", "config", "units", "bare", "port", "store", "over"}
  /\ dpc = "bare" => ~clean
  /\ quiet /\ clean =>
       /\ dpc \in {"units", "port", "store", "over"} => LoadClient
       /\ dpc \in {"port", "store", "over"} => \A u \in Here : ~UnitFails(u)
       /\ dpc \in {"store", "over"} => running["proxy"] # Absent

\* A unit that does not fail is kept, and on launchd it has a process.
LEMMA NoFailure ==
  ASSUME NEW u, ~UnitFails(u)
  PROVE  u \in active /\ (platform = "launchd" => running[u] # Absent)
  <1>1. UnitState(u) # "inactive" /\ UnitState(u) # "not running"
    BY DEF UnitFails
  <1>2. CASE u \notin active
    BY <1>1, <1>2 DEF UnitState
  <1>3. CASE u \in active /\ running[u] # Absent
    BY <1>3
  <1>4. CASE u \in active /\ running[u] = Absent
    BY <1>1, <1>4 DEF UnitState
  <1>5. QED
    BY <1>2, <1>3, <1>4

\* The client's units.
LEMMA ClientUnits == ~Server => {"proxy", "ship"} \subseteq Here
  <1> SUFFICES ASSUME ~Server PROVE "proxy" \in Here /\ "ship" \in Here
    OBVIOUS
  <1>1. UnitSeq = <<"proxy", "ship">>
    BY DEF UnitSeq
  <1>2. 1 \in DOMAIN UnitSeq /\ 2 \in DOMAIN UnitSeq
    BY <1>1
  <1>3. UnitSeq[1] = "proxy" /\ UnitSeq[2] = "ship"
    BY <1>1
  <1>4. QED
    BY <1>2, <1>3 DEF Here

\* While only doctor steps, what it looks at does not change; once somebody
\* else does, quiet is over.
LEMMA DoctorInvStep == DoctorInv /\ [HostNext]_hostVars => DoctorInv'
  <1> SUFFICES ASSUME DoctorInv, [HostNext]_hostVars PROVE DoctorInv'
    OBVIOUS
  <1>1. CASE DoctorStep /\ UNCHANGED worldVars
    <2>1. /\ UNCHANGED <<platform, config, active, running>>
          /\ Server' = Server /\ LoadClient' = LoadClient /\ Here' = Here
          /\ \A u : UnitFails(u)' = UnitFails(u)
      BY <1>1 DEF worldVars, configVars, serviceVars, managerVars, Server, LoadClient,
                  Complete, Here, UnitSeq, UnitFails, UnitState
    <2> USE DEF DoctorInv, DoctorGoes
    <2>2. CASE DoctorStarts
      BY <2>1, <2>2 DEF DoctorStarts
    <2>3. CASE CheckConfig
      BY <2>1, <2>3 DEF CheckConfig
    <2>4. CASE RunWithoutConfig
      BY <2>1, <2>4 DEF RunWithoutConfig
    <2>5. CASE CheckUnits
      BY <2>1, <2>5 DEF CheckUnits
    <2>6. CASE CheckPort
      <3>1. clean' => clean /\ running["proxy"] # Absent
        BY <2>6 DEF CheckPort
      <3>2. QED
        BY <2>1, <2>6, <3>1 DEF CheckPort
    <2>7. CASE CheckStore
      <3>1. clean' => clean
        BY <2>7 DEF CheckStore
      <3>2. QED
        BY <2>1, <2>7, <3>1 DEF CheckStore
    <2>8. QED
      BY <1>1, <2>2, <2>3, <2>4, <2>5, <2>6, <2>7 DEF DoctorStep
  <1>2. CASE WorldStep /\ quiet' = FALSE /\ UNCHANGED <<dpc, clean>>
    <2>1. platform' = platform
      BY <1>2 DEF WorldStep, configVars, ConfigNext, RunWizard, CollectFields, Validate,
                  PingAllServices, TruncateConfig, WriteConfig, KillConfigure, ConfigAgain
    <2>2. QED
      BY <1>2, <2>1 DEF DoctorInv, Server
  <1>3. CASE UNCHANGED hostVars
    <2>1. /\ UNCHANGED <<platform, config, active, running, dpc, clean, quiet>>
          /\ Server' = Server /\ LoadClient' = LoadClient /\ Here' = Here
          /\ \A u : UnitFails(u)' = UnitFails(u)
      BY <1>3 DEF hostVars, worldVars, doctorVars, configVars, serviceVars, managerVars,
                  Server, LoadClient, Complete, Here, UnitSeq, UnitFails, UnitState
    <2>2. QED
      BY <2>1 DEF DoctorInv
  <1>4. QED
    BY <1>1, <1>2, <1>3 DEF HostNext

\* When doctor exits with 0 and nobody interfered, there is a validated
\* configuration, the proxy runs and the shipper is kept (doctor.go:192-295).
THEOREM DoctorTellsTheTruth == HostSpec => []DoctorIsRight
  <1>1. HostInit => ConfigInv /\ DoctorInv
    BY ConfigInvInit DEF HostInit, DoctorInv
  <1>2. ConfigInv /\ DoctorInv /\ [HostNext]_hostVars => (ConfigInv /\ DoctorInv)'
    <2>1. [HostNext]_hostVars => [ConfigNext]_configVars
      BY DEF HostNext, WorldStep, hostVars, worldVars
    <2>2. QED
      BY <2>1, ConfigInvStep, DoctorInvStep
  <1>3. ConfigInv /\ DoctorInv => DoctorIsRight
    <2> SUFFICES ASSUME ConfigInv, DoctorInv, dpc = "over", clean, quiet
                 PROVE  /\ config = "good" /\ running["proxy"] # Absent
                        /\ "ship" \in active
                        /\ platform = "launchd" => running["ship"] # Absent
      BY DEF DoctorIsRight
    <2>1. ~Server /\ LoadClient /\ (\A u \in Here : ~UnitFails(u)) /\ running["proxy"] # Absent
      BY DEF DoctorInv
    <2>2. config = "good"
      BY <2>1 DEF LoadClient, Complete, ConfigInv, ConfigIsValidated
    <2>3. ~UnitFails("ship")
      BY <2>1, ClientUnits
    <2>4. QED
      BY <2>1, <2>2, <2>3, NoFailure
  <1>4. QED
    BY <1>1, <1>2, <1>3, PTL DEF HostSpec


----------------------------------------------------------------------------
(* The binary *)

Phases == {"idle", "fetch", "download", "verify", "replace", "opentmp", "copy", "copy2",
           "swap", "over"}
Verified == {"replace", "opentmp", "copy", "copy2", "swap"}

\* What a file holds of a binary: nothing, its first chunk, or two chunks, with
\* a hole where the first should be if another update emptied the file meanwhile.
First == Versions \union {Hole}
Pieces == {<<>>} \union {<<v>> : v \in First} \union {<<v, w>> : v \in First, w \in Versions}

\* An update has the shared file open only while it copies, and copies only what
\* was verified.
UpdaterTypes ==
  /\ target \in Bins /\ tmpBin \in (Bins \union {None}) \ {target}
  /\ bits \in [Bins -> Pieces]
  /\ upc \in [Updaters -> Phases]
  /\ rel \in [Updaters -> Versions \union {0}]
  /\ staged \in [Updaters -> Versions \union {0}]
  /\ out \in [Updaters -> Bins \union {None}]
  /\ \A u \in Updaters :
       /\ out[u] # None <=> upc[u] \in {"copy", "copy2"}
       /\ upc[u] \in Verified => staged[u] \in Versions

\* InstalledIsWhole is inductive once it says what the one update that copies
\* has written so far.
CopyIsWhole(u) ==
  /\ upc[u] = "copy" => out[u] = tmpBin /\ bits[tmpBin] = <<>>
  /\ upc[u] = "copy2" => out[u] = tmpBin /\ bits[tmpBin] = <<staged[u]>>
  /\ upc[u] = "swap" => tmpBin # None /\ bits[tmpBin] = Binary(staged[u])

OneCopy ==
  ~shared =>
    /\ bits[target] \in WholeBinaries
    /\ \A a, b \in Updaters : Copying(a) /\ Copying(b) => a = b
    /\ \A u \in Updaters : CopyIsWhole(u)

UpdaterInv == UpdaterTypes /\ OneCopy

LEMMA BinNumbers == Bins \subseteq Nat \ {0} /\ None \notin Bins /\ 1 \in Bins
                      /\ Cardinality(Updaters) \in Nat
  <1>1. Cardinality(Updaters) \in Nat
    BY UpdatersAssumption, FS_CardinalityType
  <1>2. QED
    BY <1>1, BinNoneAssumption DEF Bins

\* There is always an inode for an update that has none: two are named and the
\* others have one each.
LEMMA FreshBinExists ==
  ASSUME UpdaterTypes, NEW u \in Updaters, out[u] = None
  PROVE  /\ FreshBin \in Bins \ {target, tmpBin}
         /\ \A v \in Updaters : out[v] # FreshBin
  <1> DEFINE N == Cardinality(Updaters)
             Others == Updaters \ {u}
             Open == {out[v] : v \in Others}
             Taken == (Open \union {target}) \union {tmpBin}
  <1>1. IsFiniteSet(Others) /\ Cardinality(Others) = N - 1 /\ N \in Nat
    BY UpdatersAssumption, FS_RemoveElement, BinNumbers
  <1>2. IsFiniteSet(Open) /\ Cardinality(Open) <= N - 1
    <2>1. [v \in Others |-> out[v]] \in Surjection(Others, Open)
      BY DEF Surjection
    <2>2. IsFiniteSet(Open) /\ Cardinality(Open) <= Cardinality(Others)
      <3> HIDE DEF Open, Others
      <3>1. QED
        BY <1>1, <2>1, FS_Surjection
    <2>3. QED
      BY <1>1, <2>2
  <1>3. Cardinality(Open) \in Nat
    BY <1>2, FS_CardinalityType
  <1> HIDE DEF Open
  <1>4. IsFiniteSet(Open \union {target})
        /\ Cardinality(Open \union {target}) \in {Cardinality(Open), Cardinality(Open) + 1}
    BY <1>2, FS_AddElement
  <1>5. IsFiniteSet(Taken) /\ Cardinality(Taken) <= N + 1
    <2>1. Cardinality(Taken) \in
            {Cardinality(Open \union {target}), Cardinality(Open \union {target}) + 1}
          /\ IsFiniteSet(Taken)
      BY <1>4, FS_AddElement
    <2>2. QED
      BY <1>1, <1>2, <1>3, <1>4, <2>1
  <1>6. Cardinality(Bins) = N + 2
    <2>1. Cardinality(1 .. (N + 2)) = IF 1 > N + 2 THEN 0 ELSE (N + 2) - 1 + 1
      BY <1>1, FS_Interval
    <2>2. QED
      BY <1>1, <2>1 DEF Bins
  <1>7. ~(Bins \subseteq Taken)
    <2> SUFFICES ASSUME Bins \in SUBSET Taken PROVE FALSE
      OBVIOUS
    <2>1. Cardinality(Bins) <= Cardinality(Taken)
      <3> HIDE DEF Taken
      <3>1. QED
        BY <1>5, FS_Subset
    <2>2. Cardinality(Taken) \in Nat
      BY <1>5, FS_CardinalityType
    <2>3. QED
      BY <1>1, <1>5, <1>6, <2>1, <2>2
  <1>8. PICK i \in Bins : i \notin {target, tmpBin} /\ \A v \in Updaters : out[v] # i
    <2>1. PICK i \in Bins : i \notin Taken
      BY <1>7
    <2>2. \A v \in Updaters : out[v] # i
      BY <2>1, BinNumbers DEF Open
    <2>3. QED
      BY <2>1, <2>2
  <1>9. QED
    BY <1>8 DEF FreshBin

LEMMA UpdaterInvInit == UpdaterInit => UpdaterInv
  <1> SUFFICES ASSUME UpdaterInit PROVE UpdaterInv
    OBVIOUS
  <1>1. PICK v \in Versions : bits = [i \in Bins |-> IF i = 1 THEN Binary(v) ELSE <<>>]
    BY DEF UpdaterInit
  <1>2. Binary(v) \in Pieces /\ <<>> \in Pieces /\ Binary(v) \in WholeBinaries
    BY DEF Binary, Pieces, First, WholeBinaries
  <1>3. target = 1 /\ tmpBin = None /\ bits \in [Bins -> Pieces] /\ bits[1] = Binary(v)
    BY <1>1, <1>2, BinNumbers DEF UpdaterInit
  <1>4. UpdaterTypes
    BY <1>3, BinNumbers DEF UpdaterInit, UpdaterTypes, Phases, Verified
  <1>5. OneCopy
    BY <1>2, <1>3 DEF UpdaterInit, OneCopy, Copying, CopyIsWhole
  <1>6. QED
    BY <1>4, <1>5 DEF UpdaterInv


\* The pieces an update turns a file into.
LEMMA PiecesKept ==
  ASSUME NEW b \in Pieces, NEW v \in Versions
  PROVE  /\ <<v>> \o SubSeq(b, 2, Len(b)) \in Pieces
         /\ (IF b = <<>> THEN <<Hole, v>> ELSE <<b[1], v>>) \in Pieces
         /\ b = <<>> => <<v>> \o SubSeq(b, 2, Len(b)) = <<v>>
  <1>0. <<v>> \in Seq(First) /\ <<v>> \o <<>> = <<v>>
    <2>1. <<v>> \in Seq(First)
      BY DEF First
    <2>2. QED
      BY <2>1, ConcatEmptySeq
  <1>1. CASE b = <<>>
    <2>1. SubSeq(b, 2, 0) = <<>> /\ Len(b) = 0
      BY <1>1, SubSeqEmpty
    <2>2. <<v>> \o SubSeq(b, 2, Len(b)) = <<v>>
      BY <1>0, <2>1
    <2>3. <<v>> \in Pieces /\ <<Hole, v>> \in Pieces
      BY DEF Pieces, First
    <2>4. QED
      BY <1>1, <2>2, <2>3
  <1>2. ASSUME NEW a \in First, b = <<a>> PROVE <<v>> \o SubSeq(b, 2, Len(b)) = <<v>> /\ b[1] = a
    <2>1. SubSeq(b, 2, 1) = <<>> /\ Len(b) = 1 /\ b[1] = a
      BY <1>2, SubSeqEmpty
    <2>2. QED
      BY <1>0, <2>1
  <1>3. ASSUME NEW a \in First, NEW w \in Versions, b = <<a, w>>
        PROVE  <<v>> \o SubSeq(b, 2, Len(b)) = <<v, w>> /\ b[1] = a
    <2>1. Len(b) = 2 /\ b[1] = a /\ b[2] = w
      BY <1>3
    <2> DEFINE s == SubSeq(b, 2, 2)
    <2>2. s \in Seq(First) /\ Len(s) = 1 /\ s[1] = w
      <3>1. \A i \in 2 .. 2 : b[i] \in First
        BY <2>1 DEF First
      <3>2. /\ s \in Seq(First) /\ Len(s) = (IF 2 <= 2 THEN 2 - 2 + 1 ELSE 0)
            /\ \A i \in 1 .. 2 - 2 + 1 : s[i] = b[2 + i - 1]
        BY <3>1, SubSeqProperties
      <3>3. QED
        BY <2>1, <3>2
    <2> HIDE DEF s
    <2>3. <<v>> \o s \in Seq(First) /\ Len(<<v>> \o s) = 2
          /\ (<<v>> \o s)[1] = v /\ (<<v>> \o s)[2] = w
      <3>1. Len(<<v>>) = 1 /\ <<v>>[1] = v
        OBVIOUS
      <3>2. /\ <<v>> \o s \in Seq(First) /\ Len(<<v>> \o s) = Len(<<v>>) + Len(s)
            /\ \A i \in 1 .. Len(<<v>>) + Len(s) :
                 (<<v>> \o s)[i] = IF i <= Len(<<v>>) THEN <<v>>[i] ELSE s[i - Len(<<v>>)]
        BY <1>0, <2>2, ConcatProperties
      <3>3. QED
        BY <2>2, <3>1, <3>2
    <2>4. <<v, w>> \in Seq(First) /\ Len(<<v, w>>) = 2 /\ <<v, w>>[1] = v /\ <<v, w>>[2] = w
      BY DEF First
    <2>5. <<v>> \o s = <<v, w>>
      <3>1. \A i \in 1 .. 2 : (<<v>> \o s)[i] = <<v, w>>[i]
        BY <2>3, <2>4
      <3>2. QED
        BY <2>3, <2>4, <3>1, SeqEqual
    <2>6. QED
      BY <2>1, <2>5 DEF s
  <1>4. CASE \E a \in First : b = <<a>>
    BY <1>2, <1>4 DEF Pieces, First
  <1>5. CASE \E a \in First, w \in Versions : b = <<a, w>>
    BY <1>3, <1>5 DEF Pieces, First
  <1>6. QED
    BY <1>1, <1>4, <1>5 DEF Pieces

\* Up to the replacement an update touches no binary.
Prepare(u) ==
  StartUpdate(u) \/ FetchLatest(u) \/ Download(u) \/ VerifyChecksum(u) \/ UpdateFails(u)

LEMMA PrepareStep ==
  ASSUME UpdaterTypes, NEW u \in Updaters, Prepare(u)
  PROVE  /\ UNCHANGED <<binVars, out>>
         /\ rel' \in [Updaters -> Versions \union {0}]
         /\ staged' \in [Updaters -> Versions \union {0}]
         /\ \A v \in Updaters : upc'[v] \in Verified => staged'[v] \in Versions
         /\ \A v \in Updaters \ {u} : staged'[v] = staged[v]
         /\ upc[u] \in {"idle", "fetch", "download", "verify"}
         /\ \E to \in {"fetch", "download", "verify", "replace", "over"} :
              upc' = [upc EXCEPT ![u] = to]
  <1> USE DEF UpdateGoes
  <1>1. CASE StartUpdate(u) \/ UpdateFails(u)
    BY <1>1 DEF StartUpdate, UpdateFails, UpdaterTypes, Verified, Phases
  <1>2. CASE FetchLatest(u)
    BY <1>2 DEF FetchLatest, UpdaterTypes, Verified, Phases
  <1>3. CASE Download(u)
    <2>1. PICK v \in {rel[u], 0} : staged' = [staged EXCEPT ![u] = v]
      BY <1>3 DEF Download
    <2>2. QED
      BY <1>3, <2>1 DEF Download, UpdaterTypes, Verified, Phases
  <1>4. CASE VerifyChecksum(u)
    BY <1>4 DEF VerifyChecksum, UpdaterTypes, Verified, Phases
  <1>5. QED
    BY <1>1, <1>2, <1>3, <1>4 DEF Prepare

\* Each step keeps the types.
LEMMA UpdaterTypesStep ==
  ASSUME UpdaterTypes, NEW u \in Updaters, UpdateStep(u)
  PROVE  UpdaterTypes'
  <1> USE DEF UpdateGoes
  <1>0. None \notin Bins /\ None \notin Nat
    BY BinNumbers, BinNoneAssumption
  <1>1. CASE Prepare(u)
    <2>1. PICK to \in {"fetch", "download", "verify", "replace", "over"} :
            upc' = [upc EXCEPT ![u] = to]
      BY <1>1, PrepareStep
    <2>2. UNCHANGED <<target, tmpBin, bits, out>> /\ upc[u] \notin {"copy", "copy2"}
      BY <1>1, PrepareStep DEF binVars
    <2>3. \A v \in Updaters : upc'[v] \in {"copy", "copy2"} <=> upc[v] \in {"copy", "copy2"}
      BY <2>1, <2>2 DEF UpdaterTypes
    <2>4. upc' \in [Updaters -> Phases]
      BY <2>1 DEF UpdaterTypes, Phases
    <2>5. QED
      BY <1>1, <2>2, <2>3, <2>4, PrepareStep DEF UpdaterTypes
  <1>2. CASE Replace(u)
    <2>1. /\ UNCHANGED <<tmpBin, rel, staged, out>> /\ upc[u] = "replace"
          /\ \E to \in {"over", "opentmp"} : upc' = [upc EXCEPT ![u] = to]
          /\ \/ UNCHANGED <<target, bits>>
             \/ target' = FreshBin /\ bits' = [bits EXCEPT ![FreshBin] = Binary(staged[u])]
      BY <1>2 DEF Replace, binVars
    <2>2. FreshBin \in Bins \ {tmpBin} /\ Binary(staged[u]) \in Pieces
      <3>1. out[u] = None /\ staged[u] \in Versions
        BY <2>1 DEF UpdaterTypes, Verified
      <3>2. QED
        BY <3>1, FreshBinExists DEF Binary, Pieces, First
    <2>3. target' \in Bins /\ tmpBin' \in (Bins \union {None}) \ {target'} /\ bits' \in [Bins -> Pieces]
      BY <2>1, <2>2 DEF UpdaterTypes
    <2>4. QED
      BY <2>1, <2>3 DEF UpdaterTypes, Phases, Verified
  <1>3. CASE OpenTmp(u)
    <2>1. UNCHANGED <<target, rel, staged>> /\ upc[u] = "opentmp"
      BY <1>3 DEF OpenTmp
    <2>2. CASE ~writable
      BY <1>3, <2>1, <2>2 DEF OpenTmp, UpdaterTypes, Phases, Verified
    <2>3. CASE writable
      <3>1. /\ upc' = [upc EXCEPT ![u] = "copy"]
            /\ tmpBin' = IF tmpBin = None THEN FreshBin ELSE tmpBin
            /\ bits' = [bits EXCEPT ![tmpBin'] = <<>>]
            /\ out' = [out EXCEPT ![u] = tmpBin']
        BY <1>3, <2>3 DEF OpenTmp
      <3>2. FreshBin \in Bins \ {target}
        BY <2>1, FreshBinExists DEF UpdaterTypes
      <3>3. tmpBin' \in Bins \ {target}
        BY <3>1, <3>2 DEF UpdaterTypes
      <3>4. <<>> \in Pieces
        BY DEF Pieces
      <3>5. bits' \in [Bins -> Pieces]
        BY <3>1, <3>3, <3>4 DEF UpdaterTypes
      <3>6. QED
        BY <1>0, <2>1, <3>1, <3>3, <3>5 DEF UpdaterTypes, Phases, Verified
    <2>4. QED
      BY <2>2, <2>3
  <1>4. CASE CopyFirst(u)
    <2>1. /\ UNCHANGED <<target, tmpBin, rel, staged, out>> /\ upc[u] = "copy"
          /\ upc' = [upc EXCEPT ![u] = "copy2"]
          /\ bits' = [bits EXCEPT ![out[u]] = <<staged[u]>> \o SubSeq(@, 2, Len(@))]
      BY <1>4 DEF CopyFirst
    <2>2. out[u] \in Bins /\ staged[u] \in Versions /\ bits[out[u]] \in Pieces
      BY <2>1 DEF UpdaterTypes, Verified
    <2>3. bits' \in [Bins -> Pieces]
      BY <2>1, <2>2, PiecesKept DEF UpdaterTypes
    <2>4. QED
      BY <2>1, <2>3 DEF UpdaterTypes, Phases, Verified
  <1>5. CASE CopySecond(u)
    <2>1. /\ UNCHANGED <<target, tmpBin, rel, staged>> /\ upc[u] = "copy2"
          /\ upc' = [upc EXCEPT ![u] = "swap"] /\ out' = [out EXCEPT ![u] = None]
          /\ bits' = [bits EXCEPT ![out[u]] =
                        IF @ = <<>> THEN <<Hole, staged[u]>> ELSE <<@[1], staged[u]>>]
      BY <1>5 DEF CopySecond
    <2>2. out[u] \in Bins /\ staged[u] \in Versions /\ bits[out[u]] \in Pieces
      BY <2>1 DEF UpdaterTypes, Verified
    <2>3. bits' \in [Bins -> Pieces]
      BY <2>1, <2>2, PiecesKept DEF UpdaterTypes
    <2>4. QED
      BY <2>1, <2>3 DEF UpdaterTypes, Phases, Verified
  <1>6. CASE CopyFails(u) \/ KillUpdate(u)
    BY <1>0, <1>6 DEF CopyFails, KillUpdate, UpdaterTypes, Phases, Verified, binVars
  <1>7. CASE SwapBinary(u)
    <2>1. UNCHANGED <<bits, rel, staged, out>> /\ tmpBin' = None /\ upc[u] = "swap"
          /\ upc' = [upc EXCEPT ![u] = "over"] /\ target' \in Bins
      BY <1>7 DEF SwapBinary, UpdaterTypes
    <2>2. QED
      BY <1>0, <2>1 DEF UpdaterTypes, Phases, Verified
  <1>8. QED
    BY <1>1, <1>2, <1>3, <1>4, <1>5, <1>6, <1>7 DEF UpdateStep, Prepare


\* While no two updates use the shared file, each step of the one that does
\* leaves there what a whole copy has written so far.
LEMMA OneCopyStep ==
  ASSUME UpdaterTypes, OneCopy, UpdaterTypes', NEW u \in Updaters, UpdateStep(u),
         shared' = (shared \/ \E a, b \in Updaters : a # b /\ Copying(a)' /\ Copying(b)')
  PROVE  OneCopy'
  <1> SUFFICES ASSUME ~shared' PROVE /\ bits'[target'] \in WholeBinaries
                                     /\ \A v \in Updaters : CopyIsWhole(v)'
    BY DEF OneCopy
  <1> USE DEF UpdateGoes
  <1>0. /\ ~shared /\ bits[target] \in WholeBinaries
        /\ \A v \in Updaters : CopyIsWhole(v)
        /\ \A a, b \in Updaters : Copying(a) /\ Copying(b) => a = b
        /\ \A a, b \in Updaters : Copying(a)' /\ Copying(b)' => a = b
    BY DEF OneCopy
  <1>1. ASSUME NEW to \in Phases, upc' = [upc EXCEPT ![u] = to]
        PROVE  upc'[u] = to /\ \A v \in Updaters \ {u} : upc'[v] = upc[v]
    BY <1>1 DEF UpdaterTypes
  <1>2. ASSUME UNCHANGED <<tmpBin, out>>, \A v \in Updaters \ {u} : upc'[v] = upc[v] /\ staged'[v] = staged[v],
               tmpBin # None => bits'[tmpBin] = bits[tmpBin],
               upc'[u] \notin {"copy", "copy2", "swap"}
        PROVE  \A v \in Updaters : CopyIsWhole(v)'
    <2> SUFFICES ASSUME NEW v \in Updaters PROVE CopyIsWhole(v)'
      OBVIOUS
    <2>1. CASE v = u
      BY <1>2, <2>1 DEF CopyIsWhole
    <2>2. CASE v # u
      <3>1. upc'[v] = upc[v] /\ staged'[v] = staged[v] /\ CopyIsWhole(v)
        BY <1>0, <1>2, <2>2
      <3>2. out[v] = tmpBin /\ upc[v] \in {"copy", "copy2"} => tmpBin # None
        BY DEF UpdaterTypes
      <3>3. QED
        BY <1>2, <3>1, <3>2 DEF CopyIsWhole
    <2>3. QED
      BY <2>1, <2>2
  <1>3. ASSUME Copying(u) \/ Copying(u)'
        PROVE  \A v \in Updaters \ {u} : upc'[v] = upc[v] => ~Copying(v)' /\ CopyIsWhole(v)'
    <2> SUFFICES ASSUME NEW v \in Updaters \ {u}, upc'[v] = upc[v]
                 PROVE  ~Copying(v)' /\ CopyIsWhole(v)'
      OBVIOUS
    <2>1. ~Copying(v)'
      BY <1>0, <1>3 DEF Copying
    <2>2. QED
      BY <2>1 DEF Copying, CopyIsWhole
  <1>4. CASE Prepare(u)
    <2>1. UNCHANGED <<target, tmpBin, bits, out>>
          /\ \A v \in Updaters \ {u} : staged'[v] = staged[v]
      BY <1>4, PrepareStep DEF binVars
    <2>2. PICK to \in {"fetch", "download", "verify", "replace", "over"} :
            upc' = [upc EXCEPT ![u] = to]
      BY <1>4, PrepareStep
    <2>3. upc'[u] = to /\ \A v \in Updaters \ {u} : upc'[v] = upc[v]
      BY <1>1, <2>2 DEF Phases
    <2>4. QED
      BY <1>0, <1>2, <2>1, <2>3
  <1>5. CASE Replace(u)
    <2>1. PICK to \in {"over", "opentmp"} : upc' = [upc EXCEPT ![u] = to]
      BY <1>5 DEF Replace
    <2>2. UNCHANGED <<tmpBin, staged, out>> /\ upc[u] = "replace"
          /\ \/ UNCHANGED <<target, bits>>
             \/ target' = FreshBin /\ bits' = [bits EXCEPT ![FreshBin] = Binary(staged[u])]
      BY <1>5 DEF Replace, binVars
    <2>3. out[u] = None /\ staged[u] \in Versions
      BY <2>2 DEF UpdaterTypes, Verified
    <2>4. FreshBin \in Bins \ {tmpBin}
      BY <2>3, FreshBinExists
    <2>5. bits'[target'] \in WholeBinaries /\ (tmpBin # None => bits'[tmpBin] = bits[tmpBin])
      BY <1>0, <2>2, <2>3, <2>4 DEF UpdaterTypes, WholeBinaries
    <2>6. upc'[u] = to /\ \A v \in Updaters \ {u} : upc'[v] = upc[v]
      BY <1>1, <2>1 DEF Phases
    <2>7. QED
      BY <1>2, <2>2, <2>5, <2>6
  <1>6. CASE OpenTmp(u)
    <2>1. UNCHANGED <<target, staged>> /\ upc[u] = "opentmp"
      BY <1>6 DEF OpenTmp
    <2>2. CASE ~writable
      <3>1. upc' = [upc EXCEPT ![u] = "over"] /\ UNCHANGED <<tmpBin, bits, out>>
        BY <1>6, <2>2 DEF OpenTmp
      <3>2. upc'[u] = "over" /\ \A v \in Updaters \ {u} : upc'[v] = upc[v]
        BY <1>1, <3>1 DEF Phases
      <3>3. QED
        BY <1>0, <1>2, <2>1, <3>1, <3>2
    <2>3. CASE writable
      <3>1. /\ upc' = [upc EXCEPT ![u] = "copy"] /\ out' = [out EXCEPT ![u] = tmpBin']
            /\ bits' = [bits EXCEPT ![tmpBin'] = <<>>]
            /\ tmpBin' = IF tmpBin = None THEN FreshBin ELSE tmpBin
        BY <1>6, <2>3 DEF OpenTmp
      <3>2. upc'[u] = "copy" /\ \A v \in Updaters \ {u} : upc'[v] = upc[v]
        BY <1>1, <3>1 DEF Phases
      <3>3. FreshBin \in Bins \ {target}
        BY <2>1, FreshBinExists DEF UpdaterTypes
      <3>4. tmpBin' \in Bins \ {target}
        BY <3>1, <3>3 DEF UpdaterTypes
      <3>5. bits'[tmpBin'] = <<>> /\ bits'[target'] = bits[target] /\ out'[u] = tmpBin'
        BY <2>1, <3>1, <3>4 DEF UpdaterTypes
      <3>6. CopyIsWhole(u)'
        BY <3>2, <3>5 DEF CopyIsWhole
      <3>7. \A v \in Updaters \ {u} : CopyIsWhole(v)'
        BY <1>3, <3>2 DEF Copying
      <3>8. QED
        BY <1>0, <3>5, <3>6, <3>7
    <2>4. QED
      BY <2>2, <2>3
  <1>7. CASE CopyFirst(u)
    <2>1. /\ UNCHANGED <<target, tmpBin, staged, out>> /\ upc[u] = "copy"
          /\ upc' = [upc EXCEPT ![u] = "copy2"]
          /\ bits' = [bits EXCEPT ![out[u]] = <<staged[u]>> \o SubSeq(@, 2, Len(@))]
      BY <1>7 DEF CopyFirst
    <2>2. out[u] = tmpBin /\ bits[tmpBin] = <<>> /\ tmpBin \in Bins \ {target}
          /\ staged[u] \in Versions
      BY <1>0, <2>1 DEF CopyIsWhole, UpdaterTypes, Verified
    <2>3. bits'[tmpBin] = <<staged[u]>> /\ bits'[target] = bits[target]
      <3>1. <<staged[u]>> \o SubSeq(bits[tmpBin], 2, Len(bits[tmpBin])) = <<staged[u]>>
        BY <2>2, PiecesKept DEF UpdaterTypes
      <3>2. QED
        BY <2>1, <2>2, <3>1 DEF UpdaterTypes
    <2>4. upc'[u] = "copy2" /\ \A v \in Updaters \ {u} : upc'[v] = upc[v]
      BY <1>1, <2>1 DEF Phases
    <2>5. CopyIsWhole(u)'
      BY <2>1, <2>2, <2>3, <2>4 DEF CopyIsWhole
    <2>6. \A v \in Updaters \ {u} : CopyIsWhole(v)'
      BY <1>3, <2>4 DEF Copying
    <2>7. QED
      BY <1>0, <2>1, <2>3, <2>5, <2>6
  <1>8. CASE CopySecond(u)
    <2>1. /\ UNCHANGED <<target, tmpBin, staged>> /\ upc[u] = "copy2"
          /\ upc' = [upc EXCEPT ![u] = "swap"]
          /\ bits' = [bits EXCEPT ![out[u]] =
                        IF @ = <<>> THEN <<Hole, staged[u]>> ELSE <<@[1], staged[u]>>]
      BY <1>8 DEF CopySecond
    <2>2. out[u] = tmpBin /\ bits[tmpBin] = <<staged[u]>> /\ tmpBin \in Bins \ {target}
          /\ tmpBin # None
      BY <1>0, <2>1, BinNumbers DEF CopyIsWhole, UpdaterTypes
    <2>3. bits'[tmpBin] = Binary(staged[u]) /\ bits'[target] = bits[target]
      <3>1. <<staged[u]>> # <<>> /\ <<staged[u]>>[1] = staged[u]
        OBVIOUS
      <3>2. QED
        BY <2>1, <2>2, <3>1 DEF UpdaterTypes, Binary
    <2>4. upc'[u] = "swap" /\ \A v \in Updaters \ {u} : upc'[v] = upc[v]
      BY <1>1, <2>1 DEF Phases
    <2>5. CopyIsWhole(u)'
      BY <2>1, <2>2, <2>3, <2>4 DEF CopyIsWhole, Binary
    <2>6. \A v \in Updaters \ {u} : CopyIsWhole(v)'
      BY <1>3, <2>4 DEF Copying
    <2>7. QED
      BY <1>0, <2>1, <2>3, <2>5, <2>6
  <1>9. CASE CopyFails(u) \/ SwapBinary(u)
    <2>1. /\ bits' = bits /\ upc[u] \in {"copy", "copy2", "swap"}
          /\ upc' = [upc EXCEPT ![u] = "over"]
          /\ \/ target' = target
             \/ upc[u] = "swap" /\ tmpBin # None /\ target' = tmpBin
      BY <1>9 DEF CopyFails, SwapBinary
    <2>2. upc'[u] = "over" /\ \A v \in Updaters \ {u} : upc'[v] = upc[v]
      BY <1>1, <2>1 DEF Phases
    <2>3. bits'[target'] \in WholeBinaries
      <3>1. CASE upc[u] = "swap" /\ target' = tmpBin
        <4>1. staged[u] \in Versions /\ bits[tmpBin] = Binary(staged[u])
          BY <1>0, <3>1 DEF CopyIsWhole, UpdaterTypes, Verified
        <4>2. QED
          BY <2>1, <3>1, <4>1 DEF WholeBinaries
      <3>2. QED
        BY <1>0, <2>1, <3>1
    <2>4. CopyIsWhole(u)'
      BY <2>2 DEF CopyIsWhole
    <2>5. \A v \in Updaters \ {u} : CopyIsWhole(v)'
      BY <1>3, <2>1, <2>2 DEF Copying
    <2>6. QED
      BY <2>3, <2>4, <2>5
  <1>10. CASE KillUpdate(u)
    <2>1. UNCHANGED <<target, tmpBin, bits, staged>> /\ upc' = [upc EXCEPT ![u] = "over"]
          /\ out' = [out EXCEPT ![u] = None]
      BY <1>10 DEF KillUpdate, binVars
    <2>2. upc'[u] = "over" /\ \A v \in Updaters \ {u} : upc'[v] = upc[v] /\ out'[v] = out[v]
      BY <1>1, <2>1 DEF Phases, UpdaterTypes
    <2>3. \A v \in Updaters : CopyIsWhole(v)'
      BY <1>0, <2>1, <2>2 DEF CopyIsWhole
    <2>4. QED
      BY <1>0, <2>1, <2>3
  <1>11. QED
    BY <1>4, <1>5, <1>6, <1>7, <1>8, <1>9, <1>10 DEF UpdateStep, Prepare

LEMMA UpdaterInvStep == UpdaterInv /\ [HostNext]_hostVars => UpdaterInv'
  <1> SUFFICES ASSUME UpdaterInv, [HostNext]_hostVars PROVE UpdaterInv'
    OBVIOUS
  <1>1. UpdaterNext \/ UNCHANGED updaterVars
    BY DEF HostNext, WorldStep, hostVars, worldVars
  <1>2. CASE UpdaterNext
    BY <1>2, UpdaterTypesStep, OneCopyStep DEF UpdaterInv, UpdaterNext
  <1>3. CASE UNCHANGED updaterVars
    BY <1>3 DEF updaterVars, binVars, updateVars, UpdaterInv, UpdaterTypes, OneCopy, Copying,
                CopyIsWhole
  <1>4. QED
    BY <1>1, <1>2, <1>3

\* Whatever updates run, fail or are killed, nothing unverified is ever in the
\* binary's place, and a binary that is not whole takes two updates that use the
\* shared path at one time (update.go:157-170, 305-337).
THEOREM BinaryStaysWhole == HostSpec => []InstalledIsWhole
  <1>1. HostInit => UpdaterInv
    BY UpdaterInvInit DEF HostInit
  <1>2. UpdaterInv => InstalledIsWhole
    <2> SUFFICES ASSUME UpdaterInv PROVE InstalledIsWhole
      OBVIOUS
    <2>1. target # None /\ bits[target] \in Pieces
      BY BinNumbers DEF UpdaterInv, UpdaterTypes
    <2>2. 0 \notin First
      BY VersionsAssumption DEF First, Hole
    <2>3. \A i \in DOMAIN bits[target] : bits[target][i] # 0
      BY <2>1, <2>2 DEF Pieces, First
    <2>4. bits[target] \notin WholeBinaries => shared
      BY DEF UpdaterInv, OneCopy
    <2>5. QED
      BY <2>1, <2>3, <2>4 DEF InstalledIsWhole
  <1>3. QED
    BY <1>1, <1>2, UpdaterInvStep, PTL DEF HostSpec


----------------------------------------------------------------------------
(* What an install command says *)

\* The units before the one a command has come to.
Before(n) == {UnitSeq[i] : i \in 1 .. (n - 1)}

LEMMA UnitsInOrder ==
  ASSUME NEW n \in DOMAIN UnitSeq
  PROVE  /\ UnitSeq[n] \in Here /\ UnitSeq[n] \notin Before(n)
         /\ 1 \in DOMAIN UnitSeq /\ Before(1) = {} /\ Before(n) \subseteq Here
         /\ n < Len(UnitSeq) => n + 1 \in DOMAIN UnitSeq
                                /\ Before(n + 1) = Before(n) \union {UnitSeq[n]}
         /\ ~(n < Len(UnitSeq)) => Here = Before(n) \union {UnitSeq[n]}
         /\ Here \subseteq Units /\ Started \subseteq Here
  <1>1. CASE Server
    <2>1. /\ DOMAIN UnitSeq = 1 .. 3 /\ Len(UnitSeq) = 3
          /\ UnitSeq[1] = "process" /\ UnitSeq[2] = "generate" /\ UnitSeq[3] = "timer"
      BY <1>1 DEF UnitSeq
    <2>2. Here = {"process", "generate", "timer"}
      BY <2>1 DEF Here
    <2>3. /\ Before(1) = {} /\ Before(2) = {"process"} /\ Before(3) = {"process", "generate"}
      BY <2>1 DEF Before
    <2>4. CASE n = 1
      BY <2>1, <2>2, <2>3, <2>4 DEF Units, Started
    <2>5. CASE n = 2
      BY <2>1, <2>2, <2>3, <2>5 DEF Units, Started
    <2>6. CASE n = 3
      BY <2>1, <2>2, <2>3, <2>6 DEF Units, Started
    <2>7. QED
      BY <2>1, <2>4, <2>5, <2>6
  <1>2. CASE ~Server
    <2>1. /\ DOMAIN UnitSeq = 1 .. 2 /\ Len(UnitSeq) = 2
          /\ UnitSeq[1] = "proxy" /\ UnitSeq[2] = "ship"
      BY <1>2 DEF UnitSeq
    <2>2. Here = {"proxy", "ship"}
      BY <2>1 DEF Here
    <2>3. /\ Before(1) = {} /\ Before(2) = {"proxy"}
      BY <2>1 DEF Before
    <2>4. CASE n = 1
      BY <2>1, <2>2, <2>3, <2>4 DEF Units, Started
    <2>5. CASE n = 2
      BY <2>1, <2>2, <2>3, <2>5 DEF Units, Started
    <2>6. QED
      BY <2>1, <2>4, <2>5
  <1>3. QED
    BY <1>1, <1>2

\* The command's place, and what an install has written and had loaded by then.
ServicesTypes ==
  /\ platform \in {"systemd", "launchd", "server"}
  /\ ipc \in {"idle", "disable", "stop", "write", "fill", "reload", "enable", "gate", "rollback", "remove"}
  /\ next \in DOMAIN UnitSeq /\ gen \in Nat
  /\ icmd \in [op : {"install", "uninstall"}, load : BOOLEAN]
  /\ file \in [Units -> Int] /\ loaded \in [Units -> Int] /\ running \in [Units -> Int]

CommandPlace ==
  /\ Server => icmd.load
  /\ ipc # "idle" => gen > 0
  /\ ipc \in {"write", "fill", "reload", "enable", "gate", "rollback"} => icmd.op = "install"
  /\ ipc = "remove" => icmd.op = "uninstall"
  /\ ipc = "disable" => icmd.load /\ ~(Server /\ icmd.op = "install")
  /\ ipc \in {"reload", "enable", "rollback"} => icmd.load
  /\ ipc \in {"gate", "rollback"} => ~Server
  /\ ipc = "stop" => Server /\ icmd.op = "uninstall"
  /\ ipc \in {"reload", "enable", "gate", "stop"} => next = 1
  /\ ipc = "disable" /\ Server => next = 1

Written ==
  /\ ipc \in {"write", "fill"} => \A u \in Before(next) : file[u] = gen
  /\ ipc = "reload" => \A u \in Here : file[u] = gen
  /\ ipc = "enable" \/ (ipc = "gate" /\ icmd.load) => \A u \in Here : loaded[u] = gen

\* What is stopped, as long as no call that failed was passed over.  A unit that
\* has its file when the command starts is stopped if it is active, and one that
\* has none was not active; nothing starts a unit that is not kept, and the
\* timer no run once it is stopped.
StoppedAt(at) ==
  CASE at = "disable" -> /\ \A u \in Before(next) : Gone(u)
                         /\ IF icmd.op = "install"
                            THEN \A u \in active : file[u] # Absent
                            ELSE ~Server => \A u \in Before(next) : file[u] = Absent
    [] at = "stop" -> \A u \in Started : Gone(u)
    [] at \in {"write", "fill", "reload", "enable"} -> ~Server => \A u \in Here : Gone(u)
    [] at = "gate" -> /\ Started \subseteq active
                      /\ \A u \in Here : running[u] \in {Absent, gen}
    [] at = "rollback" -> \A u \in Before(next) : Gone(u)
    [] at = "remove" -> /\ \A u \in Before(next) : file[u] = Absent /\ Gone(u)
                        /\ IF Server THEN \A u \in Here : Gone(u) ELSE Gone(Unit)
    [] OTHER -> TRUE

\* A report is right because of what the command has done to every unit so far.
ServicesInv ==
  /\ ServicesTypes /\ CommandPlace /\ Written
  /\ \A u \in Units : running[u] # Absent => u \in active
  /\ icmd.load /\ ~ignored => StoppedAt(ipc)


LEMMA ServicesInvInit == ConfigInit /\ ServicesInit => ServicesInv
  <1> SUFFICES ASSUME ConfigInit, ServicesInit PROVE ServicesInv
    OBVIOUS
  <1>1. 1 \in DOMAIN UnitSeq
    BY DEF UnitSeq
  <1>2. ServicesTypes
    BY <1>1 DEF ConfigInit, ServicesInit, ServicesTypes, Absent
  <1>3. CommandPlace /\ Written /\ StoppedAt(ipc)
    BY DEF ServicesInit, CommandPlace, Written, StoppedAt
  <1>4. \A u \in Units : running[u] = Absent
    BY DEF ServicesInit
  <1>5. QED
    BY <1>2, <1>3, <1>4 DEF ServicesInv

\* The units are those of the platform.
LEMMA UnitsStay ==
  ASSUME platform' = platform
  PROVE  /\ Server' = Server /\ UnitSeq' = UnitSeq /\ Here' = Here /\ Started' = Started
         /\ \A n : Before(n)' = Before(n)
  BY DEF Server, UnitSeq, Here, Started, Before

\* The next unit, or the first one of the next step.
LEMMA EachUnitGoes ==
  ASSUME platform' = platform, next \in DOMAIN UnitSeq, NEW from, NEW to, EachUnit(from, to)
  PROVE  /\ next' \in DOMAIN UnitSeq' /\ ipc = from /\ Unit \in Here /\ Unit \in Units
         /\ Unit \notin Before(next)
         /\ \/ /\ ipc' = from /\ Before(next)' = Before(next) \union {Unit}
            \/ /\ ipc' = to /\ next' = 1 /\ Before(next)' = {} /\ Here = Before(next) \union {Unit}
  <1>1. \A n : Before(n)' = Before(n)
    BY UnitsStay
  <1>2. Before(next)' = Before(next')
    BY UnitsStay DEF Before
  <1>3. QED
    BY <1>2, UnitsInOrder, UnitsStay DEF EachUnit, InstallGoes, Unit

LEMMA StartInstallKeeps ==
  ASSUME ServicesInv, platform' = platform, StartInstall
  PROVE  ServicesInv'
  <1>1. PICK op \in {"install", "uninstall"}, load \in BOOLEAN :
          /\ Server => load
          /\ icmd' = [op |-> op, load |-> load]
          /\ ipc' = FirstStep(op, load)
    BY DEF StartInstall, InstallGoes
  <1>2. /\ gen' = gen + 1 /\ next' = 1 /\ UNCHANGED <<file, loaded, active, running>>
        /\ ignored' = \E u \in active : file[u] = Absent
    BY DEF StartInstall, managerVars
  <1>3. 1 \in DOMAIN UnitSeq' /\ Before(next)' = {} /\ Server' = Server /\ Here' = Here
    BY <1>2, UnitsStay, UnitsInOrder DEF ServicesInv, ServicesTypes, Before
  <1>4. ipc' \in {"disable", "write", "remove"} /\ icmd'.op = op /\ icmd'.load = load
        /\ icmd' \in [op : {"install", "uninstall"}, load : BOOLEAN]
        /\ (ipc' = "disable" <=> load /\ ~(Server /\ op = "install"))
        /\ (ipc' = "write" => op = "install") /\ (ipc' = "remove" => op = "uninstall")
    BY <1>1 DEF FirstStep
  <1>5. ServicesTypes'
    BY <1>2, <1>3, <1>4 DEF ServicesInv, ServicesTypes
  <1>6. CommandPlace'
    BY <1>1, <1>2, <1>3, <1>4 DEF ServicesInv, ServicesTypes, CommandPlace
  <1>7. Written'
    BY <1>3, <1>4 DEF Written
  <1>8. icmd'.load /\ ~ignored' => StoppedAt(ipc)'
    BY <1>1, <1>2, <1>3, <1>4 DEF StoppedAt
  <1>9. QED
    BY <1>2, <1>5, <1>6, <1>7, <1>8 DEF ServicesInv

\* The server's units, by who starts them.
LEMMA ServerUnits ==
  ASSUME Server
  PROVE  /\ "timer" \in Started /\ Here = Started \union {"generate"} /\ Started \subseteq Units
         /\ Unit = UnitSeq[next] /\ "generate" \in Units
  <1>1. /\ DOMAIN UnitSeq = 1 .. 3
        /\ UnitSeq[1] = "process" /\ UnitSeq[2] = "generate" /\ UnitSeq[3] = "timer"
    BY DEF UnitSeq
  <1>2. Here = {"process", "generate", "timer"}
    BY <1>1 DEF Here
  <1>3. QED
    BY <1>2 DEF Started, Units, Unit

\* A unit that is stopped is gone, and what was gone stays so.
LEMMA StopStops ==
  ASSUME NEW units \in SUBSET Units, Stop(units)
  PROVE  /\ \A u \in units : Gone(u)'
         /\ \A u \in Units : Gone(u) => Gone(u)'
         /\ \A u \in Units : running'[u] # Absent => running'[u] = running[u] /\ u \notin units
         /\ active' \subseteq active
         /\ \A u \in active : u \notin units => u \in active'
  BY DEF Stop, Gone, Absent

LEMMA DisableClientKeeps ==
  ASSUME ServicesInv, platform' = platform, ~Server, DisableUnit
  PROVE  ServicesInv'
  <1> DEFINE to == IF icmd.op = "install" THEN "write" ELSE "remove"
  <1>0. /\ ServicesTypes /\ CommandPlace /\ next \in DOMAIN UnitSeq /\ Here \subseteq Units
        /\ \A u \in Units : running[u] # Absent => u \in active
    BY UnitsInOrder DEF ServicesInv, ServicesTypes
  <1>1. /\ UNCHANGED <<file, loaded, icmd, gen>> /\ ipc = "disable"
        /\ Unit \in Here /\ Unit \in Units /\ Unit \notin Before(next) /\ next' \in DOMAIN UnitSeq'
        /\ Server' = Server /\ Here' = Here
    <2>1. ipc = "disable" /\ UNCHANGED <<file, loaded, icmd, gen>>
      BY DEF DisableUnit, DisableGoes, InstallGoes, EachUnit, managerVars
    <2>2. Unit \in Here /\ Unit \in Units /\ Unit \notin Before(next)
      BY <1>0, UnitsInOrder DEF Unit
    <2>3. next' \in DOMAIN UnitSeq'
      <3>1. CASE ByUnit
        BY <1>0, <3>1, UnitsStay DEF DisableUnit, DisableGoes
      <3>2. CASE ~ByUnit
        BY <1>0, <3>2, EachUnitGoes DEF DisableUnit, DisableGoes
      <3>3. QED
        BY <3>1, <3>2
    <2>4. QED
      BY <2>1, <2>2, <2>3, UnitsStay
  <1>2. \/ /\ ByUnit /\ ipc' = "remove" /\ next' = next /\ Before(next)' = Before(next)
           /\ Unit' = Unit
        \/ /\ ~ByUnit /\ ipc' = "disable" /\ Before(next)' = Before(next) \union {Unit}
        \/ /\ ~ByUnit /\ ipc' = to /\ next' = 1 /\ Before(next)' = {}
           /\ Here = Before(next) \union {Unit}
    <2>1. CASE ByUnit
      <3>1. ipc' = "remove" /\ next' = next
        BY <2>1 DEF DisableUnit, DisableGoes, InstallGoes
      <3>2. QED
        BY <2>1, <3>1, UnitsStay DEF Before, Unit
    <2>2. CASE ~ByUnit
      BY <1>0, <2>2, EachUnitGoes DEF DisableUnit, DisableGoes
    <2>3. QED
      BY <2>1, <2>2
  <1>3. \/ /\ icmd.op = "install" /\ file[Unit] = Absent
           /\ UNCHANGED <<active, running, ignored>>
        \/ /\ icmd.op = "uninstall" \/ file[Unit] # Absent
           /\ Stop({Unit}) /\ UNCHANGED ignored
        \/ ignored' /\ \E units \in SUBSET {Unit} : Stop(units)
    BY DEF DisableUnit, Named, managerVars
  <1>4. running' \in [Units -> Int] /\ \A u \in Units : running'[u] # Absent => u \in active'
    <2>1. CASE \E units \in SUBSET {Unit} : Stop(units)
      BY <1>0, <1>1, <2>1 DEF Stop, ServicesTypes, Absent
    <2>2. QED
      BY <1>0, <1>3, <2>1 DEF ServicesTypes
  <1>5. ServicesTypes'
    BY <1>0, <1>1, <1>2, <1>4 DEF ServicesTypes
  <1>6. CommandPlace'
    BY <1>0, <1>1, <1>2 DEF CommandPlace, ServicesTypes, ByUnit
  <1>7. Written'
    BY <1>1, <1>2 DEF Written
  <1>8. ASSUME icmd'.load, ~ignored' PROVE StoppedAt(ipc)'
    <2>1. StoppedAt("disable") /\ ~ignored
      BY <1>1, <1>3, <1>8 DEF ServicesInv
    <2>2. (\A u \in {Unit} : Gone(u)') /\ (\A u \in Units : Gone(u) => Gone(u)') /\ active' \subseteq active
      <3>1. CASE icmd.op = "install" /\ file[Unit] = Absent /\ UNCHANGED <<active, running, ignored>>
        <4>1. Unit \notin active
          BY <2>1, <3>1 DEF StoppedAt
        <4>2. QED
          BY <1>0, <1>1, <1>2, <3>1, <4>1 DEF Gone
      <3>2. CASE Stop({Unit})
        <4>1. {Unit} \in SUBSET Units
          BY <1>1
        <4>2. QED
          BY <3>2, <4>1, StopStops
      <3>3. QED
        BY <1>3, <1>8, <3>1, <3>2
    <2>3. \A u \in Before(next) \union {Unit} : Gone(u)'
      <3>1. \A u \in Before(next) : Gone(u) /\ u \in Units
        BY <1>0, <2>1, UnitsInOrder DEF StoppedAt
      <3>2. QED
        BY <2>2, <3>1
    <2>4. CASE ByUnit /\ ipc' = "remove"
      BY <1>1, <1>2, <2>1, <2>3, <2>4 DEF StoppedAt, ByUnit
    <2>5. CASE ~ByUnit /\ ipc' = "disable"
      BY <1>0, <1>1, <1>2, <1>8, <2>1, <2>2, <2>3, <2>5 DEF StoppedAt, ByUnit, ServicesTypes
    <2>6. CASE ~ByUnit /\ ipc' = to
      BY <1>0, <1>1, <1>2, <1>8, <2>1, <2>3, <2>6 DEF StoppedAt, ByUnit, ServicesTypes
    <2>7. QED
      BY <1>2, <2>4, <2>5, <2>6
  <1>9. QED
    BY <1>4, <1>5, <1>6, <1>7, <1>8 DEF ServicesInv


\* marc-server's uninstall, of which only the last step stops generate.
LEMMA DisableServerKeeps ==
  ASSUME ServicesInv, platform' = platform, Server, DisableUnit
  PROVE  ServicesInv'
  <1>0. /\ ServicesTypes /\ CommandPlace /\ next \in DOMAIN UnitSeq
        /\ \A u \in Units : running[u] # Absent => u \in active
        /\ Server' = Server /\ UnitSeq' = UnitSeq /\ Started' = Started /\ Started \subseteq Units
    BY UnitsStay, ServerUnits DEF ServicesInv, ServicesTypes
  <1>1. /\ ipc = "disable" /\ ipc' = "stop" /\ next' = next /\ Named = Started
        /\ UNCHANGED <<file, loaded, icmd, gen>>
    BY DEF DisableUnit, DisableGoes, InstallGoes, Named, managerVars
  <1>2. icmd.op = "uninstall" /\ next = 1
    BY <1>0, <1>1 DEF CommandPlace, ServicesTypes
  <1>3. PICK units \in SUBSET Started : Stop(units) /\ (~ignored' => units = Started)
    BY <1>1, <1>2 DEF DisableUnit
  <1>4. running' \in [Units -> Int] /\ \A u \in Units : running'[u] # Absent => u \in active'
    BY <1>0, <1>3 DEF Stop, ServicesTypes, Absent
  <1>5. ServicesTypes' /\ CommandPlace' /\ Written'
    BY <1>0, <1>1, <1>2, <1>4 DEF ServicesTypes, CommandPlace, Written
  <1>6. ASSUME ~ignored' PROVE StoppedAt(ipc)'
    <2>1. Stop(Started) /\ Started \in SUBSET Units
      BY <1>0, <1>3, <1>6
    <2>2. \A u \in Started : Gone(u)'
      BY <2>1, StopStops
    <2>3. QED
      BY <1>0, <1>1, <2>2 DEF StoppedAt
  <1>7. QED
    BY <1>4, <1>5, <1>6 DEF ServicesInv

LEMMA StopGenerateKeeps ==
  ASSUME ServicesInv, platform' = platform, StopGenerate
  PROVE  ServicesInv'
  <1>0. /\ ServicesTypes /\ CommandPlace
        /\ \A u \in Units : running[u] # Absent => u \in active
        /\ Server' = Server /\ UnitSeq' = UnitSeq /\ Here' = Here
    BY UnitsStay DEF ServicesInv
  <1>1. /\ ipc = "stop" /\ ipc' = "remove" /\ UNCHANGED <<file, loaded, icmd, next, gen>>
    BY DEF StopGenerate, InstallGoes
  <1>2. Server /\ icmd.op = "uninstall" /\ next = 1 /\ icmd.load /\ gen > 0
    BY <1>0, <1>1 DEF CommandPlace
  <1>3. \/ Stop({"generate"}) /\ UNCHANGED ignored
        \/ ignored' /\ UNCHANGED <<active, running>>
    BY <1>1, <1>2 DEF StopGenerate, Named
  <1>4. "generate" \in Units /\ Here = Started \union {"generate"} /\ Started \subseteq Units
    BY <1>2, ServerUnits
  <1>5. running' \in [Units -> Int] /\ \A u \in Units : running'[u] # Absent => u \in active'
    BY <1>0, <1>3, <1>4 DEF Stop, ServicesTypes, Absent
  <1>6. ServicesTypes' /\ CommandPlace' /\ Written'
    BY <1>0, <1>1, <1>2, <1>5 DEF ServicesTypes, CommandPlace, Written
  <1>7. ASSUME ~ignored' PROVE StoppedAt(ipc)'
    <2>1. Stop({"generate"}) /\ {"generate"} \in SUBSET Units /\ ~ignored
      BY <1>3, <1>4, <1>7
    <2>2. \A u \in Started : Gone(u)
      BY <1>1, <1>2, <2>1 DEF ServicesInv, StoppedAt
    <2>3. (\A u \in {"generate"} : Gone(u)') /\ \A u \in Units : Gone(u) => Gone(u)'
      BY <2>1, StopStops
    <2>4. \A u \in Here : Gone(u)'
      BY <1>4, <2>2, <2>3
    <2>5. Before(next)' = {}
      BY <1>1, <1>2 DEF Before
    <2>6. QED
      BY <1>0, <1>1, <1>2, <2>4, <2>5 DEF StoppedAt
  <1>8. QED
    BY <1>5, <1>6, <1>7 DEF ServicesInv


LEMMA WriteKeeps ==
  ASSUME ServicesInv, platform' = platform, TruncateUnit \/ WriteUnit
  PROVE  ServicesInv'
  <1>0. /\ ServicesTypes /\ CommandPlace /\ Written /\ next \in DOMAIN UnitSeq /\ Here \subseteq Units
        /\ \A u \in Units : running[u] # Absent => u \in active
        /\ Unit \in Here /\ Unit \in Units /\ Unit \notin Before(next) /\ Before(next) \subseteq Here
    BY UnitsInOrder DEF ServicesInv, ServicesTypes, Unit
  <1>1. /\ UNCHANGED <<loaded, active, running, icmd, gen, ignored>>
        /\ Server' = Server /\ Here' = Here /\ ipc \in {"write", "fill"}
        /\ \E v \in Int : file' = [file EXCEPT ![Unit] = v]
    <2>1. Partial \in Int /\ gen \in Int
      BY <1>0 DEF Partial, ServicesTypes
    <2>2. QED
      BY <2>1, UnitsStay DEF TruncateUnit, WriteUnit, InstallGoes, managerVars
  <1>2. file' \in [Units -> Int] /\ \A u \in Units : u # Unit => file'[u] = file[u]
    BY <1>0, <1>1 DEF ServicesTypes
  <1>3. icmd.load /\ ~ignored /\ ~Server => \A u \in Here : Gone(u)'
    BY <1>1 DEF ServicesInv, StoppedAt, Gone
  <1>4. CASE TruncateUnit
    <2>1. ipc' = "fill" /\ next' = next
      BY <1>4 DEF TruncateUnit, InstallGoes
    <2>2. Before(next)' = Before(next) /\ next' \in DOMAIN UnitSeq'
      BY <1>0, <2>1, UnitsStay DEF Before
    <2>3. ServicesTypes' /\ CommandPlace'
      BY <1>0, <1>1, <1>2, <2>1, <2>2 DEF ServicesTypes, CommandPlace
    <2>4. Written'
      BY <1>0, <1>1, <1>2, <2>1, <2>2 DEF Written
    <2>5. QED
      BY <1>0, <1>1, <1>3, <2>1, <2>3, <2>4 DEF ServicesInv, StoppedAt
  <1>5. CASE WriteUnit
    <2>1. file'[Unit] = gen /\ ipc = "fill"
      BY <1>0, <1>5 DEF WriteUnit, ServicesTypes
    <2>2. \A u \in Before(next) \union {Unit} : file'[u] = gen
      <3>1. \A u \in Before(next) : u \in Units /\ u # Unit /\ file[u] = gen
        BY <1>0, <2>1 DEF Written
      <3>2. QED
        BY <1>2, <2>1, <3>1
    <2>3. CASE next < Len(UnitSeq)
      <3>1. ipc' = "write" /\ next' = next + 1
        BY <1>5, <2>3 DEF WriteUnit
      <3>2. Before(next)' = Before(next) \union {Unit} /\ next' \in DOMAIN UnitSeq'
        <4>1. Before(next)' = Before(next + 1)
          BY <3>1, UnitsStay DEF Before
        <4>2. QED
          BY <1>0, <2>3, <3>1, <4>1, UnitsInOrder, UnitsStay DEF Unit
      <3>3. ServicesTypes' /\ CommandPlace'
        BY <1>0, <1>1, <1>2, <2>1, <3>1, <3>2 DEF ServicesTypes, CommandPlace
      <3>4. Written'
        BY <1>1, <2>2, <3>1, <3>2 DEF Written
      <3>5. QED
        BY <1>0, <1>1, <1>3, <3>1, <3>3, <3>4 DEF ServicesInv, StoppedAt
    <2>4. CASE ~(next < Len(UnitSeq))
      <3>1. next' = 1 /\ ipc' = CASE icmd.load -> "reload"
                                  [] ~icmd.load /\ platform = "systemd" -> "gate"
                                  [] ~icmd.load /\ platform = "launchd" -> "idle"
        BY <1>5, <2>4 DEF WriteUnit
      <3>2. ~icmd.load => ~Server /\ platform \in {"systemd", "launchd"}
        BY <1>0 DEF CommandPlace, Server, ServicesTypes
      <3>3. ipc' \in {"reload", "gate", "idle"} /\ (ipc' = "reload" <=> icmd.load)
            /\ (ipc' # "reload" => ~Server)
        BY <1>0, <3>1, <3>2 DEF ServicesTypes
      <3>4. Here = Before(next) \union {Unit} /\ 1 \in DOMAIN UnitSeq'
        BY <1>0, <2>4, UnitsInOrder, UnitsStay DEF Unit
      <3>5. ServicesTypes' /\ CommandPlace'
        BY <1>0, <1>1, <1>2, <2>1, <3>1, <3>3, <3>4 DEF ServicesTypes, CommandPlace
      <3>6. Written'
        BY <1>1, <2>2, <3>3, <3>4 DEF Written
      <3>7. QED
        BY <1>0, <1>1, <1>3, <3>3, <3>5, <3>6 DEF ServicesInv, StoppedAt
    <2>5. QED
      BY <2>3, <2>4
  <1>6. QED
    BY <1>4, <1>5


LEMMA StartKeeps ==
  ASSUME ServicesInv, platform' = platform, ReloadManager \/ EnableUnits
  PROVE  ServicesInv'
  <1>0. /\ ServicesTypes /\ CommandPlace /\ Written /\ next \in DOMAIN UnitSeq /\ Here \subseteq Units
        /\ \A u \in Units : running[u] # Absent => u \in active
        /\ Server' = Server /\ UnitSeq' = UnitSeq /\ Here' = Here /\ Started' = Started
        /\ Started \subseteq Here
    BY UnitsInOrder, UnitsStay DEF ServicesInv, ServicesTypes
  <1>1. CASE ReloadManager
    <2>1. /\ loaded' = Readable /\ ipc = "reload" /\ ipc' = "enable"
          /\ UNCHANGED <<file, active, running, icmd, next, gen, ignored>>
      BY <1>1 DEF ReloadManager, InstallGoes
    <2>2. \A u \in Units : loaded'[u] \in Int /\ (file[u] = gen => loaded'[u] = gen)
      BY <1>0, <2>1 DEF Readable, Absent, Partial, ServicesTypes, CommandPlace
    <2>3. loaded' \in [Units -> Int]
      BY <2>1, <2>2 DEF Readable
    <2>4. ServicesTypes' /\ CommandPlace'
      BY <1>0, <2>1, <2>3 DEF ServicesTypes, CommandPlace
    <2>5. Written'
      BY <1>0, <2>1, <2>2 DEF Written
    <2>6. icmd.load /\ ~ignored => StoppedAt(ipc)'
      BY <1>0, <2>1 DEF ServicesInv, StoppedAt, Gone
    <2>7. QED
      BY <1>0, <2>1, <2>4, <2>5, <2>6 DEF ServicesInv
  <1>2. CASE EnableUnits
    <2>1. /\ active' = active \union Started /\ ipc = "enable"
          /\ ipc' = IF Server THEN "idle" ELSE "gate"
          /\ UNCHANGED <<file, loaded, running, icmd, next, gen, ignored>>
      BY <1>2 DEF EnableUnits, InstallGoes
    <2>2. ServicesTypes' /\ CommandPlace'
      BY <1>0, <2>1 DEF ServicesTypes, CommandPlace
    <2>3. Written'
      BY <1>0, <2>1 DEF Written
    <2>4. ASSUME icmd.load, ~ignored, ~Server
          PROVE  Started \subseteq active' /\ \A u \in Here : running'[u] \in {Absent, gen'}
      BY <1>0, <2>1, <2>4 DEF ServicesInv, StoppedAt, Gone
    <2>5. icmd.load /\ ~ignored => StoppedAt(ipc)'
      BY <1>0, <2>1, <2>4 DEF StoppedAt
    <2>6. QED
      BY <1>0, <2>1, <2>2, <2>3, <2>5 DEF ServicesInv
  <1>3. QED
    BY <1>1, <1>2

\* Where a command ends nothing is said any more of what it has done so far.
LEMMA EndKeeps ==
  ASSUME ServicesInv, platform' = platform, ipc' = "idle", next' = next, icmd' = icmd, gen' = gen,
         file' \in [Units -> Int], loaded' \in [Units -> Int], running' \in [Units -> Int],
         \A u \in Units : running'[u] # Absent => u \in active'
  PROVE  ServicesInv'
  <1>1. UnitSeq' = UnitSeq /\ Server' = Server
    BY UnitsStay
  <1>2. ServicesTypes' /\ CommandPlace' /\ Written' /\ StoppedAt(ipc)'
    BY <1>1 DEF ServicesInv, ServicesTypes, CommandPlace, Written, StoppedAt
  <1>3. QED
    BY <1>2 DEF ServicesInv

LEMMA BreakKeeps ==
  ASSUME ServicesInv, platform' = platform, InstallFails \/ KillInstall \/ Reboot
  PROVE  ServicesInv'
  <1>1. /\ ServicesTypes /\ \A u \in Units : running[u] # Absent => u \in active
    BY DEF ServicesInv
  <1>2. Readable \in [Units -> Int]
    BY <1>1 DEF Readable, Absent, ServicesTypes
  <1>3. ipc' = "idle" /\ UNCHANGED <<file, next, icmd, gen>> /\ loaded' \in {loaded, Readable}
    BY DEF InstallFails, InstallGoes, KillInstall, Reboot, managerVars
  <1>4. \/ running' = running /\ active \subseteq active'
        \/ running' = [u \in Units |-> Absent]
    BY DEF InstallFails, KillInstall, Reboot, managerVars
  <1>5. running' \in [Units -> Int] /\ \A u \in Units : running'[u] # Absent => u \in active'
    BY <1>1, <1>4 DEF ServicesTypes, Absent
  <1>6. QED
    BY <1>1, <1>2, <1>3, <1>5, EndKeeps DEF ServicesTypes

LEMMA GateKeeps ==
  ASSUME ServicesInv, platform' = platform, Gate
  PROVE  ServicesInv'
  <1>0. /\ ServicesTypes /\ CommandPlace /\ ipc = "gate"
        /\ UNCHANGED <<file, loaded, active, running, icmd, next, gen, ignored>>
        /\ \/ ipc' = "idle"
           \/ icmd.load /\ ipc' = "rollback"
    BY DEF Gate, InstallGoes, managerVars, ServicesInv
  <1>1. CASE ipc' = "idle"
    BY <1>0, <1>1, EndKeeps DEF ServicesInv, ServicesTypes
  <1>2. CASE icmd.load /\ ipc' = "rollback"
    <2>1. Server' = Server /\ UnitSeq' = UnitSeq
      BY UnitsStay
    <2>2. next = 1 /\ Before(next)' = {}
      BY <1>0, <2>1 DEF CommandPlace, ServicesTypes, Before
    <2>3. ServicesTypes' /\ CommandPlace' /\ Written'
      BY <1>0, <1>2, <2>1 DEF ServicesTypes, CommandPlace, Written
    <2>4. StoppedAt(ipc)'
      BY <1>2, <2>2 DEF StoppedAt
    <2>5. QED
      BY <1>0, <2>3, <2>4 DEF ServicesInv
  <1>3. QED
    BY <1>0, <1>1, <1>2

LEMMA RollBackKeeps ==
  ASSUME ServicesInv, platform' = platform, RollBack
  PROVE  ServicesInv'
  <1>0. /\ ServicesTypes /\ CommandPlace /\ next \in DOMAIN UnitSeq /\ EachUnit("rollback", "idle")
        /\ UNCHANGED <<file, loaded, icmd, gen>> /\ Server' = Server
        /\ \A u \in Units : running[u] # Absent => u \in active
    BY UnitsStay DEF RollBack, ServicesInv, ServicesTypes
  <1>1. /\ next' \in DOMAIN UnitSeq' /\ ipc = "rollback" /\ Unit \in Units
        /\ \/ /\ ipc' = "rollback" /\ Before(next)' = Before(next) \union {Unit}
           \/ /\ ipc' = "idle" /\ next' = 1 /\ Before(next)' = {} /\ Here = Before(next) \union {Unit}
    BY <1>0, EachUnitGoes
  <1>2. \/ Stop({Unit}) /\ UNCHANGED ignored
        \/ ignored' /\ UNCHANGED <<active, running>>
    BY DEF RollBack
  <1>3. running' \in [Units -> Int] /\ \A u \in Units : running'[u] # Absent => u \in active'
    BY <1>0, <1>1, <1>2 DEF Stop, ServicesTypes, Absent
  <1>4. ServicesTypes' /\ CommandPlace' /\ Written'
    BY <1>0, <1>1, <1>3 DEF ServicesTypes, CommandPlace, Written
  <1>5. ASSUME icmd.load, ~ignored' PROVE StoppedAt(ipc)'
    <2>1. StoppedAt("rollback") /\ Stop({Unit})
      BY <1>1, <1>2, <1>5 DEF ServicesInv
    <2>2. \A u \in Before(next) : u \in Units /\ Gone(u)
      BY <1>0, <2>1, UnitsInOrder DEF StoppedAt
    <2>3. (\A u \in {Unit} : Gone(u)') /\ \A u \in Units : Gone(u) => Gone(u)'
      <3>1. {Unit} \in SUBSET Units
        BY <1>1
      <3>2. QED
        BY <2>1, <3>1, StopStops
    <2>4. \A u \in Before(next) \union {Unit} : Gone(u)'
      BY <2>2, <2>3
    <2>5. QED
      BY <1>1, <2>4 DEF StoppedAt
  <1>6. QED
    BY <1>0, <1>3, <1>4, <1>5 DEF ServicesInv


\* What an uninstall knows when it has removed one more file.
LEMMA RemoveUnitGoes ==
  ASSUME ServicesInv, platform' = platform, RemoveUnit
  PROVE  /\ ipc = "remove" /\ icmd.op = "uninstall" /\ next' \in DOMAIN UnitSeq'
         /\ UNCHANGED <<active, running, icmd, gen, ignored>>
         /\ file' \in [Units -> Int] /\ loaded' \in [Units -> Int]
         /\ \/ ByUnit /\ ipc' = "disable" /\ Before(next)' = Before(next) \union {Unit}
            \/ ~ByUnit /\ ipc' = "remove" /\ Before(next)' = Before(next) \union {Unit}
            \/ ipc' = "idle" /\ next' = 1 /\ Here = Before(next) \union {Unit}
         /\ icmd.load /\ ~ignored => \A u \in Before(next) \union {Unit} : file'[u] = Absent /\ Gone(u)'
         /\ icmd.load /\ ~ignored /\ Server => \A u \in Here : Gone(u)'
  <1>0. /\ ServicesTypes /\ CommandPlace /\ next \in DOMAIN UnitSeq
        /\ Unit \in Here /\ Unit \in Units /\ Unit \notin Before(next) /\ Before(next) \subseteq Units
    BY UnitsInOrder DEF ServicesInv, ServicesTypes, Unit
  <1>1. /\ file' = [file EXCEPT ![Unit] = Absent] /\ UNCHANGED <<active, running, icmd, gen, ignored>>
        /\ loaded' = loaded \/ loaded' = [Readable EXCEPT ![Unit] = Absent]
    BY DEF RemoveUnit
  <1>2. file' \in [Units -> Int] /\ loaded' \in [Units -> Int] /\ file'[Unit] = Absent
        /\ \A u \in Units : u # Unit => file'[u] = file[u]
    <2>1. Readable \in [Units -> Int]
      BY <1>0 DEF Readable, Absent, ServicesTypes
    <2>2. loaded \in [Units -> Int] /\ file \in [Units -> Int] /\ Absent \in Int
      BY <1>0 DEF ServicesTypes, Absent
    <2>3. [Readable EXCEPT ![Unit] = Absent] \in [Units -> Int]
      BY <2>1, <2>2
    <2>4. loaded' \in [Units -> Int]
      BY <1>1, <2>2, <2>3
    <2>5. file' \in [Units -> Int] /\ file'[Unit] = Absent
          /\ \A u \in Units : u # Unit => file'[u] = file[u]
      BY <1>0, <1>1, <2>2
    <2>6. QED
      BY <2>4, <2>5
  <1>3. ASSUME ByUnit, next < Len(UnitSeq)
        PROVE  /\ ipc = "remove" /\ ipc' = "disable" /\ next' \in DOMAIN UnitSeq'
               /\ Before(next)' = Before(next) \union {Unit}
    <2>1. ipc = "remove" /\ ipc' = "disable" /\ next' = next + 1
      BY <1>3 DEF RemoveUnit, InstallGoes
    <2>2. Before(next)' = Before(next + 1)
      BY <2>1, UnitsStay DEF Before
    <2>3. QED
      BY <1>0, <1>3, <2>1, <2>2, UnitsInOrder, UnitsStay DEF Unit
  <1>4. ASSUME ~(ByUnit /\ next < Len(UnitSeq))
        PROVE  /\ ipc = "remove" /\ next' \in DOMAIN UnitSeq'
               /\ \/ ~ByUnit /\ ipc' = "remove" /\ Before(next)' = Before(next) \union {Unit}
                  \/ ipc' = "idle" /\ next' = 1 /\ Here = Before(next) \union {Unit}
    <2>1. EachUnit("remove", "idle")
      BY <1>4 DEF RemoveUnit
    <2>2. ipc' = "remove" => next < Len(UnitSeq)
      BY <2>1 DEF EachUnit, InstallGoes
    <2>3. QED
      BY <1>0, <1>4, <2>1, <2>2, EachUnitGoes
  <1>5. ipc = "remove" /\ icmd.op = "uninstall"
    BY <1>0, <1>3, <1>4 DEF CommandPlace
  <1>6. ASSUME icmd.load, ~ignored
        PROVE  /\ \A u \in Before(next) \union {Unit} : file'[u] = Absent /\ Gone(u)'
               /\ Server => \A u \in Here : Gone(u)'
    <2>1. StoppedAt("remove")
      BY <1>5, <1>6 DEF ServicesInv
    <2>2. Gone(Unit)
      BY <1>0, <2>1 DEF StoppedAt
    <2>3. \A u : Gone(u)' <=> Gone(u)
      BY <1>1 DEF Gone
    <2>4. QED
      BY <1>0, <1>2, <2>1, <2>2, <2>3 DEF StoppedAt
  <1>7. QED
    BY <1>1, <1>2, <1>3, <1>4, <1>5, <1>6

LEMMA RemoveUnitKeeps ==
  ASSUME ServicesInv, platform' = platform, RemoveUnit
  PROVE  ServicesInv'
  <1>0. /\ ServicesTypes /\ CommandPlace /\ Server' = Server /\ Here' = Here
        /\ \A u \in Units : running[u] # Absent => u \in active
    BY UnitsStay DEF ServicesInv
  <1>1. /\ ipc = "remove" /\ icmd.op = "uninstall" /\ next' \in DOMAIN UnitSeq'
        /\ UNCHANGED <<active, running, icmd, gen, ignored>>
        /\ file' \in [Units -> Int] /\ loaded' \in [Units -> Int]
        /\ \/ ByUnit /\ ipc' = "disable" /\ Before(next)' = Before(next) \union {Unit}
           \/ ~ByUnit /\ ipc' = "remove" /\ Before(next)' = Before(next) \union {Unit}
           \/ ipc' = "idle"
    BY RemoveUnitGoes
  <1>2. ASSUME icmd.load, ~ignored
        PROVE  /\ \A u \in Before(next) \union {Unit} : file'[u] = Absent /\ Gone(u)'
               /\ Server => \A u \in Here : Gone(u)'
    BY <1>2, RemoveUnitGoes
  <1>3. ServicesTypes' /\ CommandPlace' /\ Written'
    BY <1>0, <1>1 DEF ServicesTypes, CommandPlace, Written, ByUnit
  <1>4. ASSUME icmd.load, ~ignored PROVE StoppedAt(ipc)'
    <2>1. CASE ByUnit /\ ipc' = "disable"
      BY <1>0, <1>1, <1>2, <1>4, <2>1 DEF StoppedAt, ByUnit
    <2>2. CASE ~ByUnit /\ ipc' = "remove"
      <3>1. Server
        BY <1>1, <1>4, <2>2 DEF ByUnit
      <3>2. QED
        BY <1>0, <1>1, <1>2, <1>4, <2>2, <3>1 DEF StoppedAt
    <2>3. CASE ipc' = "idle"
      BY <2>3 DEF StoppedAt
    <2>4. QED
      BY <1>1, <2>1, <2>2, <2>3
  <1>5. QED
    BY <1>0, <1>1, <1>3, <1>4 DEF ServicesInv

\* The manager starts a unit it keeps, from what it has loaded; a process dies.
LEMMA ManagerKeeps ==
  ASSUME ServicesInv, platform' = platform, NEW v \in Units, ServiceStarts(v) \/ ServiceDies(v)
  PROVE  ServicesInv'
  <1>0. /\ ServicesTypes /\ CommandPlace /\ Written /\ Server' = Server /\ Here' = Here
        /\ UnitSeq' = UnitSeq /\ Started' = Started /\ \A n : Before(n)' = Before(n)
        /\ next \in DOMAIN UnitSeq
        /\ \A u \in Units : running[u] # Absent => u \in active
    BY UnitsStay DEF ServicesInv, ServicesTypes
  <1>1. UNCHANGED <<file, loaded, active, ipc, icmd, next, gen, ignored>>
    BY DEF ServiceStarts, ServiceDies, commandVars
  <1>2. \/ v \in active /\ running' = [running EXCEPT ![v] = loaded[v]]
        \/ running' = [running EXCEPT ![v] = Absent]
    BY DEF ServiceStarts, ServiceDies
  <1>3. /\ running' \in [Units -> Int] /\ \A u \in Units : running'[u] # Absent => u \in active
        /\ \A u \in Units : running'[u] \in {running[u], Absent}
                              \/ (u \in active /\ running'[u] = loaded[u])
    BY <1>0, <1>2 DEF ServicesTypes, Absent
  <1>4. Before(next)' = Before(next) /\ Unit' = Unit
    BY <1>0, <1>1 DEF Before, Unit
  <1>5. ServicesTypes' /\ CommandPlace' /\ Written'
    BY <1>0, <1>1, <1>3, <1>4 DEF ServicesTypes, CommandPlace, Written
  <1>6. ASSUME icmd.load, ~ignored PROVE StoppedAt(ipc)'
    <2>1. StoppedAt(ipc)
      BY <1>6 DEF ServicesInv
    <2>2. \A u \in Units : Gone(u) => Gone(u)'
      BY <1>1, <1>3 DEF Gone
    <2>3. Before(next) \subseteq Units /\ Here \subseteq Units /\ Unit \in Units /\ Started \subseteq Units
      BY <1>0, UnitsInOrder DEF Unit
    <2>4. Gone(Unit) => Gone(Unit)'
      BY <1>1, <1>3, <1>4, <2>3 DEF Gone
    <2>5. CASE ipc \in {"disable", "rollback", "remove"}
      BY <1>0, <1>1, <1>4, <2>1, <2>2, <2>3, <2>4, <2>5 DEF StoppedAt
    <2>6. CASE ipc \in {"stop", "write", "fill", "reload", "enable"}
      BY <1>0, <1>1, <2>1, <2>2, <2>3, <2>6 DEF StoppedAt
    <2>7. CASE ipc = "gate"
      BY <1>0, <1>1, <1>3, <1>6, <2>1, <2>3, <2>7 DEF StoppedAt, Written
    <2>8. CASE ipc = "idle"
      BY <1>1, <2>8 DEF StoppedAt
    <2>9. QED
      BY <1>0, <2>5, <2>6, <2>7, <2>8 DEF ServicesTypes
  <1>7. QED
    BY <1>0, <1>1, <1>3, <1>5, <1>6 DEF ServicesInv

\* The timer starts a run of the server's generate only while it is kept itself.
LEMMA TimerKeeps ==
  ASSUME ServicesInv, platform' = platform, TimerElapses
  PROVE  ServicesInv'
  <1>0. /\ ServicesTypes /\ CommandPlace /\ Written /\ Server /\ "timer" \in active
        /\ Server' = Server /\ Here' = Here /\ UnitSeq' = UnitSeq /\ Started' = Started
        /\ \A n : Before(n)' = Before(n)
        /\ \A u \in Units : running[u] # Absent => u \in active
    BY UnitsStay DEF ServicesInv, TimerElapses
  <1>1. /\ UNCHANGED <<file, loaded, ipc, icmd, next, gen, ignored>>
        /\ active' = active \union {"generate"}
        /\ running' = [running EXCEPT !["generate"] = loaded["generate"]]
    BY DEF TimerElapses, commandVars
  <1>2. "generate" \in Units /\ "timer" \in Started /\ Started \subseteq Here
    BY <1>0, ServerUnits
  <1>3. running' \in [Units -> Int] /\ \A u \in Units : running'[u] # Absent => u \in active'
    BY <1>0, <1>1, <1>2 DEF ServicesTypes
  <1>4. Before(next)' = Before(next)
    BY <1>0, <1>1 DEF Before
  <1>5. ServicesTypes' /\ CommandPlace' /\ Written'
    BY <1>0, <1>1, <1>3, <1>4 DEF ServicesTypes, CommandPlace, Written
  <1>6. ASSUME icmd.load, ~ignored PROVE StoppedAt(ipc)'
    <2>1. StoppedAt(ipc) /\ ~Gone("timer")
      BY <1>0, <1>6 DEF ServicesInv, Gone
    <2>2. ipc \notin {"stop", "remove"}
      BY <1>0, <1>2, <2>1 DEF StoppedAt
    <2>3. ipc = "disable" => icmd.op = "uninstall" /\ Before(next) = {}
      BY <1>0 DEF CommandPlace, ServicesTypes, Before
    <2>4. ipc \notin {"gate", "rollback"}
      BY <1>0 DEF CommandPlace
    <2>5. ipc \in {"idle", "disable", "write", "fill", "reload", "enable"}
      BY <1>0, <2>2, <2>4 DEF ServicesTypes
    <2>6. QED
      BY <1>0, <1>1, <1>4, <2>3, <2>5 DEF StoppedAt
  <1>7. QED
    BY <1>1, <1>3, <1>5, <1>6 DEF ServicesInv

\* A run that is over is gone.
LEMMA GenerateEndKeeps ==
  ASSUME ServicesInv, platform' = platform, GenerateEnds
  PROVE  ServicesInv'
  <1>0. /\ ServicesTypes /\ CommandPlace /\ Written
        /\ Server' = Server /\ Here' = Here /\ UnitSeq' = UnitSeq /\ Started' = Started
        /\ \A n : Before(n)' = Before(n)
        /\ next \in DOMAIN UnitSeq
        /\ \A u \in Units : running[u] # Absent => u \in active
    BY UnitsStay DEF ServicesInv, ServicesTypes
  <1>1. UNCHANGED <<file, loaded, ipc, icmd, next, gen, ignored>> /\ Stop({"generate"})
    BY DEF GenerateEnds, commandVars
  <1>2. running' \in [Units -> Int] /\ \A u \in Units : running'[u] # Absent => u \in active'
    BY <1>0, <1>1 DEF Stop, ServicesTypes, Absent
  <1>3. Before(next)' = Before(next) /\ Unit' = Unit
    BY <1>0, <1>1 DEF Before, Unit
  <1>4. ServicesTypes' /\ CommandPlace' /\ Written'
    BY <1>0, <1>1, <1>2, <1>3 DEF ServicesTypes, CommandPlace, Written
  <1>5. ASSUME icmd.load, ~ignored PROVE StoppedAt(ipc)'
    <2>1. StoppedAt(ipc)
      BY <1>5 DEF ServicesInv
    <2>2. /\ \A u \in Units : Gone(u) => Gone(u)'
          /\ \A u \in Units : running'[u] \in {running[u], Absent}
          /\ active' = active \ {"generate"}
      BY <1>1 DEF Stop, Gone, Absent
    <2>3. Before(next) \subseteq Units /\ Here \subseteq Units /\ Unit \in Units /\ Started \subseteq Units
      BY <1>0, UnitsInOrder DEF Unit
    <2>4. Started \subseteq active => Started \subseteq active'
      <3>1. "generate" \notin Started
        BY DEF Started
      <3>2. QED
        BY <2>2, <3>1
    <2>5. Gone(Unit) => Gone(Unit)'
      BY <1>3, <2>2, <2>3
    <2>6. CASE ipc = "disable"
      BY <1>0, <1>1, <1>3, <2>1, <2>2, <2>3, <2>6 DEF StoppedAt
    <2>7. CASE ipc \in {"stop", "write", "fill", "reload", "enable"}
      BY <1>0, <1>1, <2>1, <2>2, <2>3, <2>7 DEF StoppedAt
    <2>8. CASE ipc = "gate"
      <3>1. \A u \in Here : running'[u] \in {Absent, gen}
        <4>1. \A u \in Here : running[u] \in {Absent, gen} /\ running'[u] \in {running[u], Absent}
          BY <2>1, <2>2, <2>3, <2>8 DEF StoppedAt
        <4>2. QED
          BY <4>1
      <3>2. Started \subseteq active'
        BY <2>1, <2>4, <2>8 DEF StoppedAt
      <3>3. QED
        BY <1>0, <1>1, <2>8, <3>1, <3>2 DEF StoppedAt
    <2>9. CASE ipc \in {"rollback", "remove"}
      BY <1>0, <1>1, <1>3, <2>1, <2>2, <2>3, <2>5, <2>9 DEF StoppedAt
    <2>10. CASE ipc = "idle"
      BY <1>1, <2>10 DEF StoppedAt
    <2>11. QED
      BY <1>0, <2>6, <2>7, <2>8, <2>9, <2>10 DEF ServicesTypes
  <1>6. QED
    BY <1>1, <1>2, <1>4, <1>5 DEF ServicesInv

\* The platform is given, and only the services' own steps touch the services.
LEMMA ServicesOnHost ==
  [HostNext]_hostVars => platform' = platform /\ (ServicesNext \/ UNCHANGED serviceVars)
  <1> SUFFICES ASSUME [HostNext]_hostVars
               PROVE  platform' = platform /\ (ServicesNext \/ UNCHANGED serviceVars)
    OBVIOUS
  <1>1. ConfigNext => platform' = platform
    BY DEF ConfigNext, RunWizard, CollectFields, Validate, PingAllServices, TruncateConfig,
           WriteConfig, KillConfigure, ConfigAgain
  <1>2. UNCHANGED configVars => platform' = platform
    BY DEF configVars
  <1>3. UNCHANGED worldVars => UNCHANGED configVars /\ UNCHANGED serviceVars
    BY DEF worldVars
  <1>4. QED
    BY <1>1, <1>2, <1>3 DEF HostNext, WorldStep, hostVars

LEMMA ServicesInvStep == ServicesInv /\ [HostNext]_hostVars => ServicesInv'
  <1> SUFFICES ASSUME ServicesInv, [HostNext]_hostVars PROVE ServicesInv'
    OBVIOUS
  <1>1. platform' = platform /\ (ServicesNext \/ UNCHANGED serviceVars)
    BY ServicesOnHost
  <1>2. CASE ServicesNext
    BY <1>1, <1>2, StartInstallKeeps, DisableClientKeeps, DisableServerKeeps, StopGenerateKeeps,
       WriteKeeps, StartKeeps, BreakKeeps, GateKeeps, RollBackKeeps, RemoveUnitKeeps,
       ManagerKeeps, TimerKeeps, GenerateEndKeeps DEF ServicesNext, InstallStep
  <1>3. CASE UNCHANGED serviceVars
    <2>1. UNCHANGED <<file, loaded, active, running, ipc, icmd, next, gen, ignored>>
      BY <1>3 DEF serviceVars, managerVars, commandVars
    <2>2. Server' = Server /\ Here' = Here /\ UnitSeq' = UnitSeq /\ Started' = Started
      BY <1>1, UnitsStay
    <2>3. Before(next)' = Before(next) /\ Unit' = Unit
      BY <2>1, <2>2 DEF Before, Unit
    <2>4. ServicesTypes' /\ CommandPlace' /\ Written'
      BY <1>1, <2>1, <2>2, <2>3 DEF ServicesInv, ServicesTypes, CommandPlace, Written
    <2>5. StoppedAt(ipc)' <=> StoppedAt(ipc)
      BY <2>1, <2>2, <2>3 DEF StoppedAt, Gone
    <2>6. QED
      BY <2>1, <2>4, <2>5 DEF ServicesInv
  <1>4. QED
    BY <1>1, <1>2, <1>3

\* The steps that end a command with a word on the services.
LEMMA ReportsAreTrue ==
  ASSUME ServicesInv, platform' = platform, ServicesNext, report' # report
  PROVE  ReportIsTrue'
  <1> SUFFICES ASSUME icmd'.load, ~ignored'
               PROVE  CASE report' = "ok" -> \A u \in Started' : Kept(u)'
                        [] report' = "rolled back" -> \A u \in Here' : Gone(u)'
                        [] report' = "removed" -> \A u \in Here' : Gone(u)' /\ file'[u] = Absent
                        [] OTHER -> TRUE
    BY DEF ReportIsTrue
  <1>0. /\ ServicesTypes /\ CommandPlace /\ Written /\ Server' = Server /\ Here' = Here
        /\ Started' = Started /\ Started \subseteq Here
    BY UnitsStay, UnitsInOrder DEF ServicesInv, ServicesTypes
  <1>1. CASE report' \notin {"ok", "rolled back", "removed"}
    BY <1>1
  <1>2. CASE StartInstall \/ DisableUnit \/ StopGenerate \/ TruncateUnit \/ ReloadManager
               \/ InstallFails \/ KillInstall \/ Reboot \/ TimerElapses \/ GenerateEnds
               \/ \E u \in Units : ServiceStarts(u) \/ ServiceDies(u)
    <2>1. report' \in {"none", "failed", "killed", report}
      BY <1>2 DEF StartInstall, DisableUnit, StopGenerate, TruncateUnit, ReloadManager,
                  InstallFails, KillInstall, Reboot, TimerElapses, GenerateEnds, ServiceStarts,
                  ServiceDies, commandVars
    <2>2. QED
      BY <1>1, <2>1
  <1>3. CASE WriteUnit
    <2>1. icmd' = icmd /\ ipc' # "idle"
      BY <1>3 DEF WriteUnit
    <2>2. QED
      BY <1>3, <2>1 DEF WriteUnit
  <1>4. CASE EnableUnits
    <2>1. report' = "ok" /\ Server /\ ipc = "enable"
      BY <1>4 DEF EnableUnits, InstallGoes
    <2>2. active' = active \union Started /\ UNCHANGED <<loaded, gen>>
      BY <1>4 DEF EnableUnits
    <2>3. \A u \in Started : Kept(u)'
      BY <1>0, <2>1, <2>2 DEF Written, Kept
    <2>4. QED
      BY <1>0, <2>1, <2>3
  <1>5. CASE Gate
    <2>1. /\ UNCHANGED <<active, loaded, running, icmd, gen, ignored>> /\ ipc = "gate"
          /\ report' \in {"ok", report} \/ ~icmd.load
      BY <1>5 DEF Gate, InstallGoes, managerVars
    <2>2. StoppedAt("gate")
      BY <2>1 DEF ServicesInv
    <2>3. \A u \in Started : Kept(u)'
      BY <1>0, <2>1, <2>2 DEF StoppedAt, Written, Kept
    <2>4. QED
      BY <1>0, <2>1, <2>3
  <1>6. CASE RollBack
    <2>1. /\ EachUnit("rollback", "idle") /\ ipc' = "idle" /\ report' = "rolled back"
          /\ icmd' = icmd
      BY <1>6 DEF RollBack
    <2>2. Stop({Unit}) /\ ~ignored
      <3>1. \/ Stop({Unit}) /\ UNCHANGED ignored
            \/ ignored' /\ UNCHANGED <<active, running>>
        BY <1>6 DEF RollBack
      <3>2. QED
        BY <3>1
    <2>3. /\ ipc = "rollback" /\ Unit \in Units /\ Here = Before(next) \union {Unit}
      BY <1>0, <2>1, EachUnitGoes DEF ServicesTypes
    <2>4. \A u \in Before(next) : u \in Units /\ Gone(u)
      BY <1>0, <2>1, <2>2, <2>3, UnitsInOrder DEF ServicesInv, StoppedAt, ServicesTypes
    <2>5. (\A u \in {Unit} : Gone(u)') /\ \A u \in Units : Gone(u) => Gone(u)'
      <3>1. {Unit} \in SUBSET Units
        BY <2>3
      <3>2. QED
        BY <2>2, <3>1, StopStops
    <2>6. \A u \in Here : Gone(u)'
      BY <2>3, <2>4, <2>5
    <2>7. QED
      BY <1>0, <2>1, <2>6
  <1>7. CASE RemoveUnit
    <2>1. report' = "removed" /\ ipc' = "idle"
      BY <1>7 DEF RemoveUnit
    <2>2. /\ icmd' = icmd /\ ignored' = ignored /\ Here = Before(next) \union {Unit}
      BY <1>7, <2>1, RemoveUnitGoes
    <2>3. \A u \in Here : Gone(u)' /\ file'[u] = Absent
      BY <1>7, <2>2, RemoveUnitGoes
    <2>4. QED
      BY <1>0, <2>1, <2>3
  <1>8. QED
    BY <1>2, <1>3, <1>4, <1>5, <1>6, <1>7 DEF ServicesNext, InstallStep

\* What an install or an uninstall says in the end is so, whatever updates,
\* configuration commands, dying services and reboots come between, unless a
\* call that failed was passed over (systemd.go:86-158, launchd.go:85-151,
\* server.go:112-181, verify.go:41-72).
THEOREM InstallsReportTheTruth == HostSpec => InstallReportsTrue
  <1>1. HostInit => ServicesInv
    BY ServicesInvInit DEF HostInit
  <1>2. ServicesInv /\ [HostNext]_hostVars => [report' # report => ReportIsTrue']_serviceVars
    BY ServicesOnHost, ReportsAreTrue
  <1>3. QED
    BY <1>1, <1>2, ServicesInvStep, PTL DEF HostSpec, InstallReportsTrue

=============================================================================
