-------------------------- MODULE ProcessorProofs --------------------------
(***************************************************************************)
(* Proofs about module Processor: whatever fails and whenever the daemon   *)
(* is killed, no object is lost, and an object is archived only when       *)
(* everything it had to say is stored or was given up by the model.        *)
(* Cursors only advance, and leave behind nothing but what is explained.   *)
(*                                                                         *)
(* About module ModelCall: it takes Processor's steps only, and the rows   *)
(* of an event are paid for by its lines, its object's failures and kills. *)
(***************************************************************************)
EXTENDS ModelCall, FiniteSetTheorems, SequenceTheorems, TLAPS

USE KeyAssumption, KindAssumption, ProcBoundsAssumption

ItemsOf(s) == {s[n] : n \in DOMAIN s}

\* Reading a line takes its head and nothing else from what is left.
LEMMA ReadOne ==
  ASSUME NEW S, NEW s \in Seq(S), s # <<>>
  PROVE  /\ Head(s) \in S /\ Tail(s) \in Seq(S)
         /\ ItemsOf(s) \subseteq ItemsOf(Tail(s)) \cup {Head(s)}
<1>1. /\ Head(s) \in S /\ Tail(s) \in Seq(S) /\ Len(Tail(s)) = Len(s) - 1
      /\ \A i \in 1 .. Len(Tail(s)) : Tail(s)[i] = s[i + 1]
  BY HeadTailProperties
<1>2. DOMAIN s = 1 .. Len(s) /\ Len(s) \in Nat
      /\ DOMAIN Tail(s) = 1 .. Len(Tail(s)) /\ Head(s) = s[1]
  BY <1>1
<1>3. ASSUME NEW n \in 1 .. Len(s) PROVE s[n] \in ItemsOf(Tail(s)) \cup {Head(s)}
  <2>1. CASE n = 1
    BY <2>1, <1>2
  <2>2. CASE n # 1
    <3>1. n - 1 \in 1 .. Len(Tail(s)) /\ s[n] = Tail(s)[n - 1]
      BY <2>2, <1>1, <1>2
    <3> QED BY <3>1, <1>2 DEF ItemsOf
  <2> QED BY <2>1, <2>2
<1> QED BY <1>1, <1>2, <1>3 DEF ItemsOf

----------------------------------------------------------------------------
\* Keys are unique, so ObjectAt finds the object it is asked for.
UniqueKeys == \A o, p \in uploads : o.key = p.key => o = p

\* What is listed and not visited yet is there, once; no key is left over
\* outside a machine's visit; and what is denoised or inserted is a line.
Listed ==
  /\ \A k \in todo : k.machine = machine /\ k # key /\ \E o \in raw : o.key = k
  /\ ppc \in {"tick", "machine"} => todo = {} /\ key = None
  /\ ppc = "next" => key = None
  /\ ppc \in {"denoise", "insert"} => lines # <<>>

KeyInv == ProcTypeOK /\ UniqueKeys /\ Listed

\* The object of a key that is there.
LEMMA ObjectFound ==
  ASSUME UniqueKeys, raw \subseteq uploads, NEW k, \E o \in raw : o.key = k
  PROVE  /\ ObjectAt(k) \in raw /\ ObjectAt(k).key = k
         /\ \A o \in raw : o.key = k => o = ObjectAt(k)
  BY DEF UniqueKeys, ObjectAt

\* The object being processed, where there is one.
LEMMA Current ==
  ASSUME KeyInv, ppc \in Working \ {"next", "advance"}
  PROVE  /\ ObjectAt(key) \in raw /\ ObjectAt(key) \in Object
         /\ ObjectAt(key).key = key
         /\ key \in Key /\ key.machine = machine /\ machine \in Machines
         /\ \A o \in raw : o.key = key => o = ObjectAt(key)
<1>1. key \in Key /\ key.machine = machine /\ \E o \in raw : o.key = key
  BY DEF KeyInv, ProcTypeOK, Working
<1>2. raw \subseteq uploads /\ UniqueKeys /\ uploads \subseteq Object
  BY DEF KeyInv, ProcTypeOK
<1> QED BY <1>1, <1>2, ObjectFound DEF Key

LEMMA KeyInit == ProcInit => KeyInv
  BY DEF ProcInit, KeyInv, ProcTypeOK, UniqueKeys, Listed, Working

----------------------------------------------------------------------------
\* A shipper's upload brings a new key, and disturbs nothing of the daemon's.
LEMMA KeyUpload ==
  ASSUME KeyInv, NEW m \in Machines, Upload(m)
  PROVE  KeyInv'
<1>1. PICK s \in Secs, t \in Ties, b \in Batches, broken \in BOOLEAN :
        LET k == [machine |-> m, sec |-> s, tie |-> t]
            o == [key |-> k, lines |-> b, broken |-> broken, late |-> Overtaken(k)]
        IN k \notin KeysOf(m) /\ uploads' = uploads \cup {o} /\ raw' = raw \cup {o}
  BY DEF Upload
<1> DEFINE k == [machine |-> m, sec |-> s, tie |-> t]
<1> DEFINE o == [key |-> k, lines |-> b, broken |-> broken, late |-> Overtaken(k)]
<1>2. o \in Object /\ \A u \in uploads : u.key # o.key
  <2>1. Overtaken(k) \in BOOLEAN
    BY DEF Overtaken
  <2>2. o \in Object
    BY <2>1 DEF Object, Key
  <2>3. \A u \in uploads : u.key # k
    BY <1>1 DEF KeysOf
  <2> QED BY <2>2, <2>3
<1>3. uploads' = uploads \cup {o} /\ raw' = raw \cup {o}
  BY <1>1
<1>4. UNCHANGED <<archive, cursor, rows, skipped, cut, daemon, faults, kills>>
  BY DEF Upload
<1> HIDE DEF o
<1>5. ProcTypeOK'
  BY <1>2, <1>3, <1>4 DEF KeyInv, ProcTypeOK, daemon
<1>6. UniqueKeys'
  BY <1>2, <1>3 DEF KeyInv, UniqueKeys
<1>7. Listed'
  BY <1>3, <1>4 DEF KeyInv, Listed, daemon
<1> QED BY <1>5, <1>6, <1>7 DEF KeyInv

\* Every step of the daemon keeps to the object it is at.
LEMMA KeyStep == KeyInv /\ ProcStep => KeyInv'
<1> SUFFICES ASSUME KeyInv, ProcStep PROVE KeyInv'
  OBVIOUS
<1> USE DEF KeyInv, Working
<1>1. CASE Discover
  <2>1. {o.key.machine : o \in raw} \subseteq Machines
    BY DEF ProcTypeOK, Object, Key
  <2> QED BY <1>1, <2>1 DEF Discover, Calm, stores, ProcTypeOK, UniqueKeys, Listed
<1>2. CASE EndTick \/ EndMachine \/ EndOfFile \/ Denoise
  BY <1>2 DEF EndTick, EndMachine, EndOfFile, Denoise, Calm, stores,
              ProcTypeOK, UniqueKeys, Listed
<1>3. CASE ListMachine
  <2>1. \A o \in raw : o.key \in Key
    BY DEF ProcTypeOK, Object
  <2> QED BY <1>3, <2>1 DEF ListMachine, Calm, stores, ProcTypeOK, UniqueKeys, Listed
<1>4. CASE NextObject
  BY <1>4 DEF NextObject, Calm, stores, ProcTypeOK, UniqueKeys, Listed
<1>5. CASE Download
  <2>1. ObjectAt(key).lines \in Seq(Events)
    BY <1>5, Current DEF Download, Object
  <2> QED BY <1>5, <2>1 DEF Download, Calm, stores, ProcTypeOK, UniqueKeys, Listed
<1>6. CASE SkipCorrupt
  BY <1>6, Current DEF SkipCorrupt, Calm, ProcTypeOK, UniqueKeys, Listed
<1>7. CASE SkipLine
  <2>1. Tail(lines) \in Seq(Events)
    BY <1>7, ReadOne DEF SkipLine, ProcTypeOK
  <2> QED BY <1>7, <2>1 DEF SkipLine, Calm, stores, ProcTypeOK, UniqueKeys, Listed
<1>8. CASE LineTooLong
  BY <1>8 DEF LineTooLong, Halted, Calm, stores, ProcTypeOK, UniqueKeys, Listed
<1>9. CASE AdvanceCursor
  BY <1>9 DEF AdvanceCursor, Calm, ProcTypeOK, UniqueKeys, Listed
<1>10. CASE CopyToArchive
  BY <1>10, Current DEF CopyToArchive, Calm, ProcTypeOK, UniqueKeys, Listed
<1>11. CASE RemoveRaw
  BY <1>11, Current DEF RemoveRaw, Removed, Calm, ProcTypeOK, UniqueKeys, Listed
<1>12. CASE DenoisePoison
  <2>1. Head(lines) \in Events /\ Tail(lines) \in Seq(Events)
    BY <1>12, ReadOne DEF DenoisePoison, ProcTypeOK, Listed
  <2> QED BY <1>12, <2>1 DEF DenoisePoison, Calm, ProcTypeOK, UniqueKeys, Listed
<1>13. CASE Insert
  <2>1. Head(lines) \in Events /\ Tail(lines) \in Seq(Events)
    BY <1>13, ReadOne DEF Insert, ProcTypeOK, Listed
  <2> QED BY <1>13, <2>1 DEF Insert, Inserted, Calm, ProcTypeOK, UniqueKeys, Listed
<1> QED
  BY <1>1, <1>2, <1>3, <1>4, <1>5, <1>6, <1>7, <1>8, <1>9, <1>10, <1>11, <1>12, <1>13
  DEF ProcStep
\* So do its failures and deaths.
LEMMA KeyFault == KeyInv /\ (DownloadCut \/ Fault \/ ProcKill) => KeyInv'
<1> SUFFICES ASSUME KeyInv, DownloadCut \/ Fault \/ ProcKill PROVE KeyInv'
  OBVIOUS
<1> USE DEF KeyInv, Working
<1>1. CASE DownloadCut
  BY <1>1 DEF DownloadCut, ProcTypeOK, UniqueKeys, Listed
<1>2. CASE ProcKill
  BY <1>2 DEF ProcKill, stores, ProcTypeOK, UniqueKeys, Listed
<1>3. CASE Fault
  <2>1. CASE ppc \in Working \ {"next"} /\ Halted /\ UNCHANGED <<raw, rows>>
    BY <1>3, <2>1 DEF Fault, Halted, ProcTypeOK, UniqueKeys, Listed
  <2>2. CASE ppc = "insert" /\ Inserted /\ Halted /\ UNCHANGED raw
    <3>1. Head(lines) \in Events
      BY <2>2, ReadOne DEF ProcTypeOK, Listed
    <3> QED BY <1>3, <2>2, <3>1 DEF Fault, Inserted, Halted, ProcTypeOK, UniqueKeys, Listed
  <2>3. CASE ppc = "remove" /\ Removed /\ Halted /\ UNCHANGED rows
    BY <1>3, <2>3 DEF Fault, Removed, Halted, ProcTypeOK, UniqueKeys, Listed
  <2>4. CASE /\ ppc = "machine" /\ pending # {}
             /\ \E m \in pending : pending' = pending \ {m}
             /\ UNCHANGED <<ppc, machine, todo, key, lines, raw, rows>>
    BY <1>3, <2>4 DEF Fault, ProcTypeOK, UniqueKeys, Listed
  <2> QED BY <1>3, <2>1, <2>2, <2>3, <2>4 DEF Fault
<1> QED BY <1>1, <1>2, <1>3

\* The processor is well typed, and the object it works on is one of the
\* machine it visits, still under raw/ (process.go:366-398).
THEOREM ProcTypeCorrect == ProcSpec => []ProcTypeOK
<1>1. KeyInv /\ UNCHANGED procVars => KeyInv'
  BY DEF KeyInv, ProcTypeOK, UniqueKeys, Listed, procVars, stores, daemon
<1>2. KeyInv /\ [ProcNext]_procVars => KeyInv'
  BY <1>1, KeyUpload, KeyStep, KeyFault DEF ProcNext
<1>3. KeyInv => ProcTypeOK
  BY DEF KeyInv
<1> QED BY <1>2, <1>3, KeyInit, PTL DEF ProcSpec

----------------------------------------------------------------------------
\* While an object is read, what it had to say and is not settled yet is in
\* what is left of it; when it is copied nothing is left; what is removed is
\* in the archive.
Accounted ==
  /\ ppc \in {"line", "denoise", "insert", "copy"} =>
       Wanted(ObjectAt(key)) \subseteq rows \cup skipped \cup ItemsOf(lines)
  /\ ppc = "copy" => lines = <<>>
  /\ ppc = "remove" => ObjectAt(key) \in archive

IInv == KeyInv /\ NothingVanishes /\ ArchivedIsComplete /\ Accounted

LEMMA IInit == ProcInit => IInv
  BY KeyInit DEF ProcInit, IInv, NothingVanishes, ArchivedIsComplete, Accounted

\* The object being processed stays what it is while it is there.
LEMMA SameObject ==
  ASSUME KeyInv, KeyInv', ppc \in Working \ {"next", "advance"},
         raw \subseteq raw', UNCHANGED key
  PROVE  ObjectAt(key)' = ObjectAt(key)
<1>1. ObjectAt(key) \in raw /\ ObjectAt(key).key = key
  BY Current
<1>2. ObjectAt(key) \in raw' /\ UniqueKeys' /\ raw' \subseteq uploads'
  BY <1>1 DEF KeyInv, ProcTypeOK
<1>3. \A o \in raw' : o.key = key => o = ObjectAt(key)
  BY <1>1, <1>2 DEF UniqueKeys
<1> QED BY <1>1, <1>2, <1>3 DEF ObjectAt

\* A step that reads a line settles it, or the line says nothing.
LEMMA LineSettled ==
  ASSUME KeyInv, Accounted, lines # <<>>, ppc \in {"line", "denoise", "insert"},
         lines' = Tail(lines), UNCHANGED <<raw, key>>,
         rows \subseteq rows', skipped \subseteq skipped',
         Kind[Head(lines)] = "plain" => Head(lines) \in rows' \cup skipped'
  PROVE  Wanted(ObjectAt(key))' \subseteq rows' \cup skipped' \cup ItemsOf(lines')
<1>1. Wanted(ObjectAt(key)) \subseteq rows \cup skipped \cup ItemsOf(lines)
  BY DEF Accounted
<1>2. ItemsOf(lines) \subseteq ItemsOf(lines') \cup {Head(lines)}
  BY ReadOne DEF KeyInv, ProcTypeOK
<1>3. \A e \in Wanted(ObjectAt(key)) : Kind[e] = "plain"
  BY DEF Wanted
<1>4. Wanted(ObjectAt(key))' = Wanted(ObjectAt(key))
  BY DEF Wanted, ObjectAt
<1> QED BY <1>1, <1>2, <1>3, <1>4

LEMMA IUpload ==
  ASSUME IInv, KeyInv', NEW m \in Machines, Upload(m)
  PROVE  IInv'
<1>1. PICK o : uploads' = uploads \cup {o} /\ raw' = raw \cup {o}
  BY DEF Upload
<1>2. UNCHANGED <<archive, rows, skipped, ppc, key, lines>>
  BY DEF Upload, daemon
<1>3. NothingVanishes' /\ ArchivedIsComplete'
  BY <1>1, <1>2 DEF IInv, NothingVanishes, ArchivedIsComplete, Wanted
<1>4. CASE ppc \in {"line", "denoise", "insert", "copy", "remove"}
  <2>1. ObjectAt(key)' = ObjectAt(key)
    BY <1>1, <1>2, <1>4, SameObject DEF IInv, Working
  <2>2. Wanted(ObjectAt(key))' = Wanted(ObjectAt(key))
    BY <2>1 DEF Wanted
  <2>3. Accounted'
    BY <1>2, <2>1, <2>2 DEF IInv, Accounted
  <2> QED BY <1>3, <2>3 DEF IInv
<1>5. CASE ppc \notin {"line", "denoise", "insert", "copy", "remove"}
  BY <1>2, <1>3, <1>5 DEF IInv, Accounted
<1> QED BY <1>4, <1>5

LEMMA IStep == IInv /\ KeyInv' /\ ProcStep => IInv'
<1> SUFFICES ASSUME IInv, KeyInv', ProcStep PROVE IInv'
  OBVIOUS
<1> USE DEF IInv
<1>1. CASE Discover \/ EndTick \/ ListMachine \/ EndMachine \/ NextObject \/ LineTooLong
  BY <1>1 DEF Discover, EndTick, ListMachine, EndMachine, NextObject, LineTooLong,
              Halted, Calm, stores, NothingVanishes, ArchivedIsComplete, Accounted
<1>2. CASE SkipCorrupt \/ AdvanceCursor
  BY <1>2 DEF SkipCorrupt, AdvanceCursor, Calm, NothingVanishes, ArchivedIsComplete,
              Accounted
<1>3. CASE Download
  <2>1. UNCHANGED <<uploads, raw, archive, rows, skipped, key>>
    BY <1>3 DEF Download, stores
  <2>2. CASE ppc' = "corrupt"
    BY <2>1, <2>2 DEF NothingVanishes, ArchivedIsComplete, Accounted
  <2>3. CASE ppc' = "line" /\ lines' = ObjectAt(key).lines
    <3>1. Wanted(ObjectAt(key)) \subseteq ItemsOf(lines')
      BY <2>3 DEF Wanted, ItemsOf
    <3>2. Wanted(ObjectAt(key))' = Wanted(ObjectAt(key))
      BY <2>1 DEF Wanted, ObjectAt
    <3> QED BY <2>1, <2>3, <3>1, <3>2 DEF NothingVanishes, ArchivedIsComplete, Accounted
  <2> QED BY <1>3, <2>2, <2>3 DEF Download
<1>4. CASE SkipLine
  <2>1. CASE Kind[Head(lines)] = "plain"
    BY <1>4, <2>1 DEF SkipLine, Calm, stores, NothingVanishes, ArchivedIsComplete,
                      Accounted, ObjectAt
  <2>2. CASE Kind[Head(lines)] # "plain"
    <3>1. Wanted(ObjectAt(key))' \subseteq rows' \cup skipped' \cup ItemsOf(lines')
      BY <1>4, <2>2, LineSettled DEF SkipLine, stores
    <3> QED BY <1>4, <2>2, <3>1 DEF SkipLine, stores, NothingVanishes,
                                    ArchivedIsComplete, Accounted
  <2> QED BY <2>1, <2>2
<1>5. CASE EndOfFile \/ Denoise
  BY <1>5 DEF EndOfFile, Denoise, Calm, stores, NothingVanishes, ArchivedIsComplete,
              Accounted, ObjectAt
<1>6. CASE DenoisePoison
  <2>1. Wanted(ObjectAt(key))' \subseteq rows' \cup skipped' \cup ItemsOf(lines')
    BY <1>6, LineSettled DEF DenoisePoison, KeyInv, Listed
  <2> QED BY <1>6, <2>1 DEF DenoisePoison, NothingVanishes, ArchivedIsComplete, Accounted
<1>7. CASE Insert
  <2>1. Wanted(ObjectAt(key))' \subseteq rows' \cup skipped' \cup ItemsOf(lines')
    BY <1>7, LineSettled DEF Insert, Inserted, KeyInv, Listed
  <2> QED BY <1>7, <2>1 DEF Insert, Inserted, NothingVanishes, ArchivedIsComplete, Accounted
<1>8. CASE CopyToArchive
  <2>1. ItemsOf(lines) = {}
    BY <1>8 DEF CopyToArchive, Accounted, ItemsOf
  <2>2. Wanted(ObjectAt(key)) \subseteq rows \cup skipped
    BY <1>8, <2>1 DEF CopyToArchive, Accounted
  <2>3. ObjectAt(key) \in raw /\ ObjectAt(key)' = ObjectAt(key)
    BY <1>8, Current DEF CopyToArchive, Working, ObjectAt
  <2> QED BY <1>8, <2>2, <2>3 DEF CopyToArchive, NothingVanishes, ArchivedIsComplete,
                                  Wanted, Accounted
<1>9. CASE RemoveRaw
  BY <1>9 DEF RemoveRaw, Removed, NothingVanishes, ArchivedIsComplete, Accounted
<1> QED BY <1>1, <1>2, <1>3, <1>4, <1>5, <1>6, <1>7, <1>8, <1>9 DEF ProcStep

LEMMA IFault == IInv /\ (DownloadCut \/ Fault \/ ProcKill) /\ KeyInv' => IInv'
<1> SUFFICES ASSUME IInv, DownloadCut \/ Fault \/ ProcKill, KeyInv' PROVE IInv'
  OBVIOUS
<1> USE DEF IInv
<1>1. CASE DownloadCut \/ ProcKill
  BY <1>1 DEF DownloadCut, ProcKill, stores, NothingVanishes, ArchivedIsComplete, Accounted
<1>2. CASE Fault
  <2>1. archive' = archive /\ uploads' = uploads /\ skipped' = skipped /\ rows \subseteq rows'
    BY <1>2 DEF Fault, Inserted
  <2>2. ArchivedIsComplete'
    BY <2>1 DEF ArchivedIsComplete, Wanted
  <2>3. NothingVanishes'
    BY <1>2, <2>1 DEF Fault, Removed, NothingVanishes, Accounted
  <2>4. Accounted'
    BY <1>2 DEF Fault, Halted, Accounted
  <2> QED BY <2>2, <2>3, <2>4
<1> QED BY <1>1, <1>2

LEMMA IInvariant == ProcSpec => []IInv
<1>1. IInv /\ UNCHANGED procVars => IInv'
  BY DEF IInv, KeyInv, ProcTypeOK, UniqueKeys, Listed, NothingVanishes,
         ArchivedIsComplete, Accounted, ObjectAt, procVars, stores, daemon
<1>2. IInv /\ [ProcNext]_procVars => IInv'
  <2> SUFFICES ASSUME IInv, ProcNext PROVE IInv'
    BY <1>1
  <2>1. KeyInv'
    BY KeyUpload, KeyStep, KeyFault DEF ProcNext, IInv
  <2> QED BY <2>1, IUpload, IStep, IFault DEF ProcNext
<1> QED BY <1>2, IInit, PTL DEF ProcSpec

\* The processor never loses an object between raw/ and the archive, with any
\* number of machines, objects, failed calls and kills (client.go:101-116).
THEOREM NothingEverVanishes == ProcSpec => []NothingVanishes
  BY IInvariant, PTL DEF IInv

\* An object is archived only when each of its events is in ClickHouse or was
\* given up by the model (process.go:423-437).
THEOREM ArchiveImpliesStored == ProcSpec => []ArchivedIsComplete
  BY IInvariant, PTL DEF IInv

----------------------------------------------------------------------------
(* The daemon implements module Delivery. *)

\* What is read comes from the object being processed, and what is denoised or
\* inserted is to be stored.
Said ==
  /\ ppc \in {"line", "denoise", "insert"} => ItemsOf(lines) \subseteq ItemsOf(ObjectAt(key).lines)
  /\ ppc \in {"denoise", "insert"} => Kind[Head(lines)] = "plain"

LEMMA TailSaid ==
  ASSUME NEW S, NEW s \in Seq(S), s # <<>>
  PROVE  ItemsOf(Tail(s)) \subseteq ItemsOf(s) /\ Head(s) \in ItemsOf(s)
<1>1. /\ Tail(s) \in Seq(S) /\ Len(Tail(s)) = Len(s) - 1
      /\ \A i \in 1 .. Len(Tail(s)) : Tail(s)[i] = s[i + 1]
  BY HeadTailProperties
<1>2. DOMAIN s = 1 .. Len(s) /\ Len(s) \in Nat \ {0}
      /\ DOMAIN Tail(s) = 1 .. Len(Tail(s)) /\ Head(s) = s[1]
  BY <1>1
<1>3. ASSUME NEW i \in 1 .. Len(Tail(s)) PROVE Tail(s)[i] \in ItemsOf(s)
  BY <1>1, <1>2 DEF ItemsOf
<1> QED BY <1>1, <1>2, <1>3 DEF ItemsOf

LEMMA SaidStep ==
  ASSUME KeyInv, KeyInv', Said, ProcNext
  PROVE  Said'
<1> USE DEF Said
<1>1. ASSUME NEW m \in Machines, Upload(m) PROVE Said'
  <2>1. UNCHANGED <<ppc, key, lines>> /\ raw \subseteq raw'
    BY <1>1 DEF Upload, daemon
  <2>2. CASE ppc \in {"line", "denoise", "insert"}
    <3>1. ObjectAt(key)' = ObjectAt(key)
      BY <2>1, <2>2, SameObject DEF Working
    <3> QED BY <2>1, <3>1 DEF ItemsOf
  <2> QED BY <2>1, <2>2
<1>2. CASE Discover \/ EndTick \/ ListMachine \/ EndMachine \/ NextObject
           \/ SkipCorrupt \/ LineTooLong \/ EndOfFile
           \/ CopyToArchive \/ RemoveRaw \/ AdvanceCursor
  BY <1>2 DEF Discover, EndTick, ListMachine, EndMachine, NextObject, SkipCorrupt,
              LineTooLong, Halted, EndOfFile, CopyToArchive, RemoveRaw, AdvanceCursor
<1>3. CASE Download
  <2>1. ObjectAt(key)' = ObjectAt(key)
    BY <1>3 DEF Download, stores, ObjectAt
  <2> QED BY <1>3, <2>1 DEF Download, ItemsOf
<1>4. CASE SkipLine \/ Denoise \/ DenoisePoison \/ Insert
  <2>1. ObjectAt(key)' = ObjectAt(key)
    BY <1>4 DEF SkipLine, Denoise, DenoisePoison, Insert, stores, ObjectAt
  <2>2. lines \in Seq(Events) /\ lines # <<>> /\ ppc \in {"line", "denoise", "insert"}
    BY <1>4 DEF SkipLine, Denoise, DenoisePoison, Insert, KeyInv, ProcTypeOK, Listed
  <2>3. lines' \in {lines, Tail(lines)}
    BY <1>4 DEF SkipLine, Denoise, DenoisePoison, Insert
  <2>4. ItemsOf(lines') \subseteq ItemsOf(lines)
    BY <2>2, <2>3, TailSaid
  <2>5. ppc' \in {"denoise", "insert"} => lines' = lines /\ Kind[Head(lines)] = "plain"
    BY <1>4 DEF SkipLine, Denoise, DenoisePoison, Insert
  <2>6. ItemsOf(lines') \subseteq ItemsOf(ObjectAt(key).lines)
    BY <2>2, <2>4
  <2> QED BY <2>1, <2>5, <2>6 DEF ItemsOf
<1>5. CASE DownloadCut \/ Fault \/ ProcKill
  BY <1>5 DEF DownloadCut, Fault, Halted, ProcKill
<1> QED BY <1>1, <1>2, <1>3, <1>4, <1>5 DEF ProcNext, ProcStep

\* The event at hand is one the object being processed says.
LEMMA HeadSaid ==
  ASSUME KeyInv, Said, ppc \in {"denoise", "insert"}
  PROVE  ObjectAt(key) \in raw /\ Head(lines) \in Wanted(ObjectAt(key))
<1>1. ObjectAt(key) \in raw
  BY Current DEF Working
<1>2. lines \in Seq(Events) /\ lines # <<>>
  BY DEF KeyInv, ProcTypeOK, Listed
<1>3. Head(lines) \in ItemsOf(ObjectAt(key).lines)
  BY <1>2, TailSaid DEF Said
<1> QED BY <1>1, <1>3 DEF Said, Wanted, ItemsOf

LEMMA DeliveryStep ==
  ASSUME IInv, Said, ProcNext
  PROVE  [Delivered!DeliveryNext]_(Delivered!deliveryVars)
<1> USE DEF Delivered!DeliveryNext, Delivered!deliveryVars
<1>1. ASSUME NEW m \in Machines, Upload(m) PROVE Delivered!Ship
  <2>1. PICK s \in Secs, t \in Ties, b \in Batches, broken \in BOOLEAN :
          LET k == [machine |-> m, sec |-> s, tie |-> t]
              o == [key |-> k, lines |-> b, broken |-> broken, late |-> Overtaken(k)]
          IN k \notin KeysOf(m) /\ uploads' = uploads \cup {o} /\ raw' = raw \cup {o}
    BY <1>1 DEF Upload
  <2> DEFINE k == [machine |-> m, sec |-> s, tie |-> t]
             o == [key |-> k, lines |-> b, broken |-> broken, late |-> Overtaken(k)]
  <2>2. o \in Object
    BY DEF Object, Key, Overtaken
  <2>3. o \notin uploads
    BY <2>1 DEF KeysOf
  <2> QED BY <1>1, <2>1, <2>2, <2>3 DEF Delivered!Ship, Upload
<1>2. CASE Insert
  BY <1>2, HeadSaid DEF Insert, Inserted, IInv, Delivered!Store
<1>3. CASE DenoisePoison
  BY <1>3, HeadSaid DEF DenoisePoison, IInv, Delivered!Drop
<1>4. CASE CopyToArchive
  <2>1. ObjectAt(key) \in raw
    BY <1>4, Current DEF CopyToArchive, IInv, Working
  <2>2. Wanted(ObjectAt(key)) \subseteq rows \cup skipped
    BY <1>4 DEF CopyToArchive, IInv, Accounted, ItemsOf
  <2> QED BY <1>4, <2>1, <2>2 DEF CopyToArchive, Delivered!File
<1>5. CASE RemoveRaw
  BY <1>5, Current DEF RemoveRaw, Removed, IInv, Accounted, Working, Delivered!Remove
<1>6. CASE Fault
  <2>1. UNCHANGED <<uploads, archive, skipped>>
    BY <1>6 DEF Fault
  <2>2. CASE UNCHANGED <<raw, rows>>
    BY <2>1, <2>2
  <2>3. CASE ppc = "insert" /\ Inserted /\ UNCHANGED raw
    BY <2>1, <2>3, HeadSaid DEF Inserted, IInv, Delivered!Store
  <2>4. CASE ppc = "remove" /\ Removed /\ UNCHANGED rows
    BY <2>1, <2>4, Current DEF Removed, IInv, Accounted, Working, Delivered!Remove
  <2> QED BY <1>6, <2>2, <2>3, <2>4 DEF Fault
<1>7. CASE Discover \/ EndTick \/ ListMachine \/ EndMachine \/ NextObject \/ Download
           \/ SkipCorrupt \/ SkipLine \/ LineTooLong \/ EndOfFile \/ Denoise
           \/ AdvanceCursor \/ DownloadCut \/ ProcKill
  BY <1>7 DEF Discover, EndTick, ListMachine, EndMachine, NextObject, Download,
              SkipCorrupt, SkipLine, LineTooLong, EndOfFile, Denoise, AdvanceCursor,
              DownloadCut, ProcKill, stores
<1> QED BY <1>1, <1>2, <1>3, <1>4, <1>5, <1>6, <1>7 DEF ProcNext, ProcStep

\* The daemon keeps the promise of module Delivery, with any machines, objects
\* and events, whatever fails and whenever it is killed.
THEOREM DaemonDelivers == ProcSpec => ImplementsDelivery
<1>1. ProcInit => Delivered!DeliveryInit
  BY DEF ProcInit, Delivered!DeliveryInit
<1>2. ProcInit => Said
  BY DEF ProcInit, Said
<1>3. IInv /\ IInv' /\ Said /\ [ProcNext]_procVars => Said'
  <2>1. CASE ProcNext
    BY <2>1, SaidStep DEF IInv
  <2>2. CASE UNCHANGED procVars
    BY <2>2 DEF procVars, stores, daemon, Said, ItemsOf, ObjectAt
  <2> QED BY <2>1, <2>2
<1>4. IInv /\ Said /\ [ProcNext]_procVars => [Delivered!DeliveryNext]_(Delivered!deliveryVars)
  <2>1. CASE ProcNext
    BY <2>1, DeliveryStep
  <2>2. CASE UNCHANGED procVars
    BY <2>2 DEF procVars, stores, Delivered!deliveryVars
  <2> QED BY <2>1, <2>2
<1> QED BY <1>1, <1>2, <1>3, <1>4, IInvariant, PTL
        DEF ProcSpec, ImplementsDelivery, Delivered!DeliverySpec

----------------------------------------------------------------------------
(* The cursors *)

\* The keys of a machine are in a total order.
LEMMA KeysAreOrdered ==
  ASSUME NEW i \in Key, NEW j \in Key, NEW k \in Key
  PROVE  /\ i # j /\ i.machine = j.machine => Before(i, j) \/ Before(j, i)
         /\ ~(Before(i, j) /\ Before(j, i)) /\ ~Before(i, i)
         /\ Before(i, j) /\ Before(j, k) => Before(i, k)
<1>1. ASSUME NEW l \in Key PROVE l.sec \in Nat /\ l.tie \in Nat
  <2>1. l.sec \in Secs /\ l.tie \in Ties
    BY DEF Key
  <2> QED BY <2>1
<1>2. i.machine = j.machine /\ i.sec = j.sec /\ i.tie = j.tie => i = j
  BY DEF Key
<1> QED BY <1>1, <1>2 DEF Before

\* The keys a visit has still to deal with.
Front == todo \cup ({key} \ {None})

\* A cursor stands at an object of its machine.  The daemon works in front of it
\* and in order; what it leaves out came after the listing with an earlier key.
CursorInv ==
  /\ KeyInv
  /\ \A m \in Machines : cursor[m] # None =>
       cursor[m].machine = m /\ \E u \in uploads : u.key = cursor[m]
  /\ \A k \in Front : ~Passed(k) /\ k.machine = machine /\ \E u \in uploads : u.key = k
  /\ key # None => \A k \in todo : Before(key, k)
  /\ \A k \in Front, o \in raw :
       o.key.machine = machine /\ Before(o.key, k) /\ ~Passed(o.key)
         => o.late \/ o.key \in Front
  /\ ppc = "corrupt" => \A o \in raw : o.key = key => o.broken \/ key \in cut
  /\ ppc = "advance" => \A o \in raw : o.key # key
  /\ PassedOverIsExplained

LEMMA CursorInit == ProcInit => CursorInv
  BY KeyInit DEF ProcInit, CursorInv, Front, PassedOverIsExplained

\* A step within a visit.
LEMMA CursorStays ==
  ASSUME CursorInv, KeyInv', uploads' = uploads, cursor' = cursor, raw' \subseteq raw,
         cut \subseteq cut', todo' = todo, key' = key, machine' = machine,
         ppc' = "corrupt" => \A o \in raw' : o.key = key => o.broken \/ key \in cut',
         ppc' = "advance" => \A o \in raw' : o.key # key
  PROVE  CursorInv'
<1>1. \A k : Passed(k)' <=> Passed(k)
  BY DEF Passed
<1>2. PassedOverIsExplained'
  BY <1>1 DEF CursorInv, PassedOverIsExplained
<1> QED BY <1>1, <1>2 DEF CursorInv, Front

\* A step outside a visit, or one that gives it up.
LEMMA CursorEnds ==
  ASSUME CursorInv, KeyInv', uploads' = uploads, cursor' = cursor, raw' \subseteq raw,
         cut \subseteq cut', todo' = {}, key' = None, ppc' \in {"machine", "tick"}
  PROVE  CursorInv'
<1>1. \A k : Passed(k)' <=> Passed(k)
  BY DEF Passed
<1>2. PassedOverIsExplained'
  BY <1>1 DEF CursorInv, PassedOverIsExplained
<1> QED BY <1>1, <1>2 DEF CursorInv, Front

\* An upload in front of the daemon, or behind a cursor, is late.
LEMMA CursorUpload ==
  ASSUME CursorInv, KeyInv', NEW m \in Machines, Upload(m)
  PROVE  CursorInv'
<1>1. PICK s \in Secs, t \in Ties, b \in Batches, broken \in BOOLEAN :
        LET k == [machine |-> m, sec |-> s, tie |-> t]
            o == [key |-> k, lines |-> b, broken |-> broken, late |-> Overtaken(k)]
        IN k \notin KeysOf(m) /\ uploads' = uploads \cup {o} /\ raw' = raw \cup {o}
  BY DEF Upload
<1> DEFINE k == [machine |-> m, sec |-> s, tie |-> t]
<1> DEFINE o == [key |-> k, lines |-> b, broken |-> broken, late |-> Overtaken(k)]
<1>2. uploads' = uploads \cup {o} /\ raw' = raw \cup {o} /\ o.key = k
      /\ k \in Key /\ k.machine = m
  BY <1>1 DEF Key
<1>3. UNCHANGED <<cursor, cut, ppc, todo, key, machine>>
  BY DEF Upload, daemon
<1>4. \A u \in uploads : u.key \in Key /\ u.key # k
  BY <1>1 DEF KeysOf, CursorInv, KeyInv, ProcTypeOK, Object
<1>5. ASSUME NEW u \in uploads, u.key.machine = m, Before(k, u.key)
      PROVE  o.late
  BY <1>5 DEF Overtaken, KeysOf
<1> HIDE DEF o, k
<1>6. \A l : Passed(l)' <=> Passed(l)
  BY <1>3 DEF Passed
<1>7. ASSUME Passed(k) PROVE o.late
  <2>1. PICK u \in uploads : u.key = cursor[m] /\ u.key.machine = m
    BY <1>2, <1>7 DEF CursorInv, Passed
  <2>2. ~Before(u.key, k) /\ u.key # k
    BY <1>2, <1>4, <1>7, <2>1 DEF Passed
  <2> QED BY <1>2, <1>4, <1>5, <2>1, <2>2, KeysAreOrdered
<1>8. PassedOverIsExplained'
  BY <1>2, <1>3, <1>6, <1>7 DEF CursorInv, PassedOverIsExplained
<1>9. ASSUME NEW l \in Front, k.machine = machine, Before(k, l)
      PROVE  o.late
  <2>1. PICK u \in uploads : u.key = l /\ l.machine = machine
    BY DEF CursorInv
  <2> QED BY <1>2, <1>5, <1>9, <2>1
<1>10. \A l \in Front, p \in raw' :
         p.key.machine = machine /\ Before(p.key, l) /\ ~Passed(p.key)
           => p.late \/ p.key \in Front
  BY <1>2, <1>9 DEF CursorInv
<1>11. Front' = Front
  BY <1>3 DEF Front
<1>12. ppc \in {"corrupt", "advance"} => k # key
  <2>1. ppc \in {"corrupt", "advance"} => key \in Front
    BY DEF CursorInv, KeyInv, ProcTypeOK, Working, Front
  <2> QED BY <1>4, <2>1 DEF CursorInv
<1> QED BY <1>2, <1>3, <1>6, <1>8, <1>10, <1>11, <1>12 DEF CursorInv

\* The visit of a machine begins with everything in front of its cursor.
LEMMA CursorList ==
  ASSUME CursorInv, KeyInv', ListMachine
  PROVE  CursorInv'
<1>1. UNCHANGED <<uploads, raw, cursor, cut, key>> /\ ppc' = "next"
      /\ todo' = {k \in {o.key : o \in raw} : k.machine = machine' /\ ~Passed(k)}
  BY DEF ListMachine, stores
<1>2. key = None
  BY DEF ListMachine, CursorInv, KeyInv, Listed
<1>3. \A k : Passed(k)' <=> Passed(k)
  BY <1>1 DEF Passed
<1>4. Front' = todo'
  BY <1>1, <1>2 DEF Front
<1>5. raw \subseteq uploads
  BY DEF CursorInv, KeyInv, ProcTypeOK
<1>6. PassedOverIsExplained'
  BY <1>1, <1>3 DEF CursorInv, PassedOverIsExplained
<1> QED BY <1>1, <1>2, <1>3, <1>4, <1>5, <1>6 DEF CursorInv

\* The daemon takes the first key of its list.
LEMMA CursorNext ==
  ASSUME CursorInv, KeyInv', NextObject
  PROVE  CursorInv'
<1>1. PICK k \in todo : /\ \A j \in todo : ~Before(j, k)
                        /\ key' = k /\ todo' = todo \ {k}
  BY DEF NextObject
<1>2. UNCHANGED <<uploads, raw, cursor, cut, machine>> /\ ppc' = "download" /\ key = None
  BY DEF NextObject, stores, CursorInv, KeyInv, Listed
<1>3. \A l : Passed(l)' <=> Passed(l)
  BY <1>2 DEF Passed
<1>4. k \in Key /\ todo \subseteq Key /\ k # None
  BY DEF CursorInv, KeyInv, ProcTypeOK
<1>5. Front' = Front
  BY <1>1, <1>2, <1>4 DEF Front
<1>6. \A j \in todo' : Before(k, j)
  <2>1. \A j \in todo : j.machine = machine
    BY DEF CursorInv, Front
  <2> QED BY <1>1, <1>4, <2>1, KeysAreOrdered
<1>7. PassedOverIsExplained'
  BY <1>2, <1>3 DEF CursorInv, PassedOverIsExplained
<1> QED BY <1>1, <1>2, <1>3, <1>5, <1>6, <1>7 DEF CursorInv

\* The cursor moves on to the key at hand: it goes forth, and what it passes is
\* this object or one that came late.
LEMMA CursorMoves ==
  ASSUME CursorInv, KeyInv', SkipCorrupt \/ AdvanceCursor
  PROVE  /\ CursorInv'
         /\ \A m \in Machines : cursor'[m] # cursor[m] =>
              cursor[m] = None \/ Before(cursor[m], cursor'[m])
<1>1. /\ cursor' = [cursor EXCEPT ![machine] = key]
      /\ key' = None /\ ppc' = "next" /\ UNCHANGED <<uploads, raw, cut, machine, todo>>
      /\ ppc \in {"corrupt", "advance"}
  BY DEF SkipCorrupt, AdvanceCursor
<1>2. /\ key \in Key /\ key.machine = machine /\ machine \in Machines /\ key # None
      /\ key \in Front /\ ~Passed(key)
  <2>1. key \in Key /\ key.machine = machine
    BY <1>1 DEF CursorInv, KeyInv, ProcTypeOK, Working
  <2>2. machine \in Machines /\ key # None
    BY <2>1 DEF Key
  <2> QED BY <2>1, <2>2 DEF CursorInv, Front
<1>3. /\ cursor \in [Machines -> Key \cup {None}] /\ cursor'[machine] = key
      /\ \A m \in Machines \ {machine} : cursor'[m] = cursor[m]
  BY <1>1, <1>2 DEF CursorInv, KeyInv, ProcTypeOK
<1>4. cursor[machine] = None \/ Before(cursor[machine], key)
  BY <1>2 DEF Passed
<1>5. /\ \A l \in Key : l.machine = machine => (Passed(l)' <=> ~Before(key, l))
      /\ \A l : l.machine \in Machines \ {machine} => (Passed(l)' <=> Passed(l))
  BY <1>2, <1>3 DEF Passed
<1>6. \A l \in Key : Passed(l) => Passed(l)'
  <2> SUFFICES ASSUME NEW l \in Key, Passed(l), l.machine = machine PROVE ~Before(key, l)
    BY <1>5 DEF Key
  <2>1. cursor[machine] \in Key /\ ~Before(cursor[machine], l) /\ Before(cursor[machine], key)
    BY <1>2, <1>3, <1>4 DEF Passed
  <2> QED BY <1>2, <2>1, KeysAreOrdered
<1>7. Front' = todo /\ todo \subseteq Front /\ todo \subseteq Key /\ \A l \in todo : Before(key, l)
  BY <1>1, <1>2 DEF Front, CursorInv, KeyInv, ProcTypeOK
<1>8. \A o \in raw : o.key \in Key
  BY DEF CursorInv, KeyInv, ProcTypeOK, Object
<1>9. PassedOverIsExplained'
  <2> SUFFICES ASSUME NEW o \in raw, Passed(o.key)', ~Passed(o.key)
               PROVE  o.broken \/ o.key \in cut \/ o.late
    BY <1>1 DEF CursorInv, PassedOverIsExplained
  <2>1. o.key \in Key /\ o.key.machine = machine /\ ~Before(key, o.key)
    BY <1>5, <1>8 DEF Key
  <2>2. CASE o.key = key
    BY <1>1, <2>2 DEF CursorInv
  <2>3. CASE o.key # key
    <3>1. Before(o.key, key)
      BY <1>2, <2>1, <2>3, KeysAreOrdered
    <3>2. o.late \/ o.key \in Front
      BY <1>2, <2>1, <3>1 DEF CursorInv
    <3>3. o.key \notin todo
      BY <1>7, <2>1
    <3> QED BY <2>3, <3>2, <3>3 DEF Front
  <2> QED BY <2>2, <2>3
<1>10. \A l \in Front' : ~Passed(l)' /\ l.machine = machine' /\ \E u \in uploads' : u.key = l
  BY <1>1, <1>5, <1>7 DEF CursorInv
<1>11. ASSUME NEW l \in Front', NEW o \in raw, o.key.machine = machine,
              Before(o.key, l), ~Passed(o.key)'
       PROVE  o.late \/ o.key \in Front'
  <2>1. ~Passed(o.key) /\ o.key # key
    <3>1. o.key = key => Passed(o.key)'
      BY <1>2, <1>5, <1>8, KeysAreOrdered
    <3>2. ~Passed(o.key)
      BY <1>6, <1>8, <1>11
    <3> QED BY <1>11, <3>1, <3>2
  <2>2. o.late \/ o.key \in Front
    BY <1>7, <1>11, <2>1 DEF CursorInv
  <2> QED BY <1>7, <2>1, <2>2 DEF Front
<1>12. \A m \in Machines : cursor'[m] # None =>
         cursor'[m].machine = m /\ \E u \in uploads' : u.key = cursor'[m]
  BY <1>1, <1>2, <1>3 DEF CursorInv
<1>13. CursorInv'
  BY <1>1, <1>9, <1>10, <1>11, <1>12 DEF CursorInv
<1> QED BY <1>3, <1>4, <1>13

LEMMA CursorStep ==
  ASSUME CursorInv, ProcNext
  PROVE  /\ CursorInv'
         /\ \A m \in Machines : cursor'[m] # cursor[m] =>
              cursor[m] = None \/ Before(cursor[m], cursor'[m])
<1>1. KeyInv'
  BY KeyUpload, KeyStep, KeyFault DEF ProcNext, CursorInv
<1>2. ASSUME NEW m \in Machines, Upload(m)
      PROVE  CursorInv' /\ cursor' = cursor
  BY <1>1, <1>2, CursorUpload DEF Upload
<1>3. CASE ListMachine \/ NextObject
  BY <1>1, <1>3, CursorList, CursorNext DEF ListMachine, NextObject, stores
<1>4. CASE SkipCorrupt \/ AdvanceCursor
  BY <1>1, <1>4, CursorMoves
<1>5. CASE Discover \/ EndTick \/ LineTooLong \/ ProcKill
  <2>1. todo' = {} /\ key' = None
    BY <1>5 DEF Discover, EndTick, LineTooLong, Halted, ProcKill, CursorInv, KeyInv, Listed
  <2>2. /\ uploads' = uploads /\ cursor' = cursor /\ raw' = raw /\ cut' = cut
        /\ ppc' \in {"machine", "tick"}
    BY <1>5 DEF Discover, EndTick, LineTooLong, Halted, ProcKill, stores
  <2> QED BY <1>1, <2>1, <2>2, CursorEnds
<1>6. CASE EndMachine \/ SkipLine \/ EndOfFile \/ Denoise \/ DenoisePoison
           \/ Insert \/ CopyToArchive
  <2>1. /\ uploads' = uploads /\ cursor' = cursor /\ raw' = raw /\ cut' = cut
        /\ todo' = todo /\ key' = key /\ machine' = machine
        /\ ppc' # "corrupt" /\ ppc' # "advance"
    BY <1>6 DEF EndMachine, SkipLine, EndOfFile, Denoise, DenoisePoison,
                Insert, CopyToArchive, stores
  <2> QED BY <1>1, <2>1, CursorStays
<1>7. CASE Download
  <2>1. /\ uploads' = uploads /\ cursor' = cursor /\ raw' = raw /\ cut' = cut
        /\ todo' = todo /\ key' = key /\ machine' = machine
        /\ ppc' # "advance" /\ (ppc' = "corrupt" => ObjectAt(key).broken)
    BY <1>7 DEF Download, stores
  <2>2. \A o \in raw : o.key = key => o = ObjectAt(key)
    BY <1>7, Current DEF Download, CursorInv, Working
  <2> QED BY <1>1, <2>1, <2>2, CursorStays
<1>8. CASE RemoveRaw
  <2>1. /\ uploads' = uploads /\ cursor' = cursor /\ cut' = cut
        /\ todo' = todo /\ key' = key /\ machine' = machine /\ ppc' = "advance"
        /\ raw' = raw \ {ObjectAt(key)}
    BY <1>8 DEF RemoveRaw, Removed
  <2>2. \A o \in raw : o.key = key => o = ObjectAt(key)
    BY <1>8, Current DEF RemoveRaw, CursorInv, Working
  <2> QED BY <1>1, <2>1, <2>2, CursorStays
<1>9. CASE DownloadCut
  <2>1. /\ uploads' = uploads /\ cursor' = cursor /\ raw' = raw /\ cut' = cut \cup {key}
        /\ todo' = todo /\ key' = key /\ machine' = machine /\ ppc' = "corrupt"
    BY <1>9 DEF DownloadCut
  <2> QED BY <1>1, <2>1, CursorStays
<1>10. CASE Fault
  <2>1. uploads' = uploads /\ cursor' = cursor /\ cut' = cut /\ raw' \subseteq raw
    BY <1>10 DEF Fault, Removed
  <2>2. todo' = {} /\ key' = None /\ ppc' = "machine"
    BY <1>10 DEF Fault, Halted, CursorInv, KeyInv, Listed
  <2> QED BY <1>1, <2>1, <2>2, CursorEnds
<1> QED BY <1>2, <1>3, <1>4, <1>5, <1>6, <1>7, <1>8, <1>9, <1>10 DEF ProcNext, ProcStep

LEMMA CursorStutters == CursorInv /\ UNCHANGED procVars => CursorInv'
<1> SUFFICES ASSUME CursorInv, UNCHANGED procVars PROVE CursorInv'
  OBVIOUS
<1>1. /\ uploads' = uploads /\ cursor' = cursor /\ raw' = raw /\ cut' = cut
      /\ todo' = todo /\ key' = key /\ machine' = machine /\ ppc' = ppc
  BY DEF procVars, stores, daemon
<1>2. KeyInv'
  BY DEF CursorInv, KeyInv, ProcTypeOK, UniqueKeys, Listed, procVars, stores, daemon
<1> QED BY <1>1, <1>2, CursorStays DEF CursorInv

LEMMA CursorInvariant == ProcSpec => []CursorInv
<1>1. CursorInv /\ [ProcNext]_procVars => CursorInv'
  BY CursorStep, CursorStutters
<1> QED BY <1>1, CursorInit, PTL DEF ProcSpec

\* No cursor ever goes back, with any machines, faults and kills
\* (process.go:440-443, db.go:208-218).
THEOREM CursorsAdvance == ProcSpec => CursorAdvances
<1>1. CursorInv /\ [ProcNext]_procVars =>
        [\A m \in Machines : cursor'[m] # cursor[m] =>
           cursor[m] = None \/ Before(cursor[m], cursor'[m])]_procVars
  BY CursorStep
<1> QED BY <1>1, CursorInvariant, PTL DEF ProcSpec, CursorAdvances

\* What a cursor leaves behind in raw/ is truncated, was cut by the network, or
\* came with a key that sorts before an earlier one (process.go:370-397).
THEOREM NothingLeftUnexplained == ProcSpec => []PassedOverIsExplained
  BY CursorInvariant, PTL DEF CursorInv

----------------------------------------------------------------------------
(* The rows *)

\* While an object is read, what is left of it is its end; it is intact.
Reading == ppc \in {"line", "denoise", "insert", "copy", "remove"}
Read(o) == Len(o.lines) - Len(lines)

PlaceInv ==
  Reading => LET o == ObjectAt(key)
             IN /\ ~o.broken /\ Len(lines) <= Len(o.lines)
                /\ \A n \in DOMAIN lines : lines[n] = o.lines[Read(o) + n]

\* There are finitely many lines and rows; a proper id makes one row.
TableInv ==
  /\ \A e \in Events : IsFiniteSet(Appearances(e))
  /\ IsFiniteSet(table) /\ table \subseteq [event : Events, id : Nat]
  /\ rows = {r.event : r \in table}
  /\ \A r \in table : r.event \notin BadIds => r.id = 0

\* A line that gets no row any more unless it is read again.
DoneWith(a) ==
  \/ a[1] \notin raw \/ Passed(a[1].key)
  \/ Reading /\ a[1].key = key /\ a[2] <= Read(a[1])
Done(e) == {a \in Appearances(e) : DoneWith(a)}

\* Each line done with had its row, and each failure or kill may have cost a
\* row for every line there is.
Bounded(e) ==
  Cardinality(Rows(e)) <= Cardinality(Done(e)) + Cardinality(Appearances(e)) * (faults + kills)
HeldUp(e) == \E a \in Appearances(e) : Stuck(a[1])

CallInv == CursorInv /\ PlaceInv /\ TableInv /\ \A e \in BadIds : Bounded(e) \/ HeldUp(e)

LEMMA AppearanceIs ==
  ASSUME NEW e, NEW a
  PROVE  a \in Appearances(e) <=>
           \E o \in uploads : \E n \in DOMAIN o.lines : o.lines[n] = e /\ a = <<o, n>>
  BY DEF Appearances

\* Seen from module Processor the model's client is a detail.
LEMMA CallIsProc == [CallNext]_callVars => [ProcNext]_procVars
<1>1. CASE CallNext
  BY <1>1 DEF CallNext, CallStep, OtherStep, Retry, Answers, AnswerUnusable, InsertRow, CallFails,
              InsertFails, OtherFault, CallKill, ProcNext, ProcStep
<1>2. CASE UNCHANGED callVars
  BY <1>2 DEF callVars
<1> QED BY <1>1, <1>2

LEMMA CallIsProcSpec == CallSpec => ProcSpec
<1>1. CallInit => ProcInit
  BY DEF CallInit
<1> QED BY <1>1, CallIsProc, PTL DEF CallSpec, ProcSpec

----------------------------------------------------------------------------
\* An object stays readable where the daemon has got to.
LEMMA PlaceStays ==
  ASSUME KeyInv, KeyInv', PlaceInv, Reading, raw \subseteq raw', UNCHANGED key,
         lines' = lines \/ (lines # <<>> /\ lines' = Tail(lines))
  PROVE  PlaceInv'
<1>1. ObjectAt(key)' = ObjectAt(key) /\ ObjectAt(key) \in Object
  BY SameObject, Current DEF Reading, Working
<1> DEFINE o == ObjectAt(key)
<1>2. o.lines \in Seq(Events) /\ Len(o.lines) \in Nat /\ lines \in Seq(Events) /\ Len(lines) \in Nat
  BY <1>1, LenProperties DEF Object, KeyInv, ProcTypeOK
<1>3. ~o.broken /\ Len(lines) <= Len(o.lines)
      /\ \A n \in DOMAIN lines : lines[n] = o.lines[Len(o.lines) - Len(lines) + n]
  BY DEF PlaceInv, Read
<1>4. ObjectAt(key)' = o
  BY <1>1
<1> HIDE DEF o
<1>5. Len(lines') <= Len(o.lines)
      /\ \A n \in DOMAIN lines' : lines'[n] = o.lines[Len(o.lines) - Len(lines') + n]
  <2>1. CASE lines' = lines
    BY <2>1, <1>3
  <2>2. CASE lines # <<>> /\ lines' = Tail(lines)
    <3>1. /\ Len(lines') = Len(lines) - 1 /\ DOMAIN lines' = 1 .. Len(lines')
          /\ \A i \in 1 .. Len(lines') : lines'[i] = lines[i + 1]
      BY <2>2, <1>2, HeadTailProperties
    <3>2. ASSUME NEW i \in 1 .. Len(lines')
          PROVE  lines'[i] = o.lines[Len(o.lines) - Len(lines') + i]
      <4>1. i + 1 \in DOMAIN lines
        BY <3>1, <1>2
      <4>2. lines'[i] = o.lines[Len(o.lines) - Len(lines) + (i + 1)]
        BY <4>1, <3>1, <1>3
      <4>3. Len(o.lines) - Len(lines) + (i + 1) = Len(o.lines) - Len(lines') + i
        <5>1. Len(o.lines) \in Int /\ Len(lines) \in Int /\ Len(lines') \in Int /\ i \in Int
          BY <3>1, <1>2
        <5>2. Len(lines') = Len(lines) - 1
          BY <3>1
        <5>3. PICK a \in Int : a = Len(o.lines)
          BY <5>1
        <5>4. PICK b \in Int : b = Len(lines)
          BY <5>1
        <5>5. a - b + (i + 1) = a - (b - 1) + i
          OBVIOUS
        <5> QED BY <5>2, <5>3, <5>4, <5>5
      <4> QED BY <4>2, <4>3
    <3> QED BY <3>1, <3>2, <1>2, <1>3
  <2> QED BY <2>1, <2>2
<1> QED BY <1>3, <1>4, <1>5 DEF PlaceInv, Read

LEMMA PlaceStep == KeyInv /\ KeyInv' /\ PlaceInv /\ ProcNext => PlaceInv'
<1> SUFFICES ASSUME KeyInv, KeyInv', PlaceInv, ProcNext PROVE PlaceInv'
  OBVIOUS
<1>1. CASE ~Reading'
  BY <1>1 DEF PlaceInv
<1>2. CASE Download /\ Reading'
  <2>1. /\ ~ObjectAt(key).broken /\ lines' = ObjectAt(key).lines
        /\ UNCHANGED <<raw, key>> /\ ObjectAt(key) \in Object
    BY <1>2, Current DEF Download, Reading, stores, Working
  <2>2. ObjectAt(key)' = ObjectAt(key)
    BY <2>1 DEF ObjectAt
  <2>3. lines' \in Seq(Events) /\ Len(lines') \in Nat /\ DOMAIN lines' = 1 .. Len(lines')
    BY <2>1, LenProperties DEF Object
  <2>4. \A n \in DOMAIN lines' : Len(lines') - Len(lines') + n = n
    BY <2>3
  <2> QED BY <2>1, <2>2, <2>3, <2>4 DEF PlaceInv, Read
<1>3. CASE \E m \in Machines : Upload(m)
  <2>1. raw \subseteq raw' /\ UNCHANGED <<ppc, key, lines>>
    BY <1>3 DEF Upload, daemon
  <2> QED BY <2>1, PlaceStays DEF PlaceInv, Reading
<1>4. CASE EndOfFile \/ Denoise \/ CopyToArchive
  <2>1. Reading /\ raw' = raw /\ UNCHANGED <<key, lines>>
    BY <1>4 DEF EndOfFile, Denoise, CopyToArchive, Reading, stores
  <2> QED BY <2>1, PlaceStays
<1>5. CASE SkipLine \/ DenoisePoison \/ Insert
  <2>1. /\ Reading /\ raw' = raw /\ UNCHANGED key
        /\ lines' = lines \/ (lines # <<>> /\ lines' = Tail(lines))
    BY <1>5 DEF SkipLine, DenoisePoison, Insert, Reading, stores, KeyInv, Listed
  <2> QED BY <2>1, PlaceStays
<1>6. CASE \/ Discover \/ EndTick \/ ListMachine \/ EndMachine \/ NextObject \/ SkipCorrupt
           \/ LineTooLong \/ RemoveRaw \/ AdvanceCursor \/ DownloadCut \/ Fault \/ ProcKill
  <2>1. ~Reading'
    BY <1>6 DEF Discover, EndTick, ListMachine, EndMachine, NextObject, SkipCorrupt, LineTooLong,
                RemoveRaw, AdvanceCursor, DownloadCut, Fault, ProcKill, Halted, Reading
  <2> QED BY <1>1, <2>1
<1> QED BY <1>1, <1>2, <1>3, <1>4, <1>5, <1>6 DEF ProcNext, ProcStep, Download, Reading

----------------------------------------------------------------------------
\* The lines of an event: an upload adds some, finitely many.
LEMMA UploadAppears ==
  ASSUME KeyInv, NEW m \in Machines, Upload(m), NEW e \in Events, IsFiniteSet(Appearances(e))
  PROVE  IsFiniteSet(Appearances(e)') /\ Appearances(e) \subseteq Appearances(e)'
<1>1. PICK s \in Secs, t \in Ties, b \in Batches, broken \in BOOLEAN :
        uploads' = uploads \cup
          {[key |-> [machine |-> m, sec |-> s, tie |-> t], lines |-> b, broken |-> broken,
            late |-> Overtaken([machine |-> m, sec |-> s, tie |-> t])]}
  BY DEF Upload
<1> DEFINE o == [key |-> [machine |-> m, sec |-> s, tie |-> t], lines |-> b, broken |-> broken,
                 late |-> Overtaken([machine |-> m, sec |-> s, tie |-> t])]
<1>2. uploads' = uploads \cup {o} /\ o.lines \in Seq(Events)
  BY <1>1
<1> HIDE DEF o
<1>3. Len(o.lines) \in Nat /\ DOMAIN o.lines = 1 .. Len(o.lines)
  BY <1>2, LenProperties
<1>4. \A a : a \in Appearances(e)' <=>
        \E p \in uploads' : \E n \in DOMAIN p.lines : p.lines[n] = e /\ a = <<p, n>>
  BY DEF Appearances
<1>5. Appearances(e) \subseteq Appearances(e)'
  BY <1>2, <1>4, AppearanceIs
<1>6. Appearances(e)' \subseteq Appearances(e) \cup ({o} \X (1 .. Len(o.lines)))
  BY <1>2, <1>3, <1>4, AppearanceIs
<1>7. IsFiniteSet({o}) /\ IsFiniteSet(1 .. Len(o.lines))
  <2>1. IsFiniteSet({o})
    BY FS_Singleton
  <2>2. 1 \in Int /\ Len(o.lines) \in Int
    BY <1>3
  <2> QED BY <2>1, <2>2, FS_Interval
<1>8. IsFiniteSet({o} \X (1 .. Len(o.lines)))
  BY <1>7, FS_Product
<1>9. IsFiniteSet(Appearances(e) \cup ({o} \X (1 .. Len(o.lines))))
  BY <1>8, FS_Union
<1> QED BY <1>5, <1>6, <1>9, FS_Subset

\* The rows change by an insert, one at a time.
RowAdded == table' \in {table, table \cup {RowOf(Head(lines))}}

LEMMA TableStep ==
  ASSUME KeyInv, TableInv, [CallNext]_callVars
  PROVE  /\ TableInv'
         /\ table' = table \/ (ppc = "insert" /\ RowAdded)
         /\ \A e \in Events : Appearances(e) \subseteq Appearances(e)'
<1>1. (\E m \in Machines : Upload(m)) \/ uploads' = uploads
  BY DEF CallNext, CallStep, OtherStep, Retry, Answers, AnswerUnusable, InsertRow, CallFails,
         InsertFails, OtherFault, CallKill, Discover, EndTick, ListMachine, EndMachine,
         NextObject, Download, SkipCorrupt, SkipLine, LineTooLong, EndOfFile, Denoise,
         DenoisePoison, Insert, CopyToArchive, RemoveRaw, AdvanceCursor, DownloadCut, Fault,
         ProcKill, stores, callVars, procVars
<1>2. \A e \in Events : IsFiniteSet(Appearances(e)') /\ Appearances(e) \subseteq Appearances(e)'
  <2>1. CASE uploads' = uploads
    BY <2>1 DEF TableInv, Appearances
  <2>2. ASSUME NEW m \in Machines, Upload(m), NEW e \in Events
        PROVE  IsFiniteSet(Appearances(e)') /\ Appearances(e) \subseteq Appearances(e)'
    BY <2>2, UploadAppears DEF TableInv
  <2> QED BY <1>1, <2>1, <2>2
<1>3. \/ table' = table /\ rows' = rows
      \/ ppc = "insert" /\ RowAdded /\ rows' = {r.event : r \in table'}
      \/ ppc = "insert" /\ table' = table \cup {RowOf(Head(lines))} /\ rows' = rows \cup {Head(lines)}
  BY DEF CallNext, CallStep, OtherStep, Retry, Answers, AnswerUnusable, InsertRow, CallFails,
         InsertFails, OtherFault, CallKill, Discover, EndTick, ListMachine, EndMachine,
         NextObject, Download, SkipCorrupt, SkipLine, LineTooLong, EndOfFile, Denoise,
         DenoisePoison, Insert, Inserted, CopyToArchive, RemoveRaw, AdvanceCursor, DownloadCut, Fault,
         ProcKill, Upload, stores, callVars, procVars, RowAdded
<1>4. ASSUME table' = table, rows' = rows PROVE TableInv'
  <2>1. \A e \in Events : IsFiniteSet(Appearances(e))'
    BY <1>2
  <2>2. rows' = {r.event : r \in table'}
    BY <1>4 DEF TableInv
  <2> QED BY <1>4, <2>1, <2>2 DEF TableInv
<1>5. ASSUME ppc = "insert", RowAdded,
             \/ rows' = rows \cup {Head(lines)} /\ table' = table \cup {RowOf(Head(lines))}
             \/ rows' = {r.event : r \in table'}
      PROVE  TableInv'
  <2>1. Head(lines) \in Events
    BY <1>5, ReadOne DEF KeyInv, ProcTypeOK, Listed
  <2>2. /\ IsFiniteSet(Rows(Head(lines))) /\ Cardinality(Rows(Head(lines))) \in Nat
    <3>1. Rows(Head(lines)) \in SUBSET table
      BY DEF Rows
    <3> QED BY <3>1, FS_Subset, FS_CardinalityType DEF TableInv
  <2>3. /\ RowOf(Head(lines)) \in [event : Events, id : Nat]
        /\ RowOf(Head(lines)).event = Head(lines)
        /\ Head(lines) \notin BadIds => RowOf(Head(lines)).id = 0
    BY <2>1, <2>2 DEF RowOf
  <2>4. IsFiniteSet(table')
    BY <1>5, FS_AddElement DEF TableInv, RowAdded
  <2>5. rows' = {r.event : r \in table'}
    BY <1>5, <2>3 DEF TableInv
  <2>6. \A e \in Events : IsFiniteSet(Appearances(e))'
    BY <1>2
  <2> QED BY <1>5, <2>3, <2>4, <2>5, <2>6 DEF TableInv, RowAdded
<1>6. TableInv' /\ (table' = table \/ (ppc = "insert" /\ RowAdded))
  BY <1>3, <1>4, <1>5 DEF RowAdded
<1> QED BY <1>2, <1>6

----------------------------------------------------------------------------
\* What is passed stays passed.
LEMMA PassedStays ==
  ASSUME CursorInv, [ProcNext]_procVars, NEW k \in Key, Passed(k)
  PROVE  Passed(k)'
<1>1. CASE cursor' = cursor
  BY <1>1 DEF Passed
<1>2. CASE ProcNext /\ cursor' # cursor
  <2>1. k.machine \in Machines
    BY DEF Key
  <2>2. /\ ppc \in {"corrupt", "advance"} /\ cursor' = [cursor EXCEPT ![machine] = key]
    BY <1>2 DEF ProcNext, ProcStep, Upload, Discover, EndTick, ListMachine, EndMachine, NextObject,
                Download, SkipCorrupt, SkipLine, LineTooLong, EndOfFile, Denoise, DenoisePoison,
                Insert, CopyToArchive, RemoveRaw, AdvanceCursor, DownloadCut, Fault, ProcKill,
                stores
  <2>3. /\ key \in Key /\ cursor \in [Machines -> Key \cup {None}]
        /\ cursor[k.machine] \in Key /\ ~Before(cursor[k.machine], k)
    BY <2>1, <2>2 DEF CursorInv, KeyInv, ProcTypeOK, Working, Passed
  <2>4. cursor'[k.machine] \in Key
    BY <2>1, <2>2, <2>3
  <2>5. cursor'[k.machine] = cursor[k.machine] \/ Before(cursor[k.machine], cursor'[k.machine])
    BY <1>2, <2>1, <2>3, CursorStep
  <2>6. ~Before(cursor'[k.machine], k)
    BY <2>3, <2>4, <2>5, KeysAreOrdered
  <2> QED BY <2>4, <2>6 DEF Passed
<1>3. CASE UNCHANGED procVars
  BY <1>1, <1>3 DEF procVars, stores
<1> QED BY <1>1, <1>2, <1>3

\* The line at hand, in the object.
LEMMA NextLine ==
  ASSUME KeyInv, PlaceInv, Reading, lines # <<>>
  PROVE  /\ ObjectAt(key) \in raw /\ ObjectAt(key) \in uploads /\ ~ObjectAt(key).broken
         /\ Read(ObjectAt(key)) + 1 \in DOMAIN ObjectAt(key).lines
         /\ ObjectAt(key).lines[Read(ObjectAt(key)) + 1] = Head(lines)
         /\ Read(ObjectAt(key)) \in Nat
<1>1. ObjectAt(key) \in raw /\ ObjectAt(key) \in Object /\ raw \subseteq uploads
  BY Current DEF Reading, Working, KeyInv, ProcTypeOK
<1> DEFINE o == ObjectAt(key)
<1>2. /\ ~o.broken /\ Len(lines) <= Len(o.lines)
      /\ \A n \in DOMAIN lines : lines[n] = o.lines[Read(o) + n]
  BY DEF PlaceInv
<1>3. o.lines \in Seq(Events)
  BY <1>1 DEF Object
<1>4. ObjectAt(key) = o
  OBVIOUS
<1> HIDE DEF o
<1>5. PICK a \in Nat : a = Len(o.lines) /\ DOMAIN o.lines = 1 .. a
  BY <1>3, LenProperties
<1>6. PICK b \in Nat : b = Len(lines) /\ DOMAIN lines = 1 .. b /\ b # 0
  BY LenProperties, EmptySeq DEF KeyInv, ProcTypeOK
<1>7. b <= a /\ Read(o) = a - b
  BY <1>2, <1>5, <1>6 DEF Read
<1>8. 1 \in DOMAIN lines /\ Head(lines) = lines[1]
  BY <1>6 DEF KeyInv, ProcTypeOK
<1>9. a - b + 1 \in 1 .. a /\ a - b \in Nat
  BY <1>6, <1>7
<1> QED BY <1>1, <1>2, <1>4, <1>5, <1>7, <1>8, <1>9

\* The lines done with stay so while the daemon goes on with an object, or
\* when it has moved it.
LEMMA DoneKeeps ==
  ASSUME CursorInv, PlaceInv, [ProcNext]_procVars, NEW e \in Events,
         Appearances(e) \subseteq Appearances(e)',
         \A o \in uploads : o \notin raw => o \notin raw',
         \/ ~Reading
         \/ Reading' /\ key' = key /\ (lines' = lines \/ (lines # <<>> /\ lines' = Tail(lines)))
         \/ ObjectAt(key) \notin raw'
         \/ \A a \in Appearances(e) : a[1] # ObjectAt(key)
  PROVE  Done(e) \subseteq Done(e)'
<1> SUFFICES ASSUME NEW a \in Appearances(e), DoneWith(a) PROVE DoneWith(a)'
  BY DEF Done
<1>1. /\ a[1] \in uploads /\ a[1] \in Object /\ a[2] \in DOMAIN a[1].lines
  BY AppearanceIs DEF CursorInv, KeyInv, ProcTypeOK
<1>2. CASE a[1] \notin raw
  BY <1>1, <1>2 DEF DoneWith
<1>3. CASE Passed(a[1].key)
  <2>1. a[1].key \in Key
    BY <1>1 DEF Object
  <2>2. Passed(a[1].key)'
    BY <1>3, <2>1, PassedStays
  <2> QED BY <2>2 DEF DoneWith
<1>4. CASE a[1] \in raw /\ Reading /\ a[1].key = key /\ a[2] <= Read(a[1])
  <2>1. a[1] = ObjectAt(key)
    BY <1>4, Current DEF CursorInv, Reading, Working
  <2>2. CASE ObjectAt(key) \notin raw'
    BY <2>1, <2>2 DEF DoneWith
  <2>3. CASE Reading' /\ key' = key /\ (lines' = lines \/ (lines # <<>> /\ lines' = Tail(lines)))
    <3>1. PICK n \in Nat : n = Len(a[1].lines) /\ DOMAIN a[1].lines = 1 .. n
      BY <1>1, LenProperties DEF Object
    <3>2. PICK b \in Nat : b = Len(lines)
      BY LenProperties DEF CursorInv, KeyInv, ProcTypeOK
    <3>3. PICK c \in Nat : c = Len(lines') /\ c <= b
      <4>1. CASE lines' = lines
        BY <3>2, <4>1
      <4>2. CASE lines # <<>> /\ lines' = Tail(lines)
        <5>1. Len(lines') = b - 1 /\ lines' \in Seq(Events)
          BY <3>2, <4>2, HeadTailProperties DEF CursorInv, KeyInv, ProcTypeOK
        <5>2. Len(lines') \in Nat
          BY <5>1, LenProperties
        <5> QED BY <5>1, <5>2
      <4> QED BY <2>3, <4>1, <4>2
    <3>4. Read(a[1]) = n - b /\ Read(a[1])' = n - c
      BY <3>1, <3>2, <3>3 DEF Read
    <3>5. a[2] <= n - c
      BY <1>1, <1>4, <3>1, <3>3, <3>4
    <3> QED BY <1>4, <2>3, <3>4, <3>5 DEF DoneWith
  <2> QED BY <1>4, <2>1, <2>2, <2>3
<1> QED BY <1>2, <1>3, <1>4 DEF DoneWith

\* The line that is about to get its row is not done with.
LEMMA LineToInsert ==
  ASSUME CursorInv, PlaceInv, ppc = "insert"
  PROVE  LET p == <<ObjectAt(key), Read(ObjectAt(key)) + 1>>
         IN p \in Appearances(Head(lines)) \ Done(Head(lines))
<1> DEFINE p == <<ObjectAt(key), Read(ObjectAt(key)) + 1>>
<1>1. KeyInv /\ Reading /\ lines # <<>>
  BY DEF CursorInv, KeyInv, Listed, Reading
<1>2. p \in Appearances(Head(lines))
  BY <1>1, NextLine, AppearanceIs
<1>3. /\ p[1] \in raw /\ p[1].key = key /\ key \in Key /\ key # None
      /\ Read(p[1]) \in Nat /\ p[2] = Read(p[1]) + 1
  BY <1>1, NextLine, Current DEF Reading, Working
<1>4. ~Passed(p[1].key)
  BY <1>3 DEF CursorInv, Front
<1>5. ~DoneWith(p)
  BY <1>3, <1>4 DEF DoneWith
<1> QED BY <1>2, <1>5 DEF Done

----------------------------------------------------------------------------
(* Counting *)

LEMMA CountsAreNat ==
  ASSUME TableInv, NEW e \in Events
  PROVE  /\ IsFiniteSet(Rows(e)) /\ IsFiniteSet(Done(e)) /\ IsFiniteSet(Appearances(e))
         /\ Cardinality(Rows(e)) \in Nat /\ Cardinality(Done(e)) \in Nat
         /\ Cardinality(Appearances(e)) \in Nat
         /\ Cardinality(Done(e)) <= Cardinality(Appearances(e))
<1>1. IsFiniteSet(Appearances(e)) /\ Done(e) \in SUBSET Appearances(e)
  BY DEF TableInv, Done
<1>2. IsFiniteSet(Done(e)) /\ Cardinality(Done(e)) <= Cardinality(Appearances(e))
  BY <1>1, FS_Subset
<1>3. Rows(e) \in SUBSET table /\ IsFiniteSet(table)
  BY DEF Rows, TableInv
<1>4. IsFiniteSet(Rows(e))
  BY <1>3, FS_Subset
<1> QED BY <1>1, <1>2, <1>4, FS_CardinalityType

Counts == \A e \in Events :
  /\ IsFiniteSet(Rows(e)) /\ IsFiniteSet(Done(e)) /\ IsFiniteSet(Appearances(e))
  /\ Cardinality(Rows(e)) \in Nat /\ Cardinality(Done(e)) \in Nat
  /\ Cardinality(Appearances(e)) \in Nat

LEMMA CountsHold == TableInv => Counts
  BY CountsAreNat DEF Counts

\* A set with a further element has a higher count.
LEMMA FurtherElement ==
  ASSUME NEW S, NEW T, IsFiniteSet(T), S \subseteq T, NEW x \in T, x \notin S
  PROVE  Cardinality(S) + 1 <= Cardinality(T)
<1>1. S \in SUBSET T /\ S \cup {x} \in SUBSET T
  OBVIOUS
<1>2. IsFiniteSet(S)
  BY <1>1, FS_Subset
<1>3. Cardinality(S \cup {x}) = Cardinality(S) + 1
  BY <1>2, FS_AddElement
<1>4. Cardinality(S \cup {x}) <= Cardinality(T)
  BY <1>1, FS_Subset
<1> QED BY <1>3, <1>4

LEMMA RowsByOne ==
  ASSUME KeyInv, TableInv, NEW e \in Events, table' = table \/ RowAdded
  PROVE  /\ table' = table \/ Head(lines) # e => Rows(e)' = Rows(e)
         /\ Cardinality(Rows(e)') <= Cardinality(Rows(e)) + 1
<1>1. Rows(e)' = {r \in table' : r.event = e} /\ RowOf(Head(lines)).event = Head(lines)
  BY DEF Rows, RowOf
<1>2. table' = table \/ Head(lines) # e => Rows(e)' = Rows(e)
  BY <1>1 DEF Rows, RowAdded
<1>3. Rows(e)' \in SUBSET (Rows(e) \cup {RowOf(Head(lines))})
  BY <1>1 DEF Rows, RowAdded
<1>4. /\ IsFiniteSet(Rows(e) \cup {RowOf(Head(lines))}) /\ Cardinality(Rows(e)) \in Nat
      /\ Cardinality(Rows(e) \cup {RowOf(Head(lines))}) =
           IF RowOf(Head(lines)) \in Rows(e) THEN Cardinality(Rows(e)) ELSE Cardinality(Rows(e)) + 1
  BY CountsAreNat, FS_AddElement
<1>5. Cardinality(Rows(e) \cup {RowOf(Head(lines))}) <= Cardinality(Rows(e)) + 1
  BY <1>4
<1>6. /\ IsFiniteSet(Rows(e)')
      /\ Cardinality(Rows(e)') <= Cardinality(Rows(e) \cup {RowOf(Head(lines))})
  BY <1>3, <1>4, FS_Subset
<1>7. Cardinality(Rows(e)') \in Nat /\ Cardinality(Rows(e) \cup {RowOf(Head(lines))}) \in Nat
  BY <1>4, <1>6, FS_CardinalityType
<1> QED BY <1>2, <1>4, <1>5, <1>6, <1>7

\* The arithmetic of the bound.
LEMMA BoundGrows ==
  ASSUME NEW a \in Nat, NEW b \in Nat, NEW f \in Nat, a <= b
  PROVE  a * f <= b * f /\ a * (f + 1) = a * f + a /\ a * f \in Nat /\ b * f \in Nat
  OBVIOUS

LEMMA CountKept ==
  ASSUME TableInv, TableInv', NEW e \in Events, Bounded(e), faults \in Nat, kills \in Nat,
         UNCHANGED <<faults, kills>>, Appearances(e) \subseteq Appearances(e)',
         Done(e) \subseteq Done(e)',
         \/ Rows(e)' = Rows(e)
         \/ /\ Cardinality(Rows(e)') <= Cardinality(Rows(e)) + 1
            /\ \E p \in Done(e)' : p \notin Done(e)
  PROVE  Bounded(e)'
<1> DEFINE f == faults + kills
<1>1. /\ Cardinality(Rows(e)) \in Nat /\ Cardinality(Done(e)) \in Nat
      /\ Cardinality(Appearances(e)) \in Nat
  BY CountsAreNat
<1>2. /\ IsFiniteSet(Done(e)') /\ IsFiniteSet(Appearances(e)')
      /\ Cardinality(Rows(e)') \in Nat /\ Cardinality(Done(e)') \in Nat
      /\ Cardinality(Appearances(e)') \in Nat
  <2>1. Counts'
    BY CountsHold, PTL
  <2> QED BY <2>1 DEF Counts
<1>3. Cardinality(Done(e)) <= Cardinality(Done(e)')
      /\ Cardinality(Appearances(e)) <= Cardinality(Appearances(e)')
  BY <1>2, FS_Subset
<1>4. f \in Nat /\ faults' + kills' = f
  OBVIOUS
<1>5. Cardinality(Rows(e)) <= Cardinality(Done(e)) + Cardinality(Appearances(e)) * f
  BY DEF Bounded
<1> HIDE DEF f
<1>6. /\ Cardinality(Appearances(e)) * f <= Cardinality(Appearances(e)') * f
      /\ Cardinality(Appearances(e)) * f \in Nat /\ Cardinality(Appearances(e)') * f \in Nat
  BY <1>1, <1>2, <1>3, <1>4, BoundGrows
<1>7. Cardinality(Rows(e)') <= Cardinality(Done(e)') + Cardinality(Appearances(e)') * f
  <2>1. CASE Rows(e)' = Rows(e)
    BY <1>1, <1>2, <1>3, <1>5, <1>6, <2>1
  <2>2. ASSUME Cardinality(Rows(e)') <= Cardinality(Rows(e)) + 1,
               NEW p \in Done(e)', p \notin Done(e)
        PROVE  Cardinality(Rows(e)') <= Cardinality(Done(e)') + Cardinality(Appearances(e)') * f
    <3>1. Cardinality(Done(e)) + 1 <= Cardinality(Done(e)')
      BY <1>2, <2>2, FurtherElement
    <3> QED BY <1>1, <1>2, <1>5, <1>6, <2>2, <3>1
  <2> QED BY <2>1, <2>2
<1> QED BY <1>4, <1>7 DEF Bounded, f

LEMMA CountFault ==
  ASSUME TableInv, TableInv', NEW e \in Events, Bounded(e), faults \in Nat, kills \in Nat,
         faults' \in Nat, kills' \in Nat, faults' + kills' = faults + kills + 1,
         uploads' = uploads,
         \/ Rows(e)' = Rows(e)
         \/ /\ Cardinality(Rows(e)') <= Cardinality(Rows(e)) + 1
            /\ \E p \in Appearances(e) : p \notin Done(e)
  PROVE  Bounded(e)'
<1> DEFINE f == faults + kills
<1>1. /\ Cardinality(Rows(e)) \in Nat /\ Cardinality(Done(e)) \in Nat
      /\ IsFiniteSet(Appearances(e)) /\ Cardinality(Appearances(e)) \in Nat
      /\ Cardinality(Done(e)) <= Cardinality(Appearances(e))
  BY CountsAreNat
<1>2. Cardinality(Rows(e)') \in Nat /\ Cardinality(Done(e)') \in Nat
  <2>1. Counts'
    BY CountsHold, PTL
  <2> QED BY <2>1 DEF Counts
<1>3. Appearances(e)' = Appearances(e) /\ Done(e) \subseteq Appearances(e)
  BY DEF Appearances, Done
<1>4. f \in Nat /\ faults' + kills' = f + 1
  <2>1. faults + kills \in Nat
    OBVIOUS
  <2>2. faults' + kills' = (faults + kills) + 1
    OBVIOUS
  <2> QED BY <2>1, <2>2
<1>5. Cardinality(Rows(e)) <= Cardinality(Done(e)) + Cardinality(Appearances(e)) * f
  BY DEF Bounded
<1> HIDE DEF f
<1>6. /\ Cardinality(Appearances(e)) * (f + 1) =
           Cardinality(Appearances(e)) * f + Cardinality(Appearances(e))
      /\ Cardinality(Appearances(e)) * f \in Nat
  <2>1. f \in Nat /\ Cardinality(Appearances(e)) \in Nat
        /\ Cardinality(Appearances(e)) <= Cardinality(Appearances(e))
    BY <1>1, <1>4
  <2> QED BY <2>1, BoundGrows
<1>7. Cardinality(Rows(e)') <= Cardinality(Appearances(e)) * (f + 1)
  <2>1. CASE Rows(e)' = Rows(e)
    BY <1>1, <1>2, <1>5, <1>6, <2>1
  <2>2. ASSUME Cardinality(Rows(e)') <= Cardinality(Rows(e)) + 1,
               NEW p \in Appearances(e), p \notin Done(e)
        PROVE  Cardinality(Rows(e)') <= Cardinality(Appearances(e)) * (f + 1)
    <3>1. Cardinality(Done(e)) + 1 <= Cardinality(Appearances(e))
      BY <1>1, <1>3, <2>2, FurtherElement
    <3> QED BY <1>1, <1>2, <1>5, <1>6, <2>2, <3>1
  <2> QED BY <2>1, <2>2
<1>8. Cardinality(Rows(e)') <=
        Cardinality(Done(e)') + Cardinality(Appearances(e)') * (faults' + kills')
  <2>1. Cardinality(Appearances(e)') * (faults' + kills') = Cardinality(Appearances(e)) * (f + 1)
    BY <1>3, <1>4
  <2>2. Cardinality(Appearances(e)) * (f + 1) \in Nat
    BY <1>1, <1>6
  <2> QED BY <1>2, <1>7, <2>1, <2>2
<1> QED BY <1>8 DEF Bounded, f

----------------------------------------------------------------------------
\* A failed call or a kill pays for every line there is.
LEMMA BoundFault ==
  ASSUME CallInv, TableInv', NEW e \in Events, Bounded(e), faults' \in Nat, kills' \in Nat,
         CallFails \/ InsertFails \/ OtherFault \/ CallKill
           \/ (DownloadCut /\ UNCHANGED <<attempt, table>>)
  PROVE  Bounded(e)'
<1>1. faults \in Nat /\ kills \in Nat
  BY DEF CallInv, CursorInv, KeyInv, ProcTypeOK
<1>2. uploads' = uploads
  BY DEF CallFails, InsertFails, OtherFault, CallKill, DownloadCut, Fault, ProcKill, stores
<1>3. \/ faults' = faults + 1 /\ kills' = kills
      \/ faults' = faults /\ kills' = kills + 1
  BY DEF CallFails, InsertFails, OtherFault, CallKill, DownloadCut, Fault, ProcKill
<1>4. faults' + kills' = faults + kills + 1
  <2>1. CASE faults' = faults + 1 /\ kills' = kills
    BY <1>1, <2>1
  <2>2. CASE faults' = faults /\ kills' = kills + 1
    BY <1>1, <2>2
  <2> QED BY <1>3, <2>1, <2>2
<1>5. table' = table \/ (ppc = "insert" /\ RowAdded)
  BY DEF CallFails, InsertFails, OtherFault, CallKill, RowAdded
<1>6. /\ table' = table \/ Head(lines) # e => Rows(e)' = Rows(e)
      /\ Cardinality(Rows(e)') <= Cardinality(Rows(e)) + 1
  BY <1>5, RowsByOne DEF CallInv, CursorInv
<1>7. table' # table /\ Head(lines) = e => \E p \in Appearances(e) : p \notin Done(e)
  BY <1>5, LineToInsert DEF CallInv
<1> QED BY <1>1, <1>2, <1>4, <1>6, <1>7, CountFault DEF CallInv

\* The line that gets its row is done with.
LEMMA BoundInsert ==
  ASSUME CallInv, TableInv', CallNext, InsertRow, NEW e \in Events, Bounded(e)
  PROVE  Bounded(e)'
<1>1. /\ faults \in Nat /\ kills \in Nat /\ CursorInv /\ PlaceInv /\ TableInv /\ KeyInv
      /\ lines \in Seq(Events) /\ lines # <<>>
  BY DEF CallInv, CursorInv, KeyInv, ProcTypeOK, Listed, InsertRow, Insert
<1>2. /\ ppc = "insert" /\ ppc' = "line" /\ lines' = Tail(lines) /\ key' = key /\ RowAdded
      /\ UNCHANGED <<uploads, raw, cursor, faults, kills>>
  BY DEF InsertRow, Insert, Calm, RowAdded
<1>3. Appearances(e)' = Appearances(e)
  BY <1>2 DEF Appearances
<1>4. Reading /\ Reading'
  BY <1>2 DEF Reading
<1>5. [ProcNext]_procVars
  BY CallIsProc
<1>6. Done(e) \subseteq Done(e)'
  BY <1>1, <1>2, <1>3, <1>4, <1>5, DoneKeeps
<1>7. /\ Head(lines) # e => Rows(e)' = Rows(e)
      /\ Cardinality(Rows(e)') <= Cardinality(Rows(e)) + 1
  BY <1>1, <1>2, RowsByOne
<1>8. ASSUME Head(lines) = e PROVE \E p \in Done(e)' : p \notin Done(e)
  <2> DEFINE o == ObjectAt(key)
  <2> DEFINE p == <<o, Read(o) + 1>>
  <2>1. p \in Appearances(e) /\ p \notin Done(e)
    BY <1>1, <1>2, <1>8, LineToInsert
  <2>2. o.key = key /\ o \in Object /\ o.lines \in Seq(Events)
    <3>1. o.key = key /\ o \in Object
      BY <1>1, <1>2, Current DEF Working
    <3> QED BY <3>1 DEF Object
  <2> HIDE DEF o
  <2>3. PICK n \in Nat : n = Len(o.lines)
    BY <2>2, LenProperties
  <2>4. PICK b \in Nat : b = Len(lines)
    BY <1>1, LenProperties
  <2>5. Len(lines') = b - 1
    BY <1>1, <1>2, <2>4, HeadTailProperties
  <2>6. Read(o) = n - b /\ Len(o.lines) - Len(lines') = n - (b - 1)
    BY <2>3, <2>4, <2>5 DEF Read
  <2>7. Read(o) + 1 <= Len(o.lines) - Len(lines')
    BY <2>6
  <2>8. PICK q : q = p
    OBVIOUS
  <2>9. q[1] = o /\ q[2] = Read(o) + 1
    BY <2>8
  <2>10. DoneWith(q)'
    BY <1>2, <1>4, <2>2, <2>7, <2>9 DEF DoneWith, Read
  <2> QED BY <1>3, <2>1, <2>8, <2>10 DEF Done
<1> QED BY <1>1, <1>2, <1>3, <1>6, <1>7, <1>8, CountKept

LEMMA UploadIsNew ==
  ASSUME KeyInv, NEW m \in Machines, Upload(m)
  PROVE  \E o : o \notin uploads /\ raw' = raw \cup {o}
<1>1. PICK s \in Secs, t \in Ties, b \in Batches, broken \in BOOLEAN :
        LET k == [machine |-> m, sec |-> s, tie |-> t]
            o == [key |-> k, lines |-> b, broken |-> broken, late |-> Overtaken(k)]
        IN k \notin KeysOf(m) /\ uploads' = uploads \cup {o} /\ raw' = raw \cup {o}
  BY DEF Upload
<1> DEFINE k == [machine |-> m, sec |-> s, tie |-> t]
<1> DEFINE o == [key |-> k, lines |-> b, broken |-> broken, late |-> Overtaken(k)]
<1>2. raw' = raw \cup {o} /\ o.key = k /\ k \notin KeysOf(m) /\ k.machine = m
  BY <1>1
<1>3. o \notin uploads
  BY <1>2 DEF KeysOf
<1> QED BY <1>2, <1>3

\* Any other step leaves the rows alone and what is done with done, or gives
\* an object up that it will never read to its end.
LEMMA BoundStays ==
  ASSUME CallInv, TableInv', CallNext, NEW e \in Events, Bounded(e),
         Appearances(e) \subseteq Appearances(e)',
         \/ OtherStep \/ Retry \/ Answers \/ AnswerUnusable
         \/ (\E m \in Machines : Upload(m)) /\ UNCHANGED <<attempt, table>>
  PROVE  Bounded(e)' \/ HeldUp(e)
<1>1. /\ faults \in Nat /\ kills \in Nat /\ CursorInv /\ PlaceInv /\ TableInv /\ KeyInv
      /\ lines \in Seq(Events)
  BY DEF CallInv, CursorInv, KeyInv, ProcTypeOK
<1>2. table' = table /\ UNCHANGED <<faults, kills>>
  BY DEF OtherStep, Retry, Answers, AnswerUnusable, Denoise, DenoisePoison, Discover, EndTick,
         ListMachine, EndMachine, NextObject, Download, SkipCorrupt, SkipLine, LineTooLong,
         EndOfFile, CopyToArchive, RemoveRaw, AdvanceCursor, Upload, Calm, procVars
<1>3. Rows(e)' = Rows(e)
  BY <1>2 DEF Rows
<1>4. [ProcNext]_procVars
  BY CallIsProc
<1>5. ASSUME Done(e) \subseteq Done(e)' PROVE Bounded(e)'
  BY <1>1, <1>2, <1>3, <1>5, CountKept
<1>6. CASE \E m \in Machines : Upload(m)
  <2>1. PICK m \in Machines : Upload(m)
    BY <1>6
  <2>2. PICK o : o \notin uploads /\ raw' = raw \cup {o}
    BY <1>1, <2>1, UploadIsNew
  <2>5. UNCHANGED <<ppc, key, lines>>
    BY <2>1 DEF Upload, daemon
  <2>6. \A u \in uploads : u \notin raw => u \notin raw'
    BY <2>2
  <2>7. ~Reading \/ (Reading' /\ key' = key /\ lines' = lines)
    BY <2>5 DEF Reading
  <2>8. Done(e) \subseteq Done(e)'
    BY <1>1, <1>4, <2>6, <2>7, DoneKeeps
  <2> QED BY <1>5, <2>8
<1>7. CASE Retry \/ EndOfFile \/ CopyToArchive \/ Denoise
  <2>1. Reading' /\ UNCHANGED <<raw, key, lines>>
    BY <1>7 DEF Retry, EndOfFile, CopyToArchive, Denoise, Reading, stores, procVars, daemon
  <2>2. Done(e) \subseteq Done(e)'
    BY <1>1, <1>4, <2>1, DoneKeeps
  <2> QED BY <1>5, <2>2
<1>8. CASE SkipLine \/ DenoisePoison
  <2>1. /\ Reading' /\ UNCHANGED <<raw, key>>
        /\ lines' = lines \/ (lines # <<>> /\ lines' = Tail(lines))
    BY <1>1, <1>8 DEF SkipLine, DenoisePoison, Reading, stores, KeyInv, Listed
  <2>2. Done(e) \subseteq Done(e)'
    BY <1>1, <1>4, <2>1, DoneKeeps
  <2> QED BY <1>5, <2>2
<1>9. CASE RemoveRaw
  <2>1. raw' = raw \ {ObjectAt(key)}
    BY <1>9 DEF RemoveRaw, Removed
  <2>2. Done(e) \subseteq Done(e)'
    BY <1>1, <1>4, <2>1, DoneKeeps
  <2> QED BY <1>5, <2>2
<1>10. CASE LineTooLong
  <2>1. /\ ppc = "line" /\ lines # <<>> /\ Kind[Head(lines)] = "toolong" /\ raw' = raw
    BY <1>10 DEF LineTooLong, stores
  <2>2. CASE \E a \in Appearances(e) : a[1] = ObjectAt(key)
    <3>1. Stuck(ObjectAt(key))
      BY <1>1, <2>1, NextLine DEF Stuck, Reading
    <3> QED BY <2>2, <3>1 DEF HeldUp
  <2>3. CASE \A a \in Appearances(e) : a[1] # ObjectAt(key)
    <3>1. Done(e) \subseteq Done(e)'
      BY <1>1, <1>4, <2>1, <2>3, DoneKeeps
    <3> QED BY <1>5, <3>1
  <2> QED BY <2>2, <2>3
<1>11. CASE \/ Discover \/ EndTick \/ ListMachine \/ EndMachine \/ NextObject \/ Download
            \/ SkipCorrupt \/ AdvanceCursor
  <2>1. ~Reading /\ raw' = raw
    BY <1>11 DEF Discover, EndTick, ListMachine, EndMachine, NextObject, Download, SkipCorrupt,
                 AdvanceCursor, Reading, stores
  <2>2. Done(e) \subseteq Done(e)'
    BY <1>1, <1>4, <2>1, DoneKeeps
  <2> QED BY <1>5, <2>2
<1> QED BY <1>6, <1>7, <1>8, <1>9, <1>10, <1>11 DEF OtherStep, Answers, AnswerUnusable

LEMMA CallInvStep == CallInv /\ [CallNext]_callVars => CallInv'
<1> SUFFICES ASSUME CallInv, [CallNext]_callVars PROVE CallInv'
  OBVIOUS
<1>1. [ProcNext]_procVars /\ CursorInv /\ KeyInv /\ PlaceInv /\ TableInv
  BY CallIsProc DEF CallInv, CursorInv
<1>2. CursorInv'
  BY <1>1, CursorStep, CursorStutters
<1>3. TableInv' /\ \A e \in Events : Appearances(e) \subseteq Appearances(e)'
  BY <1>1, TableStep
<1>4. PlaceInv' /\ faults' \in Nat /\ kills' \in Nat
  <2>1. KeyInv'
    BY <1>2 DEF CursorInv
  <2>2. CASE ProcNext
    BY <1>1, <2>1, <2>2, PlaceStep DEF KeyInv, ProcTypeOK
  <2>3. CASE UNCHANGED procVars
    <3>1. UNCHANGED <<ppc, key, lines, raw>>
      BY <2>3 DEF procVars, stores, daemon
    <3>2. PlaceInv'
      BY <1>1, <3>1 DEF PlaceInv, Reading, Read, ObjectAt
    <3> QED BY <2>1, <3>2 DEF KeyInv, ProcTypeOK
  <2> QED BY <1>1, <2>2, <2>3 DEF KeyInv, ProcTypeOK
<1>5. ASSUME NEW e \in BadIds PROVE Bounded(e)' \/ HeldUp(e)'
  <2>1. e \in Events
    BY CallAssumption
  <2>2. HeldUp(e) => HeldUp(e)'
    BY <1>3, <2>1 DEF HeldUp, Stuck
  <2>3. CASE Bounded(e) /\ CallNext
    <3>1. CASE \/ CallFails \/ InsertFails \/ OtherFault \/ CallKill
               \/ (DownloadCut /\ UNCHANGED <<attempt, table>>)
      BY <1>3, <1>4, <2>1, <2>3, <3>1, BoundFault
    <3>2. CASE InsertRow
      BY <1>3, <2>1, <2>3, <3>2, BoundInsert
    <3>3. CASE \/ OtherStep \/ Retry \/ Answers \/ AnswerUnusable
               \/ (\E m \in Machines : Upload(m)) /\ UNCHANGED <<attempt, table>>
      <4>1. Bounded(e)' \/ HeldUp(e)
        BY <1>3, <2>1, <2>3, <3>3, BoundStays
      <4> QED BY <2>2, <4>1
    <3> QED BY <2>3, <3>1, <3>2, <3>3 DEF CallNext, CallStep
  <2>4. CASE Bounded(e) /\ UNCHANGED callVars
    <3>1. UNCHANGED <<ppc, key, lines, raw, uploads, cursor, faults, kills, table>>
      BY <2>4 DEF callVars, procVars, stores, daemon
    <3>2. Rows(e)' = Rows(e) /\ Appearances(e)' = Appearances(e) /\ Done(e)' = Done(e)
      BY <3>1 DEF Rows, Appearances, Done, DoneWith, Passed, Read, Reading
    <3> QED BY <2>4, <3>1, <3>2 DEF Bounded
  <2> QED BY <2>2, <2>3, <2>4 DEF CallInv
<1> QED BY <1>2, <1>3, <1>4, <1>5 DEF CallInv

LEMMA CallInvInit == CallInit => CallInv
<1> SUFFICES ASSUME CallInit PROVE CallInv
  OBVIOUS
<1>1. CursorInv
  BY CursorInit DEF CallInit
<1>2. /\ uploads = {} /\ table = {} /\ rows = {} /\ ppc = "tick" /\ faults = 0 /\ kills = 0
  BY DEF CallInit, ProcInit
<1>3. \A e : Appearances(e) = {} /\ Rows(e) = {} /\ Done(e) = {}
  BY <1>2 DEF Appearances, Rows, Done
<1>4. PlaceInv
  BY <1>2 DEF PlaceInv, Reading
<1>5. TableInv
  BY <1>2, <1>3, FS_EmptySet DEF TableInv
<1>6. ASSUME NEW e PROVE Bounded(e)
  <2>1. Cardinality(Rows(e)) = 0 /\ Cardinality(Done(e)) = 0 /\ Cardinality(Appearances(e)) = 0
    BY <1>3, FS_EmptySet
  <2>2. 0 <= 0 + 0 * (0 + 0)
    OBVIOUS
  <2> QED BY <1>2, <2>1, <2>2 DEF Bounded
<1> QED BY <1>1, <1>4, <1>5, <1>6 DEF CallInv

\* One row for an event with a proper id; the counted rows of the others.
LEMMA StoredByCount == CallInv => StoredOnce
<1> SUFFICES ASSUME CallInv PROVE StoredOnce
  OBVIOUS
<1>1. TableInv /\ rows = {r.event : r \in table} /\ faults \in Nat /\ kills \in Nat
  BY DEF CallInv, TableInv, CursorInv, KeyInv, ProcTypeOK
<1>2. ASSUME NEW e \in Events, e \notin BadIds PROVE Cardinality(Rows(e)) <= 1
  <2>1. Rows(e) \in SUBSET {[event |-> e, id |-> 0]}
    BY <1>1, <1>2 DEF TableInv, Rows
  <2>2. /\ IsFiniteSet({[event |-> e, id |-> 0]})
        /\ Cardinality({[event |-> e, id |-> 0]}) = 1
    BY FS_Singleton
  <2> QED BY <2>1, <2>2, FS_Subset
<1>3. ASSUME NEW e \in Events, e \in BadIds, ~HeldUp(e)
      PROVE  Cardinality(Rows(e)) <= Cardinality(Appearances(e)) * (1 + faults + kills)
  <2> DEFINE f == faults + kills
  <2>1. /\ Cardinality(Rows(e)) \in Nat /\ Cardinality(Done(e)) \in Nat
        /\ Cardinality(Appearances(e)) \in Nat
        /\ Cardinality(Done(e)) <= Cardinality(Appearances(e))
    BY <1>1, CountsAreNat
  <2>2. Cardinality(Rows(e)) <= Cardinality(Done(e)) + Cardinality(Appearances(e)) * f
    BY <1>3 DEF CallInv, Bounded
  <2>3. f \in Nat /\ 1 + faults + kills = f + 1
    BY <1>1
  <2> HIDE DEF f
  <2>4. /\ Cardinality(Appearances(e)) * (f + 1) =
             Cardinality(Appearances(e)) * f + Cardinality(Appearances(e))
        /\ Cardinality(Appearances(e)) * f \in Nat
    <3>1. Cardinality(Appearances(e)) <= Cardinality(Appearances(e))
      BY <2>1
    <3> QED BY <2>1, <2>3, <3>1, BoundGrows
  <2>5. Cardinality(Rows(e)) <= Cardinality(Appearances(e)) * (f + 1)
    BY <2>1, <2>2, <2>4
  <2> QED BY <2>3, <2>5
<1> QED BY <1>1, <1>2, <1>3 DEF StoredOnce, HeldUp

\* Whatever is retried, fails or is killed, an event with a proper id keeps its
\* one row, and the rows of any other are paid for by the lines it came in, one
\* each, and as many again for every failure and kill (event_builder.go:80-88,
\* process.go:502-504, 609-614).
THEOREM RowsAreCounted == CallSpec => []StoredOnce
  BY CallInvInit, CallInvStep, StoredByCount, PTL DEF CallSpec

\* With the inside of its calls the daemon still does what module Processor
\* promises: it delivers, its cursors only move on, and what they leave behind
\* is explained (process.go:333-460).
THEOREM CallsDeliver ==
  CallSpec => /\ ImplementsDelivery /\ CursorAdvances
              /\ [](NothingVanishes /\ ArchivedIsComplete /\ PassedOverIsExplained)
  BY CallIsProcSpec, DaemonDelivers, CursorsAdvance, NothingEverVanishes, ArchiveImpliesStored,
     NothingLeftUnexplained, PTL

=============================================================================
