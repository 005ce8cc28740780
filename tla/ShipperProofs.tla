--------------------------- MODULE ShipperProofs ---------------------------
(***************************************************************************)
(* Proofs about module Shipper: what the appenders are promised survives   *)
(* the shipper, and kills of the shipper alone lose no file.  A duplicate  *)
(* is paid for by a failure or a kill, and a line that comes late by the   *)
(* one writer of its process that held the file open.                      *)
(***************************************************************************)
EXTENDS Shipper, CaptureFileProofs, FiniteSetTheorems

USE BoundsAssumption, NoneAssumption, RotateAssumption, ShipBoundsAssumption

\* To the appenders a step of the shipper is a rotation or nothing.
LEMMA ShipStepSimulates == [ShipNext]_allVars => [Next]_vars
<1> SUFFICES ASSUME [ShipNext]_allVars PROVE [Next]_vars
  OBVIOUS
<1>1. CASE Appending
  BY <1>1 DEF Next
<1>2. CASE ShipStep
  <2>1. CASE Rename
    BY <2>1 DEF Rename, Next
  <2>2. CASE Recover \/ ReadShipping \/ Put \/ RemoveShipping \/ StatCapture
    BY <2>2 DEF Recover, ReadShipping, Put, RemoveShipping, StatCapture
  <2> QED BY <1>2, <2>1, <2>2 DEF ShipStep
<1>3. CASE ShipFault \/ ShipKill
  BY <1>3 DEF ShipFault, ShipKill
<1>4. CASE UNCHANGED allVars
  BY <1>4 DEF allVars
<1> QED BY <1>1, <1>2, <1>3, <1>4 DEF ShipNext

\* The shipper implements the rotating environment CaptureFile assumes: no
\* step of it touches a byte of a file or a lock (proxy.go:128-132).
THEOREM ShipperImplementsCaptureFile == ShipSpec => ImplementsCaptureFile
<1>1. ShipInit => Init
  BY DEF ShipInit
<1> QED BY <1>1, ShipStepSimulates, PTL DEF ShipSpec, Spec, ImplementsCaptureFile

\* So lines stay whole under the real shipper too (append.go:11-22).
THEOREM LinesNeverTornByShipper == ShipSpec => []LinesContiguous
  BY ShipperImplementsCaptureFile, LinesNeverTorn, PTL DEF ImplementsCaptureFile

----------------------------------------------------------------------------
\* The shipper starts well typed.
LEMMA ShipTypeInit == ShipInit => ShipTypeOK
<1> SUFFICES ASSUME ShipInit PROVE ShipTypeOK
  OBVIOUS
<1>1. bucket \in Seq([src : Inodes, data : Seq(Chunk)]) /\ data \in Seq(Chunk)
  BY DEF ShipInit
<1>2. shipping \in Inodes \cup {None} /\ rotated \in BOOLEAN
  BY DEF ShipInit
<1>3. spc \in ShipLabels /\ spc \notin {"read", "put", "remove"}
  BY DEF ShipInit, ShipLabels
<1>4. shipFaults \in 0 .. MaxShipFaults /\ shipKills \in 0 .. MaxShipKills
  BY DEF ShipInit
<1> QED BY <1>1, <1>2, <1>3, <1>4 DEF ShipTypeOK

\* An object is stored with the bytes that were read.
LEMMA StoredType ==
  ASSUME ShipTypeOK, shipping \in Inodes, Stored
  PROVE  bucket' \in Seq([src : Inodes, data : Seq(Chunk)])
<1>1. [src |-> shipping, data |-> data] \in [src : Inodes, data : Seq(Chunk)]
  BY DEF ShipTypeOK
<1> QED BY <1>1 DEF Stored, ShipTypeOK

\* Each step of runOnce, fault and kill keeps the types and the file that an
\* upload in progress works on.
LEMMA ShipTypeStep == TypeOK /\ ShipTypeOK /\ [ShipNext]_allVars => ShipTypeOK'
<1> SUFFICES ASSUME TypeOK, ShipTypeOK, [ShipNext]_allVars PROVE ShipTypeOK'
  OBVIOUS
<1> USE DEF ShipLabels
<1>1. CASE Appending /\ UNCHANGED shipVars
  BY <1>1 DEF shipVars, ShipTypeOK
<1>2. CASE Recover
  BY <1>2 DEF Recover, ShipTypeOK
<1>3. CASE ReadShipping
  <2>1. content[shipping] \in Seq(Chunk)
    BY <1>3 DEF ReadShipping, ShipTypeOK, TypeOK
  <2> QED BY <1>3, <2>1 DEF ReadShipping, ShipTypeOK
<1>4. CASE Put
  <2>1. bucket' \in Seq([src : Inodes, data : Seq(Chunk)])
    BY <1>4, StoredType DEF Put, ShipTypeOK
  <2> QED BY <1>4, <2>1 DEF Put, ShipTypeOK
<1>5. CASE RemoveShipping
  <2>1. <<>> \in Seq(Chunk)
    OBVIOUS
  <2> QED BY <1>5, <2>1 DEF RemoveShipping, AfterUpload, ShipTypeOK
<1>6. CASE StatCapture
  BY <1>6 DEF StatCapture, ShipTypeOK
<1>7. CASE Rename
  BY <1>7 DEF Rename, Rotate, ShipTypeOK, TypeOK
<1>8. CASE ShipFault
  <2>1. <<>> \in Seq(Chunk)
    OBVIOUS
  <2>2. bucket' \in Seq([src : Inodes, data : Seq(Chunk)])
    BY <1>8, StoredType DEF ShipFault, ShipTypeOK
  <2>3. spc' \in {"recover", "stat"} /\ shipFaults' \in 0 .. MaxShipFaults
    BY <1>8 DEF ShipFault, AfterUpload, ShipTypeOK
  <2> QED BY <1>8, <2>1, <2>2, <2>3 DEF ShipFault, ShipTypeOK
<1>9. CASE ShipKill
  <2>1. <<>> \in Seq(Chunk)
    OBVIOUS
  <2>2. bucket' \in Seq([src : Inodes, data : Seq(Chunk)])
    BY <1>9, StoredType DEF ShipKill, ShipTypeOK
  <2>3. shipKills' \in 0 .. MaxShipKills
    BY <1>9 DEF ShipKill, ShipTypeOK
  <2> QED BY <1>9, <2>1, <2>2, <2>3 DEF ShipKill, ShipTypeOK
<1>10. CASE UNCHANGED allVars
  BY <1>10 DEF allVars, shipVars, ShipTypeOK
<1> QED
  BY <1>1, <1>2, <1>3, <1>4, <1>5, <1>6, <1>7, <1>8, <1>9, <1>10
  DEF ShipNext, ShipStep

\* The shipper is well typed, and never reads, uploads or removes a file that
\* is not there (recover.go:20-22, ship.go:116-128).
THEOREM ShipTypeCorrect == ShipSpec => []ShipTypeOK
<1>1. ShipSpec => []TypeOK
  BY ShipperImplementsCaptureFile, TypeCorrect, PTL DEF ImplementsCaptureFile
<1> QED BY <1>1, ShipTypeInit, ShipTypeStep, PTL DEF ShipSpec

----------------------------------------------------------------------------
\* While no call of the shipper has failed: what is about to be removed was
\* uploaded, and the rotation is only reached when no file waits.
Orderly ==
  shipFaults = 0 =>
    /\ spc = "remove" => UploadedFrom(shipping) # {}
    /\ spc \in {"stat", "rename"} => shipping = None

\* KillsLoseNoFile is inductive together with where the shipper stands.
FileInv == TypeOK /\ ShipTypeOK /\ Orderly /\ KillsLoseNoFile

\* Objects are only added to the bucket.
LEMMA BucketGrows ==
  ASSUME ShipTypeOK, NEW i, UNCHANGED bucket \/ (shipping \in Inodes /\ Stored)
  PROVE  UploadedFrom(i) \subseteq UploadedFrom(i)'
<1> DEFINE o == [src |-> shipping, data |-> data]
<1>1. bucket \in Seq([src : Inodes, data : Seq(Chunk)])
  BY DEF ShipTypeOK
<1>2. ASSUME NEW n \in DOMAIN bucket
      PROVE  n \in DOMAIN bucket' /\ bucket'[n] = bucket[n]
  <2>1. CASE bucket' = bucket
    BY <2>1
  <2>2. CASE bucket' = Append(bucket, o)
    <3> HIDE DEF o
    <3> QED BY <1>1, <2>2
  <2> QED BY <2>1, <2>2 DEF Stored
<1>3. Objects \subseteq Objects'
  BY <1>2 DEF Objects
<1> QED BY <1>3 DEF UploadedFrom

\* What was stored is found again.
LEMMA StoredIsUploaded ==
  ASSUME ShipTypeOK, shipping \in Inodes, Stored
  PROVE  UploadedFrom(shipping)' # {} \/ shipping' # shipping
<1> DEFINE o == [src |-> shipping, data |-> data]
<1>1. bucket' = Append(bucket, o) /\ bucket \in Seq([src : Inodes, data : Seq(Chunk)])
  BY DEF Stored, ShipTypeOK
<1>2. /\ Len(bucket) + 1 \in DOMAIN bucket'
      /\ bucket'[Len(bucket) + 1] = o
  BY <1>1
<1>3. o \in Objects'
  BY <1>2 DEF Objects
<1>4. o.src = shipping
  OBVIOUS
<1> QED BY <1>3, <1>4 DEF UploadedFrom

\* A step that moves neither name and forgets no object loses no file.
LEMMA NamesKept ==
  ASSUME ShipTypeOK, KillsLoseNoFile, shipFaults' >= shipFaults,
         created' = created, capture' = capture, shipping' = shipping,
         UNCHANGED bucket \/ (shipping \in Inodes /\ Stored)
  PROVE  KillsLoseNoFile'
<1>1. \A i : UploadedFrom(i) \subseteq UploadedFrom(i)'
  BY BucketGrows
<1>2. shipFaults' = 0 => shipFaults = 0
  BY DEF ShipTypeOK
<1> QED BY <1>1, <1>2 DEF KillsLoseNoFile

\* It holds before the first file exists.
LEMMA FileInvInit == ShipInit => FileInv
<1> SUFFICES ASSUME ShipInit PROVE FileInv
  OBVIOUS
<1>1. TypeOK /\ ShipTypeOK
  BY TypeInit, ShipTypeInit DEF ShipInit
<1>2. Orderly /\ KillsLoseNoFile
  BY DEF ShipInit, Init, Orderly, KillsLoseNoFile
<1> QED BY <1>1, <1>2 DEF FileInv

\* Every step keeps it.
LEMMA FileInvStep == FileInv /\ [ShipNext]_allVars => FileInv'
<1> SUFFICES ASSUME FileInv, [ShipNext]_allVars PROVE FileInv'
  OBVIOUS
<1> USE DEF FileInv
<1>1. TypeOK' /\ ShipTypeOK'
  BY TypeStep, ShipTypeStep, ShipStepSimulates
<1>2. CASE Appending /\ UNCHANGED shipVars
  <2>1. Orderly'
    BY <1>2 DEF shipVars, Orderly, UploadedFrom, Objects
  <2>2. UNCHANGED <<capture, created>> \/ (created' = created + 1 /\ capture' = created')
    BY <1>2 DEF Appending, Step, Call, LockMutex, OpenCapture, TakeFlock, WriteHead,
                WriteTail, Return, OpenFails, WriteFails, Kill
  <2>3. capture = None \/ UNCHANGED capture
    BY <1>2 DEF Appending, Step, Call, LockMutex, OpenCapture, TakeFlock, WriteHead,
                WriteTail, Return, OpenFails, WriteFails, Kill
  <2>4. KillsLoseNoFile'
    <3>1. UNCHANGED <<shipping, bucket, shipFaults>>
      BY <1>2 DEF shipVars
    <3>2. \A i : UploadedFrom(i)' = UploadedFrom(i)
      BY <3>1 DEF UploadedFrom, Objects
    <3>3. created \in Nat /\ None \notin 1 .. created
      BY DEF TypeOK
    <3>4. ASSUME shipFaults' = 0, NEW i \in 1 .. created'
          PROVE  i \in {capture', shipping'} \/ UploadedFrom(i)' # {}
      <4>1. CASE i \in 1 .. created
        BY <2>2, <2>3, <3>1, <3>2, <3>3, <3>4, <4>1 DEF KillsLoseNoFile
      <4>2. CASE i \notin 1 .. created
        BY <2>2, <3>3, <3>4, <4>2
      <4> QED BY <4>1, <4>2
    <3> QED BY <3>4 DEF KillsLoseNoFile
  <2> QED BY <1>1, <2>1, <2>4
<1>3. CASE Recover
  <2>1. Orderly'
    BY <1>3 DEF Recover, Orderly
  <2>2. KillsLoseNoFile'
    BY <1>3, NamesKept DEF Recover, vars, ShipTypeOK
  <2> QED BY <1>1, <2>1, <2>2
<1>4. CASE ReadShipping
  <2>1. Orderly'
    BY <1>4 DEF ReadShipping, Orderly
  <2>2. KillsLoseNoFile'
    BY <1>4, NamesKept DEF ReadShipping, vars, ShipTypeOK
  <2> QED BY <1>1, <2>1, <2>2
<1>5. CASE Put
  <2>1. shipping \in Inodes /\ Stored /\ shipping' = shipping
    BY <1>5 DEF Put, ShipTypeOK
  <2>2. UploadedFrom(shipping)' # {}
    BY <2>1, StoredIsUploaded
  <2>3. Orderly'
    BY <1>5, <2>2 DEF Put, Orderly
  <2>4. KillsLoseNoFile'
    BY <1>5, <2>1, NamesKept DEF Put, vars, ShipTypeOK
  <2> QED BY <1>1, <2>3, <2>4
<1>6. CASE RemoveShipping
  <2>1. /\ shipping' = None
        /\ UNCHANGED <<created, capture, bucket, shipFaults>>
        /\ spc' \in {"recover", "stat"}
    BY <1>6 DEF RemoveShipping, AfterUpload, vars
  <2>2. Orderly'
    BY <2>1 DEF Orderly
  <2>3. shipFaults = 0 => UploadedFrom(shipping) # {}
    BY <1>6 DEF RemoveShipping, Orderly
  <2>4. \A i : UploadedFrom(i)' = UploadedFrom(i)
    BY <2>1 DEF UploadedFrom, Objects
  <2>5. KillsLoseNoFile'
    BY <2>1, <2>3, <2>4 DEF KillsLoseNoFile
  <2> QED BY <1>1, <2>2, <2>5
<1>7. CASE StatCapture
  <2>1. Orderly'
    BY <1>7 DEF StatCapture, Orderly
  <2>2. KillsLoseNoFile'
    BY <1>7, NamesKept DEF StatCapture, vars, ShipTypeOK
  <2> QED BY <1>1, <2>1, <2>2
<1>8. CASE Rename
  <2>1. /\ shipping' = capture /\ spc' = "read"
        /\ UNCHANGED <<created, bucket, shipFaults>>
    BY <1>8 DEF Rename, Rotate
  <2>2. Orderly'
    BY <2>1 DEF Orderly
  <2>3. shipFaults = 0 => shipping = None
    BY <1>8 DEF Rename, Orderly
  <2>4. \A i : UploadedFrom(i)' = UploadedFrom(i)
    BY <2>1 DEF UploadedFrom, Objects
  <2>5. None \notin 1 .. created
    BY DEF TypeOK
  <2>6. ASSUME shipFaults' = 0, NEW i \in 1 .. created'
        PROVE  i \in {capture', shipping'} \/ UploadedFrom(i)' # {}
    <3>1. i \in {capture, shipping} \/ UploadedFrom(i) # {}
      BY <2>1, <2>6 DEF KillsLoseNoFile
    <3>2. shipping = None /\ i # None
      BY <2>1, <2>3, <2>5, <2>6
    <3> QED BY <2>1, <2>4, <3>1, <3>2
  <2>7. KillsLoseNoFile'
    BY <2>6 DEF KillsLoseNoFile
  <2> QED BY <1>1, <2>2, <2>7
<1>9. CASE ShipFault
  <2>1. shipFaults' # 0
    BY <1>9 DEF ShipFault, ShipTypeOK
  <2> QED BY <1>1, <2>1 DEF Orderly, KillsLoseNoFile
<1>10. CASE ShipKill
  <2>1. Orderly'
    BY <1>10 DEF ShipKill, Orderly
  <2>2. UNCHANGED bucket \/ (shipping \in Inodes /\ Stored)
    BY <1>10 DEF ShipKill, ShipTypeOK
  <2>3. KillsLoseNoFile'
    BY <1>10, <2>2, NamesKept DEF ShipKill, vars, ShipTypeOK
  <2> QED BY <1>1, <2>1, <2>3
<1>11. CASE UNCHANGED allVars
  BY <1>1, <1>11 DEF allVars, vars, shipVars, Orderly, KillsLoseNoFile, UploadedFrom, Objects
<1> QED
  BY <1>2, <1>3, <1>4, <1>5, <1>6, <1>7, <1>8, <1>9, <1>10, <1>11
  DEF ShipNext, ShipStep

\* Kills of the shipper between any two of its steps lose no file, however many
\* there are: a failed call is what it takes (recover.go:11-18).
THEOREM KillsAloneLoseNoFile == ShipSpec => []KillsLoseNoFile
<1>1. ShipSpec => []FileInv
  BY FileInvInit, FileInvStep, PTL DEF ShipSpec
<1>2. FileInv => KillsLoseNoFile
  BY DEF FileInv
<1> QED BY <1>1, <1>2, PTL


----------------------------------------------------------------------------
(* The objects and the files they came from *)

Sources == {o.src : o \in Objects}

\* What storing an object does to the bucket.
LEMMA StoredObjects ==
  ASSUME ShipTypeOK, shipping \in Inodes, Stored
  PROVE  /\ Objects' = Objects \cup {[src |-> shipping, data |-> data]}
         /\ Sources' = Sources \cup {shipping}
         /\ Len(bucket) \in Nat /\ Len(bucket') = Len(bucket) + 1
<1> DEFINE o == [src |-> shipping, data |-> data]
<1>1. bucket' = Append(bucket, o) /\ bucket \in Seq([src : Inodes, data : Seq(Chunk)])
      /\ o \in [src : Inodes, data : Seq(Chunk)] /\ o.src = shipping
  BY DEF Stored, ShipTypeOK
<1> HIDE DEF o
<1>2. /\ Len(bucket') = Len(bucket) + 1 /\ Len(bucket) \in Nat
      /\ DOMAIN bucket = 1 .. Len(bucket) /\ DOMAIN bucket' = 1 .. (Len(bucket) + 1)
      /\ \A n \in 1 .. Len(bucket) : bucket'[n] = bucket[n]
      /\ bucket'[Len(bucket) + 1] = o
  BY <1>1, AppendProperties, LenProperties
<1>3. Objects' = Objects \cup {o}
  <2>1. \A n \in DOMAIN bucket' : bucket'[n] \in Objects \cup {o}
    BY <1>2 DEF Objects
  <2>2. \A n \in DOMAIN bucket : n \in DOMAIN bucket' /\ bucket'[n] = bucket[n]
    BY <1>2
  <2>3. o \in Objects'
    BY <1>2 DEF Objects
  <2> QED BY <2>1, <2>2, <2>3 DEF Objects
<1>4. Sources' = Sources \cup {shipping}
  BY <1>1, <1>3 DEF Sources
<1> QED BY <1>2, <1>3, <1>4 DEF o

LEMMA SourcesAreFinite ==
  ASSUME ShipTypeOK
  PROVE  Sources \subseteq Inodes /\ IsFiniteSet(Sources) /\ Cardinality(Sources) \in Nat
<1>1. Sources \subseteq Inodes
  <2>1. ASSUME NEW n \in DOMAIN bucket PROVE bucket[n].src \in Inodes
    <3>1. bucket[n] \in [src : Inodes, data : Seq(Chunk)]
      BY ElementOfSeq, LenProperties DEF ShipTypeOK
    <3> QED BY <3>1
  <2> QED BY <2>1 DEF Sources, Objects
<1>2. IsFiniteSet(Inodes)
  BY FS_Interval DEF Inodes
<1>3. IsFiniteSet(Sources)
  BY <1>1, <1>2, FS_Subset
<1> QED BY <1>1, <1>3, FS_CardinalityType

LEMMA SourcesOfUploads == \A i : UploadedFrom(i) # {} <=> i \in Sources
  BY DEF UploadedFrom, Sources

\* No file is stored before it was rotated, and no rotated file comes back to
\* the capture path.
Named ==
  /\ Sources \subseteq 1 .. created
  /\ shipping # None => shipping \in 1 .. created
  /\ capture # None => /\ capture \in 1 .. created
                       /\ capture \notin Sources \cup {shipping}

NameInv == TypeOK /\ ShipTypeOK /\ Named

\* The appenders' side of a step: they name new files only.
LEMMA AppendersName ==
  ASSUME TypeOK, Appending
  PROVE  \/ UNCHANGED <<capture, created>>
         \/ capture = None /\ created' = created + 1 /\ capture' = created'
  BY DEF Appending, Step, Call, LockMutex, OpenCapture, TakeFlock, WriteHead,
         WriteTail, Return, OpenFails, WriteFails, Kill

LEMMA NameInvStep == NameInv /\ [ShipNext]_allVars => NameInv'
<1> SUFFICES ASSUME NameInv, [ShipNext]_allVars PROVE NameInv'
  OBVIOUS
<1> USE DEF NameInv
<1>1. TypeOK' /\ ShipTypeOK'
  BY TypeStep, ShipTypeStep, ShipStepSimulates
<1>2. created \in Nat /\ None \notin 1 .. created
  BY DEF TypeOK
<1>3. CASE Appending /\ UNCHANGED shipVars
  <2>1. Sources' = Sources /\ shipping' = shipping
    BY <1>3 DEF shipVars, Sources, Objects
  <2>2. CASE UNCHANGED <<capture, created>>
    BY <1>1, <2>1, <2>2 DEF Named
  <2>3. CASE capture = None /\ created' = created + 1 /\ capture' = created'
    <3>1. capture' \in 1 .. created' /\ 1 .. created \subseteq 1 .. created'
          /\ capture' \notin 1 .. created
      BY <1>2, <2>3
    <3>2. capture' \notin Sources \cup {shipping}
      BY <1>2, <2>3, <3>1 DEF Named
    <3> QED BY <1>1, <2>1, <3>1, <3>2 DEF Named
  <2> QED BY <1>3, <2>2, <2>3, AppendersName
<1>4. CASE Recover \/ ReadShipping \/ StatCapture \/ RemoveShipping
  <2>1. UNCHANGED <<capture, created, bucket>> /\ shipping' \in {shipping, None}
    BY <1>4 DEF Recover, ReadShipping, StatCapture, RemoveShipping, vars
  <2>2. Sources' = Sources
    BY <2>1 DEF Sources, Objects
  <2> QED BY <1>1, <1>2, <2>1, <2>2 DEF Named
<1>5. CASE Put \/ ShipFault \/ ShipKill
  <2>1. UNCHANGED <<capture, created, shipping>>
        /\ (bucket' = bucket \/ (shipping \in Inodes /\ Stored))
    BY <1>5 DEF Put, ShipFault, ShipKill, ShipTypeOK, vars
  <2>2. Sources' = Sources \/ (shipping \in Inodes /\ Sources' = Sources \cup {shipping})
    BY <2>1, StoredObjects DEF Sources, Objects
  <2>3. None \notin Inodes
    BY DEF Inodes
  <2> QED BY <1>1, <2>1, <2>2, <2>3 DEF Named
<1>6. CASE Rename
  <2>1. capture # None /\ capture' = None /\ shipping' = capture /\ UNCHANGED <<created, bucket>>
    BY <1>6 DEF Rename, Rotate
  <2>2. Sources' = Sources
    BY <2>1 DEF Sources, Objects
  <2> QED BY <1>1, <2>1, <2>2 DEF Named
<1>7. CASE UNCHANGED allVars
  <2>1. UNCHANGED <<capture, created, bucket, shipping>>
    BY <1>7 DEF allVars, vars, shipVars
  <2> QED BY <1>1, <2>1 DEF Named, Sources, Objects
<1> QED
  BY <1>3, <1>4, <1>5, <1>6, <1>7 DEF ShipNext, ShipStep

LEMMA NameInvInit == ShipInit => NameInv
<1> SUFFICES ASSUME ShipInit PROVE NameInv
  OBVIOUS
<1>1. bucket = <<>> /\ capture = None /\ shipping = None
  BY DEF ShipInit, Init
<1>2. Sources = {}
  BY <1>1 DEF Sources, Objects
<1> QED BY <1>1, <1>2, TypeInit, ShipTypeInit DEF NameInv, Named, ShipInit

----------------------------------------------------------------------------
(* Duplicates *)

\* A file that is in the bucket and still waits to be uploaded: its next upload
\* is a duplicate.
Again == shipping \in Sources /\ spc # "remove"

\* DuplicatesNeedFaults is not inductive alone: the failure that leaves a
\* stored file waiting pays for the duplicate to come.
Paid ==
  Len(bucket) + (IF Again THEN 1 ELSE 0) <= Cardinality(Sources) + shipFaults + shipKills

DuplicateInv == NameInv /\ Paid

\* One more object, from a file that is waiting.
LEMMA StoredIsPaid ==
  ASSUME ShipTypeOK, Paid, shipping \in Inodes, Stored, spc = "put"
  PROVE  /\ Len(bucket') <= Cardinality(Sources') + shipFaults + shipKills
         /\ Len(bucket') \in Nat /\ Cardinality(Sources') \in Nat
<1>1. Len(bucket) \in Nat /\ Len(bucket') = Len(bucket) + 1
      /\ Sources' = Sources \cup {shipping}
  BY StoredObjects
<1>2. IsFiniteSet(Sources) /\ Cardinality(Sources) \in Nat
  BY SourcesAreFinite
<1>3. Cardinality(Sources') =
        IF shipping \in Sources THEN Cardinality(Sources) ELSE Cardinality(Sources) + 1
  BY <1>1, <1>2, FS_AddElement
<1>4. shipFaults \in Nat /\ shipKills \in Nat
  BY DEF ShipTypeOK
<1>5. Again <=> shipping \in Sources
  BY DEF Again
<1> QED BY <1>1, <1>2, <1>3, <1>4, <1>5 DEF Paid

LEMMA FailurePays ==
  ASSUME NEW n \in Nat, NEW c \in Nat, NEW f \in Nat, NEW k \in Nat, NEW g \in Nat, NEW l \in Nat,
         NEW a \in 0 .. 1, n <= c + f + k, g + l = f + k + 1
  PROVE  n + a <= c + g + l
  OBVIOUS

LEMMA DuplicateInvStep == DuplicateInv /\ [ShipNext]_allVars => DuplicateInv'
<1> SUFFICES ASSUME DuplicateInv, [ShipNext]_allVars PROVE DuplicateInv'
  OBVIOUS
<1> USE DEF DuplicateInv
<1>1. NameInv' /\ ShipTypeOK /\ TypeOK
  BY NameInvStep DEF NameInv
<1>2. /\ Len(bucket) \in Nat /\ Cardinality(Sources) \in Nat
      /\ shipFaults \in Nat /\ shipKills \in Nat
  BY <1>1, SourcesAreFinite DEF ShipTypeOK
<1>3. ASSUME UNCHANGED <<bucket, shipFaults, shipKills>>, Again' => Again PROVE Paid'
  <2>1. Sources' = Sources
    BY <1>3 DEF Sources, Objects
  <2> QED BY <1>2, <1>3, <2>1 DEF Paid
<1>4. CASE Appending /\ UNCHANGED shipVars
  BY <1>1, <1>3, <1>4 DEF shipVars, Again, Sources, Objects
<1>5. CASE Recover \/ ReadShipping \/ StatCapture
  <2>1. UNCHANGED <<bucket, shipFaults, shipKills, shipping>> /\ spc # "remove"
    BY <1>5 DEF Recover, ReadShipping, StatCapture
  <2> QED BY <1>1, <1>3, <2>1 DEF Again, Sources, Objects
<1>6. CASE RemoveShipping \/ Rename
  <2>1. UNCHANGED <<bucket, shipFaults, shipKills>> /\ shipping' \in {None, capture}
    BY <1>6 DEF RemoveShipping, Rename
  <2>2. None \notin Sources
    BY <1>1, SourcesAreFinite DEF Inodes
  <2>3. capture # None => capture \notin Sources
    BY DEF NameInv, Named
  <2>4. Sources' = Sources
    BY <2>1 DEF Sources, Objects
  <2> QED BY <1>1, <1>3, <2>1, <2>2, <2>3, <2>4 DEF Again
<1>7. CASE Put
  <2>1. Stored /\ shipping \in Inodes /\ spc = "put" /\ spc' = "remove"
        /\ UNCHANGED <<shipFaults, shipKills>>
    BY <1>1, <1>7 DEF Put, ShipTypeOK
  <2>2. ~Again'
    BY <2>1 DEF Again
  <2>3. /\ Len(bucket') <= Cardinality(Sources') + shipFaults + shipKills
        /\ Len(bucket') \in Nat /\ Cardinality(Sources') \in Nat
    BY <1>1, <2>1, StoredIsPaid
  <2> QED BY <1>1, <2>1, <2>2, <2>3 DEF Paid
<1>8. CASE ShipFault \/ ShipKill
  <2>1. /\ shipFaults' + shipKills' = shipFaults + shipKills + 1
        /\ shipFaults' \in Nat /\ shipKills' \in Nat
        /\ bucket' = bucket \/ (Stored /\ spc = "put" /\ shipping \in Inodes)
    <3>1. CASE ShipFault
      <4>1. shipFaults' = shipFaults + 1 /\ shipKills' = shipKills
            /\ (bucket' = bucket \/ (Stored /\ spc = "put"))
        BY <3>1 DEF ShipFault
      <4> QED BY <1>1, <1>2, <4>1 DEF ShipTypeOK
    <3>2. CASE ShipKill
      <4>1. shipFaults' = shipFaults /\ shipKills' = shipKills + 1
            /\ (bucket' = bucket \/ (Stored /\ spc = "put"))
        BY <3>2 DEF ShipKill
      <4> QED BY <1>1, <1>2, <4>1 DEF ShipTypeOK
    <3> QED BY <1>8, <3>1, <3>2
  <2>2. /\ Len(bucket') <= Cardinality(Sources') + shipFaults + shipKills
        /\ Len(bucket') \in Nat /\ Cardinality(Sources') \in Nat
    <3>1. CASE bucket' = bucket
      <4>1. Sources' = Sources
        BY <3>1 DEF Sources, Objects
      <4> QED BY <1>2, <3>1, <4>1 DEF Paid
    <3>2. CASE Stored /\ spc = "put" /\ shipping \in Inodes
      BY <1>1, <3>2, StoredIsPaid
    <3> QED BY <2>1, <3>1, <3>2
  <2>3. Paid'
    <3>1. (IF Again' THEN 1 ELSE 0) \in 0 .. 1
      OBVIOUS
    <3>2. Len(bucket') + (IF Again' THEN 1 ELSE 0) <= Cardinality(Sources') + shipFaults' + shipKills'
      BY <1>2, <2>1, <2>2, <3>1, FailurePays
    <3> QED BY <3>2 DEF Paid
  <2> QED BY <1>1, <2>3
<1>9. CASE UNCHANGED allVars
  BY <1>1, <1>3, <1>9 DEF allVars, vars, shipVars, Again, Sources, Objects
<1> QED
  BY <1>4, <1>5, <1>6, <1>7, <1>8, <1>9 DEF ShipNext, ShipStep

\* However often calls fail and the shipper dies, each failure accounts for at
\* most one object that is a duplicate (upload.go:55-58).
THEOREM DuplicatesArePaid == ShipSpec => []DuplicatesNeedFaults
<1>1. ShipInit => DuplicateInv
  <2> SUFFICES ASSUME ShipInit PROVE Paid
    BY NameInvInit DEF DuplicateInv
  <2>1. bucket = <<>> /\ shipFaults = 0 /\ shipKills = 0
    BY DEF ShipInit
  <2>2. Sources = {}
    BY <2>1 DEF Sources, Objects
  <2> QED BY <2>1, <2>2, FS_EmptySet DEF Paid, Again
<1>2. DuplicateInv => DuplicatesNeedFaults
  <2> SUFFICES ASSUME DuplicateInv PROVE DuplicatesNeedFaults
    OBVIOUS
  <2>1. /\ Len(bucket) \in Nat /\ Cardinality(Sources) \in Nat
        /\ shipFaults \in Nat /\ shipKills \in Nat
    BY SourcesAreFinite DEF DuplicateInv, NameInv, ShipTypeOK
  <2>2. Len(bucket) <= Cardinality(Sources) + shipFaults + shipKills
    BY <2>1 DEF DuplicateInv, Paid
  <2> QED BY <2>2 DEF DuplicatesNeedFaults, Sources
<1> QED BY <1>1, <1>2, DuplicateInvStep, PTL DEF ShipSpec


----------------------------------------------------------------------------
(* Lines that come late *)

\* The events whose line may still reach a file: those of the writers that have
\* it open.
Coming(i) == {Event(w) : w \in {u \in Writers : pc[u] \in HasOpen /\ fd[u] = i}}

OnePerProcess(S) == \A e, f \in S : ProcOf[e.by] = ProcOf[f.by] => e = f

\* A line that is late for a file in the bucket, or will be for the bytes just
\* read, was that of the one writer of its process that had the file open then,
\* and nobody opens a rotated file again.
LateInv ==
  /\ \A i \in Sources : OnePerProcess(LateLines(i) \cup Coming(i))
  /\ spc = "put" =>
       OnePerProcess((Lines(content[shipping]) \ Lines(data)) \cup Coming(shipping))

ArrivalInv == NameInv /\ MutexInv /\ LateInv

\* One more chunk makes at most the line that it ends.
LEMMA LinesOfAppend ==
  ASSUME NEW s \in Seq(Chunk), NEW c \in Chunk
  PROVE  Lines(Append(s, c)) \subseteq Lines(s) \cup (IF c.newline THEN {c.ev} ELSE {})
<1>1. /\ Append(s, c) \in Seq(Chunk) /\ Len(s) \in Nat
      /\ DOMAIN s = 1 .. Len(s) /\ DOMAIN Append(s, c) = 1 .. (Len(s) + 1)
      /\ \A n \in 1 .. Len(s) : Append(s, c)[n] = s[n]
      /\ Append(s, c)[Len(s) + 1] = c
  BY AppendProperties, LenProperties
<1> DEFINE a == Append(s, c)
<1> HIDE DEF a
<1>2. ASSUME NEW n \in 1 .. (Len(s) + 1), a[n].newline, n > 1, a[n - 1] = LineStart(a[n].ev)
      PROVE  a[n].ev \in Lines(s) \cup (IF c.newline THEN {c.ev} ELSE {})
  <2>1. CASE n = Len(s) + 1
    BY <1>1, <1>2, <2>1 DEF a
  <2>2. CASE n \in 1 .. Len(s)
    <3>1. n - 1 \in 1 .. Len(s)
      BY <1>1, <1>2, <2>2
    <3>2. s[n].newline /\ s[n - 1] = LineStart(s[n].ev) /\ a[n].ev = s[n].ev
      BY <1>1, <1>2, <2>2, <3>1 DEF a
    <3> QED BY <1>1, <1>2, <2>2, <3>2 DEF Lines
  <2> QED BY <1>1, <2>1, <2>2
<1>3. Lines(a) \subseteq Lines(s) \cup (IF c.newline THEN {c.ev} ELSE {})
  BY <1>1, <1>2 DEF Lines, a
<1> QED BY <1>3 DEF a

\* What the appenders do to a rotated file: a line that was coming arrives, and
\* no other will come.
LEMMA ArrivalsWereComing ==
  ASSUME TypeOK, Appending, NEW i \in 1 .. created, i # capture
  PROVE  /\ Coming(i)' \subseteq Coming(i)
         /\ Lines(content'[i]) \subseteq Lines(content[i]) \cup Coming(i)
<1>0. i \in Inodes /\ i # None /\ created \in Nat
  BY DEF TypeOK, Inodes
<1>1. ASSUME \A u \in Writers : pc'[u] \in HasOpen /\ fd'[u] = i =>
               pc[u] \in HasOpen /\ fd[u] = i /\ calls'[u] = calls[u]
      PROVE  Coming(i)' \subseteq Coming(i)
  BY <1>1 DEF Coming, Event
<1>2. ASSUME NEW w \in Writers, pc[w] \notin HasOpen, pc' = [pc EXCEPT ![w] = "lock"] \/ UNCHANGED pc,
             fd' = fd, calls' = [calls EXCEPT ![w] = @ + 1] \/ UNCHANGED calls
      PROVE  Coming(i)' \subseteq Coming(i)
  BY <1>1, <1>2 DEF TypeOK, HasOpen
<1>3. ASSUME NEW w \in Writers, Call(w) \/ LockMutex(w) \/ OpenCapture(w) PROVE Coming(i)' \subseteq Coming(i)
  <2>1. CASE Call(w)
    BY <1>2, <2>1 DEF Call, HasOpen
  <2>2. CASE LockMutex(w)
    BY <1>1, <2>2 DEF LockMutex, HasOpen, TypeOK
  <2>3. CASE OpenCapture(w)
    <3>1. fd' = [fd EXCEPT ![w] = capture'] /\ capture' # i /\ pc' = [pc EXCEPT ![w] = "flock"]
          /\ calls' = calls
      BY <1>0, <2>3 DEF OpenCapture, TypeOK
    <3> QED BY <1>1, <3>1 DEF TypeOK
  <2> QED BY <1>3, <2>1, <2>2, <2>3
<1>4. ASSUME NEW w \in Writers,
             TakeFlock(w) \/ WriteHead(w) \/ WriteTail(w) \/ Return(w) \/ OpenFails(w) \/ WriteFails(w)
      PROVE  Coming(i)' \subseteq Coming(i)
  <2>1. /\ calls' = calls /\ (fd' = fd \/ fd' = [fd EXCEPT ![w] = None])
        /\ \E to \in Labels : /\ pc' = [pc EXCEPT ![w] = to]
                              /\ to \in HasOpen => pc[w] \in HasOpen
    BY <1>4 DEF TakeFlock, WriteHead, WriteTail, Return, OpenFails, WriteFails, Labels, HasOpen
  <2> QED BY <1>0, <1>1, <2>1 DEF TypeOK
<1>5. ASSUME NEW p \in Procs, Kill(p) PROVE Coming(i)' \subseteq Coming(i)
  <2>1. /\ calls' = calls
        /\ pc' = [u \in Writers |-> IF ProcOf[u] = p THEN "idle" ELSE pc[u]]
        /\ fd' = [u \in Writers |-> IF ProcOf[u] = p THEN None ELSE fd[u]]
    BY <1>5 DEF Kill
  <2> QED BY <1>0, <1>1, <2>1 DEF HasOpen
<1>6. Coming(i)' \subseteq Coming(i)
  BY <1>3, <1>4, <1>5 DEF Appending, Step
<1>7. ASSUME NEW w \in Writers, WriteHead(w) \/ WriteTail(w)
      PROVE  Lines(content'[i]) \subseteq Lines(content[i]) \cup Coming(i)
  <2>1. PICK c \in {LineStart(Event(w)), LineEnd(Event(w))} :
          content' = [content EXCEPT ![fd[w]] = Append(@, c)]
    BY <1>7 DEF WriteHead, WriteTail
  <2>2. c \in Chunk /\ c.ev = Event(w) /\ content[i] \in Seq(Chunk)
    <3>1. Event(w) \in Events /\ content[i] \in Seq(Chunk)
      BY <1>0 DEF Event, Events, TypeOK
    <3>2. ASSUME NEW e \in Events PROVE LineStart(e) \in Chunk /\ LineEnd(e) \in Chunk
      BY DEF LineStart, LineEnd, Chunk
    <3>3. c.ev = Event(w)
      BY DEF LineStart, LineEnd
    <3> QED BY <3>1, <3>2, <3>3
  <2>3. CASE fd[w] = i
    <3>1. Event(w) \in Coming(i)
      BY <1>7, <2>3 DEF WriteHead, WriteTail, Coming, HasOpen
    <3>2. content'[i] = Append(content[i], c)
      BY <1>0, <2>1, <2>3 DEF TypeOK
    <3> QED BY <2>2, <3>1, <3>2, LinesOfAppend
  <2>4. CASE fd[w] # i
    BY <1>0, <2>1, <2>4 DEF TypeOK
  <2> QED BY <2>3, <2>4
<1>8. ASSUME NEW w \in Writers,
             Call(w) \/ LockMutex(w) \/ OpenCapture(w) \/ TakeFlock(w) \/ Return(w)
               \/ OpenFails(w) \/ WriteFails(w)
      PROVE  content' = content
  BY <1>8 DEF Call, LockMutex, OpenCapture, TakeFlock, Return, OpenFails, WriteFails
<1>9. ASSUME NEW p \in Procs, Kill(p) PROVE content' = content
  BY <1>9 DEF Kill
<1>10. Lines(content'[i]) \subseteq Lines(content[i]) \cup Coming(i)
  BY <1>7, <1>8, <1>9 DEF Appending, Step
<1> QED BY <1>6, <1>10

\* Of a file that is being read for an upload each process has at most one
\* line to write.
LEMMA OneComing ==
  ASSUME MutexInv, NEW i
  PROVE  OnePerProcess(Coming(i))
<1> SUFFICES ASSUME NEW u \in Writers, NEW w \in Writers, pc[u] \in HasOpen, pc[w] \in HasOpen,
                    ProcOf[Event(u).by] = ProcOf[Event(w).by]
             PROVE  Event(u) = Event(w)
  BY DEF OnePerProcess, Coming
<1>1. ProcOf[u] = ProcOf[w]
  BY DEF Event
<1> QED BY <1>1, OneWriterPerProcess DEF MutexInv, HoldsMutex, HasOpen

LEMMA ArrivalInvStep == ArrivalInv /\ [ShipNext]_allVars => ArrivalInv'
<1> SUFFICES ASSUME ArrivalInv, [ShipNext]_allVars PROVE ArrivalInv'
  OBVIOUS
<1> USE DEF ArrivalInv
<1>1. NameInv' /\ MutexInv' /\ NameInv /\ TypeOK /\ ShipTypeOK /\ Named
  BY NameInvStep, MutexInvStep, ShipStepSimulates DEF NameInv
<1>2. ASSUME UNCHANGED <<content, pc, fd, calls>> PROVE \A i : Coming(i)' = Coming(i)
  BY <1>2 DEF Coming, Event
<1>3. CASE Appending /\ UNCHANGED shipVars
  <2>1. UNCHANGED <<shipping, spc, data, bucket>> /\ Sources' = Sources
        /\ \A i : UploadedFrom(i)' = UploadedFrom(i)
    BY <1>3 DEF shipVars, Sources, Objects, UploadedFrom
  <2>2. ASSUME NEW i \in 1 .. created, i # capture
        PROVE  /\ Coming(i)' \subseteq Coming(i)
               /\ Lines(content'[i]) \subseteq Lines(content[i]) \cup Coming(i)
    BY <1>1, <1>3, <2>2, ArrivalsWereComing
  <2>3. ASSUME NEW i \in Sources PROVE OnePerProcess(LateLines(i) \cup Coming(i))'
    <3>1. i \in 1 .. created /\ i # capture
      BY <1>1, <2>3 DEF Named
    <3>2. LateLines(i)' \cup Coming(i)' \subseteq LateLines(i) \cup Coming(i)
      BY <2>1, <2>2, <3>1 DEF LateLines
    <3> QED BY <3>2, <2>3 DEF LateInv, OnePerProcess
  <2>4. ASSUME spc = "put"
        PROVE  OnePerProcess((Lines(content[shipping]) \ Lines(data)) \cup Coming(shipping))'
    <3>1. shipping \in 1 .. created /\ shipping # capture
      <4>1. shipping \in Inodes /\ None \notin Inodes
        BY <1>1, <2>4 DEF ShipTypeOK, Inodes
      <4> QED BY <1>1, <4>1 DEF Named
    <3>2. (Lines(content'[shipping]) \ Lines(data)) \cup Coming(shipping)' \subseteq
            (Lines(content[shipping]) \ Lines(data)) \cup Coming(shipping)
      BY <2>1, <2>2, <3>1
    <3> QED BY <2>1, <2>4, <3>2 DEF LateInv, OnePerProcess
  <2> QED BY <1>1, <2>1, <2>3, <2>4 DEF LateInv
<1>4. ASSUME UNCHANGED <<content, pc, fd, calls, bucket>>, spc' # "put" PROVE ArrivalInv'
  <2>1. Sources' = Sources /\ \A i : LateLines(i)' = LateLines(i) /\ Coming(i)' = Coming(i)
    BY <1>2, <1>4 DEF LateLines, Sources, UploadedFrom, Objects
  <2> QED BY <1>1, <1>4, <2>1 DEF LateInv
<1>5. CASE Recover \/ StatCapture \/ RemoveShipping \/ Rename
  BY <1>4, <1>5 DEF Recover, StatCapture, RemoveShipping, Rename, Rotate, AfterUpload, vars,
                    callVars
<1>6. CASE ReadShipping
  <2>1. /\ UNCHANGED <<content, pc, fd, calls, bucket, shipping>>
        /\ data' = content[shipping]
    BY <1>6 DEF ReadShipping, vars
  <2>2. Sources' = Sources /\ \A i : LateLines(i)' = LateLines(i) /\ Coming(i)' = Coming(i)
    BY <1>2, <2>1 DEF LateLines, Sources, UploadedFrom, Objects
  <2>3. OnePerProcess((Lines(content[shipping]) \ Lines(data)) \cup Coming(shipping))'
    <3>1. (Lines(content'[shipping]) \ Lines(data')) \cup Coming(shipping) = Coming(shipping)
      BY <2>1
    <3> QED BY <2>1, <2>2, <3>1, OneComing
  <2> QED BY <1>1, <2>2, <2>3 DEF LateInv
<1>7. ASSUME UNCHANGED <<content, pc, fd, calls, shipping>>, spc = "put", spc' # "put", Stored
      PROVE ArrivalInv'
  <2>1. /\ shipping \in Inodes /\ Sources' = Sources \cup {shipping}
        /\ Objects' = Objects \cup {[src |-> shipping, data |-> data]}
    BY <1>1, <1>7, StoredObjects DEF ShipTypeOK
  <2>2. \A i : Coming(i)' = Coming(i)
    BY <1>2, <1>7
  <2>3. ASSUME NEW i \in Sources, i # shipping PROVE OnePerProcess(LateLines(i) \cup Coming(i))'
    <3>1. UploadedFrom(i)' = UploadedFrom(i)
      BY <2>1, <2>3 DEF UploadedFrom
    <3>2. LateLines(i)' = LateLines(i)
      BY <1>7, <3>1 DEF LateLines
    <3> QED BY <2>2, <2>3, <3>2 DEF LateInv
  <2>4. OnePerProcess(LateLines(shipping) \cup Coming(shipping))'
    <3>1. [src |-> shipping, data |-> data] \in UploadedFrom(shipping)'
      BY <1>7, <2>1 DEF UploadedFrom
    <3>2. LateLines(shipping)' \subseteq Lines(content[shipping]) \ Lines(data)
      BY <1>7, <3>1 DEF LateLines
    <3> QED BY <1>7, <2>2, <3>2 DEF LateInv, OnePerProcess
  <2> QED BY <1>1, <1>7, <2>1, <2>3, <2>4 DEF LateInv
<1>8. CASE Put \/ ShipFault \/ ShipKill
  <2>1. /\ UNCHANGED <<content, pc, fd, calls, shipping>> /\ spc' # "put"
        /\ bucket' = bucket \/ (Stored /\ spc = "put")
    BY <1>8 DEF Put, ShipFault, ShipKill, AfterUpload, vars
  <2> QED BY <1>4, <1>7, <2>1
<1>9. CASE UNCHANGED allVars
  <2>1. UNCHANGED <<content, pc, fd, calls, bucket, shipping, data, spc>>
    BY <1>9 DEF allVars, vars, shipVars
  <2>2. Sources' = Sources /\ \A i : LateLines(i)' = LateLines(i) /\ Coming(i)' = Coming(i)
    BY <1>2, <2>1 DEF LateLines, Sources, UploadedFrom, Objects
  <2> QED BY <1>1, <2>1, <2>2 DEF LateInv
<1> QED
  BY <1>3, <1>5, <1>6, <1>8, <1>9 DEF ShipNext, ShipStep

\* Whatever the interleaving of appends, rotations, failures and kills, at most
\* one line of each process misses an upload of its file (writer.go:13-20).
THEOREM FewLinesAreLate == ShipSpec => []LateLinesBounded
<1>1. ShipInit => ArrivalInv
  <2> SUFFICES ASSUME ShipInit PROVE LateInv
    BY NameInvInit, MutexInvInit DEF ArrivalInv, ShipInit
  <2>1. bucket = <<>> /\ spc = "recover"
    BY DEF ShipInit
  <2> QED BY <2>1 DEF LateInv, Sources, Objects
<1>2. ArrivalInv => LateLinesBounded
  <2> SUFFICES ASSUME ArrivalInv, NEW i \in Inodes, UploadedFrom(i) # {},
                      NEW e \in LateLines(i), NEW f \in LateLines(i), ProcOf[e.by] = ProcOf[f.by]
               PROVE  e = f
    BY DEF LateLinesBounded
  <2>1. i \in Sources
    BY SourcesOfUploads
  <2> QED BY <2>1 DEF ArrivalInv, LateInv, OnePerProcess
<1> QED BY <1>1, <1>2, ArrivalInvStep, PTL DEF ShipSpec

=============================================================================
