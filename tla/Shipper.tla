------------------------------ MODULE Shipper ------------------------------
(***************************************************************************)
(* The shipper daemon (src/internal/ship): one goroutine that rotates the  *)
(* capture file to <path>.shipping, uploads that file and removes it, over *)
(* the capture file the appenders of module CaptureFile write to.          *)
(*                                                                         *)
(* runOnce first uploads a .shipping file left by an earlier iteration or  *)
(* an earlier life of the process, then rotates.  It is one system call or *)
(* one request to MinIO per action: the appenders and a kill can come      *)
(* between any two.                                                        *)
(***************************************************************************)
EXTENDS CaptureFile

CONSTANTS
  RotateSize,     \* rotateSizeBytes, in chunks
  MaxShipFaults,  \* bound: system calls and requests that fail in the shipper
  MaxShipKills,   \* bound: kills (and restarts) of the shipper
  MaxTroubles     \* bound: faults and kills of all the processes together

ASSUME RotateAssumption == RotateSize \in Nat \ {0}
ASSUME ShipBoundsAssumption == 
  MaxShipFaults \in Nat /\ MaxShipKills \in Nat /\ MaxTroubles \in Nat

VARIABLES
  shipping,   \* the inode <path>.shipping names, or None
  spc,        \* where the shipper is in runOnce
  rotated,    \* whether uploadAndRemove runs after a rotation, not a recovery
  data,       \* the bytes read for the upload
  bucket,     \* the objects stored, in order: their source inode and bytes
  shipFaults, \* failures so far
  shipKills   \* kills so far

shipVars == <<shipping, spc, rotated, data, bucket, shipFaults, shipKills>>
allVars == <<vars, shipVars>>

ShipLabels == {"recover", "read", "put", "remove", "stat", "rename"}

ShipInit ==
  /\ Init
  /\ shipping = None
  /\ spc = "recover"
  /\ rotated = FALSE
  /\ data = <<>>
  /\ bucket = <<>>
  /\ shipFaults = 0
  /\ shipKills = 0

\* Where runOnce goes when uploadAndRemove returns: a failed or finished
\* recovery goes on to the rotation, a rotation ends the iteration.
AfterUpload == IF rotated THEN "recover" ELSE "stat"

----------------------------------------------------------------------------
Recover_NoStat ==
  /\ spc = "recover"
  /\ spc' = "read"
  /\ rotated' = FALSE
  /\ UNCHANGED <<vars, shipping, data, bucket, shipFaults, shipKills>>

Recover_Skip ==
  /\ spc = "recover"
  /\ spc' = "stat"
  /\ rotated' = FALSE
  /\ UNCHANGED <<vars, shipping, data, bucket, shipFaults, shipKills>>

\* At start and at every tick: recoverShipping uploads a .shipping file if there
\* is one.
Recover ==
  /\ spc = "recover"
  /\ spc' = IF shipping = None THEN "stat" ELSE "read"
  /\ rotated' = FALSE
  /\ UNCHANGED <<vars, shipping, data, bucket, shipFaults, shipKills>>

\* os.ReadFile: the whole file as it is now.
ReadShipping ==
  /\ spc = "read"
  /\ data' = content[shipping]
  /\ spc' = "put"
  /\ UNCHANGED <<vars, shipping, rotated, bucket, shipFaults, shipKills>>

\* PutObject stores the object under a fresh key.
Stored == bucket' = Append(bucket, [src |-> shipping, data |-> data])

Put ==
  /\ spc = "put"
  /\ Stored
  /\ spc' = "remove"
  /\ UNCHANGED <<vars, shipping, rotated, data, shipFaults, shipKills>>

RemoveShipping_Forgotten ==
  /\ spc = "remove"
  /\ spc' = AfterUpload
  /\ UNCHANGED <<vars, shipping, rotated, data, bucket, shipFaults, shipKills>>

\* os.Remove: whatever inode the path names loses its name.
RemoveShipping ==
  /\ spc = "remove"
  /\ shipping' = None
  /\ data' = <<>>
  /\ spc' = AfterUpload
  /\ UNCHANGED <<vars, rotated, bucket, shipFaults, shipKills>>

StatCapture_Strict ==
  /\ spc = "stat"
  /\ spc' = IF capture # None /\ Len(content[capture]) > RotateSize
            THEN "rename" ELSE "recover"
  /\ UNCHANGED <<vars, shipping, rotated, data, bucket, shipFaults, shipKills>>

\* os.Stat and the size check: below the threshold the iteration ends.
StatCapture ==
  /\ spc = "stat"
  /\ spc' = IF capture # None /\ Len(content[capture]) >= RotateSize
            THEN "rename" ELSE "recover"
  /\ UNCHANGED <<vars, shipping, rotated, data, bucket, shipFaults, shipKills>>

Rename_CopyTruncate ==
  /\ spc = "rename"
  /\ shipping' = capture
  /\ content' = [content EXCEPT ![capture] = <<>>]
  /\ rotated' = TRUE
  /\ spc' = "read"
  /\ UNCHANGED <<capture, created, lockVars, callVars, faults,
                 data, bucket, shipFaults, shipKills>>

\* os.Rename(capture, capture.shipping): atomic, and it replaces the file the
\* target path names, uploaded or not.
Rename ==
  /\ spc = "rename"
  /\ Rotate
  /\ shipping' = capture
  /\ rotated' = TRUE
  /\ spc' = "read"
  /\ UNCHANGED <<data, bucket, shipFaults, shipKills>>

----------------------------------------------------------------------------
\* A read, a PUT, a removal, a stat or a rename returns an error.  A failed
\* PUT may still have stored the object (client.go:82-88: the ETag is compared
\* after it, and an answer can be lost).
ShipFault ==
  /\ shipFaults < MaxShipFaults
  /\ shipFaults' = shipFaults + 1
  /\ \/ spc \in {"read", "put", "remove"} /\ spc' = AfterUpload /\ UNCHANGED bucket
     \/ spc = "put" /\ spc' = AfterUpload /\ Stored
     \/ spc \in {"stat", "rename"} /\ spc' = "recover" /\ UNCHANGED bucket
  /\ data' = <<>>
  /\ UNCHANGED <<vars, shipping, rotated, shipKills>>

\* The shipper dies and is started again.  A request in flight may be stored.
ShipKill ==
  /\ shipKills < MaxShipKills
  /\ shipKills' = shipKills + 1
  /\ spc # "recover"
  /\ spc' = "recover"
  /\ \/ spc = "put" /\ Stored
     \/ UNCHANGED bucket
  /\ data' = <<>>
  /\ rotated' = FALSE
  /\ UNCHANGED <<vars, shipping, shipFaults>>

Troubles == faults + shipFaults + shipKills

ShipStep ==
  \/ Recover \/ ReadShipping \/ Put \/ RemoveShipping
  \/ StatCapture \/ Rename

ShipNext ==
  \/ Appending /\ UNCHANGED shipVars /\ Troubles' <= MaxTroubles
  \/ ShipStep
  \/ ShipFault /\ Troubles < MaxTroubles
  \/ ShipKill /\ Troubles < MaxTroubles

ShipSpec == ShipInit /\ [][ShipNext]_allVars

\* The goroutines are scheduled, and systemd keeps the shipper running.
ShipFairSpec == ShipSpec /\ WF_allVars(ShipStep) /\ AppendFairness

----------------------------------------------------------------------------
\* The types, and that an upload in progress always has a file to read and to
\* remove (recover.go:20-22, ship.go:116-128).
ShipTypeOK ==
  /\ shipping \in Inodes \cup {None}
  /\ spc \in ShipLabels
  /\ rotated \in BOOLEAN
  /\ data \in Seq(Chunk)
  /\ bucket \in Seq([src : Inodes, data : Seq(Chunk)])
  /\ shipFaults \in 0 .. MaxShipFaults
  /\ shipKills \in 0 .. MaxShipKills
  /\ spc \in {"read", "put", "remove"} => shipping \in Inodes

Objects == {bucket[n] : n \in DOMAIN bucket}

\* The events whose whole line stands in a sequence of chunks.
Lines(chunks) ==
  {chunks[n].ev : n \in {m \in DOMAIN chunks :
     /\ chunks[m].newline
     /\ m > 1
     /\ chunks[m - 1] = LineStart(chunks[m].ev)}}

UploadedFrom(i) == {o \in Objects : o.src = i}
LateLines(i) == Lines(content[i]) \ UNION {Lines(o.data) : o \in UploadedFrom(i)}

\* At most one line of each appending process reaches a file after it was read
\* for an upload: the process opens the file anew for every event and holds
\* its mutex from the open to the close (writer.go:13-20).
LateLinesBounded ==
  \A i \in Inodes : UploadedFrom(i) # {} =>
    \A e, f \in LateLines(i) : ProcOf[e.by] = ProcOf[f.by] => e = f

\* Kills of the shipper at any point lose no file: as long as no call of it
\* fails, every file ever created is on disk or was uploaded
\* (recover.go:11-18, the crash-recovery contract).
KillsLoseNoFile ==
  shipFaults = 0 =>
    \A i \in 1 .. created :
      i \in {capture, shipping} \/ UploadedFrom(i) # {}

\* A file is uploaded twice only after a failure or a kill: each accounts for
\* at most one duplicate object (upload.go:55-58).
DuplicatesNeedFaults ==
  Len(bucket) <= Cardinality({o.src : o \in Objects}) + shipFaults + shipKills

\* The shipper is a Rotate of CaptureFile and nothing else to the appenders:
\* no step of it changes a byte of a file or a lock (proxy.go:128-132).
ImplementsCaptureFile == Spec

\* A file waiting as .shipping goes away in the end, once failures stop: it is
\* retried by every iteration (ship.go:126-127).
ShippingDrains == shipping # None ~> shipping = None

\* A capture file at the threshold is rotated in the end, even if no more
\* traffic comes (ship.go:110-116).
CaptureRotates ==
  \A i \in Inodes :
    (capture = i /\ Len(content[i]) >= RotateSize) ~> capture # i

----------------------------------------------------------------------------
\* What ship.go:126-127 says of a failed upload, "the file is left in place;
\* the next iteration's crash recovery will pick it up and retry": a file
\* leaves <path>.shipping only when it has been uploaded.
UnshippedIsKept ==
  [][shipping # None /\ shipping' # shipping => UploadedFrom(shipping) # {}]_allVars

\* What proxy.go:128-132 says of the writer goroutine, that it "avoids the
\* rename-vs-write race during shipper rotation": an event whose append
\* returned nil is on disk under a name the shipper knows, or in the bucket.
AckedIsKept ==
  \A e \in acked :
    \/ \E i \in {capture, shipping} \ {None} : e \in Lines(content[i])
    \/ \E o \in Objects : e \in Lines(o.data)

=============================================================================
