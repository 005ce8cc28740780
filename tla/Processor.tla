----------------------------- MODULE Processor -----------------------------
(***************************************************************************)
(* The processor daemon (src/internal/process/process.go): it reads the    *)
(* objects the shippers put under raw/<machine>/, inserts their events     *)
(* into ClickHouse, archives each object and advances the machine's cursor *)
(* in SQLite.                                                              *)
(*                                                                         *)
(* The daemon is one goroutine; shippers add objects at any time, a kill   *)
(* can come between any two of its calls, and a call that reports an error *)
(* may have taken effect.  Its volatile state is the part of a tick it is  *)
(* in; raw, archive, cursor and rows survive.  The copy in the staging     *)
(* directory is only read by the object's own pass, so it is `lines`.      *)
(***************************************************************************)
EXTENDS Naturals, Sequences, FiniteSets

CONSTANTS
  Machines,    \* the machines whose proxies capture
  Secs,        \* the seconds of the object keys' timestamps
  Ties,        \* the random part of a key, as its rank among the uuids
  Kind,        \* of each event: what its line and its fields look like
  Batches,     \* the possible contents of an object, sequences of events
  None,        \* no key
  MaxUploads,  \* bound: objects ever uploaded
  MaxBroken,   \* bound: objects whose stored body is truncated
  MaxFaults,   \* bound: failed calls
  MaxKills     \* bound: kills (and restarts) of the daemon

\* "toolong" is a line over the reader's limit of 16 MB (iter.go:28-34).
Kinds == {"plain", "internal", "malformed", "oversized", "toolong"}
Events == DOMAIN Kind
Key == [machine : Machines, sec : Secs, tie : Ties]

ASSUME KeyAssumption == Secs \subseteq Nat /\ Ties \subseteq Nat /\ None \notin Key
ASSUME KindAssumption == Kind \in [Events -> Kinds] /\ Batches \subseteq Seq(Events)
ASSUME ProcBoundsAssumption ==
  MaxUploads \in Nat /\ MaxBroken \in Nat /\ MaxFaults \in Nat /\ MaxKills \in Nat

VARIABLES
  uploads,   \* every object ever put under raw/
  raw,       \* the objects under raw/ now
  archive,   \* the objects under processed/raw-archive/
  cursor,    \* processor_cursors: the last key done with, of each machine
  rows,      \* the events in ClickHouse, as its merges leave them
  skipped,   \* the events given up because the model cannot denoise them
  cut,       \* the keys whose download the network cut short
  ppc,       \* where the daemon is in its tick
  pending,   \* the machines still to visit in this tick
  machine,   \* the machine being visited, or None
  todo,      \* the keys listed for it and not visited yet
  key,       \* the key being processed, or None
  lines,     \* what is left to read of the staged file
  faults, kills

stores == <<uploads, raw, archive, cursor, rows, skipped, cut>>
daemon == <<ppc, pending, machine, todo, key, lines>>
procVars == <<stores, daemon, faults, kills>>

Object == [key : Key, lines : Batches, broken : BOOLEAN, late : BOOLEAN]

\* The order of the listing: keys are compared as strings, so by timestamp and
\* then by uuid (key.go:25-30).
Before(j, k) == j.sec < k.sec \/ (j.sec = k.sec /\ j.tie < k.tie)
Passed(k) == cursor[k.machine] # None /\ ~Before(cursor[k.machine], k)
ObjectAt(k) == CHOOSE o \in raw : o.key = k

ProcInit ==
  /\ uploads = {} /\ raw = {} /\ archive = {}
  /\ cursor = [m \in Machines |-> None]
  /\ rows = {} /\ skipped = {} /\ cut = {}
  /\ ppc = "tick"
  /\ pending = {} /\ machine = None /\ todo = {} /\ key = None /\ lines = <<>>
  /\ faults = 0 /\ kills = 0

----------------------------------------------------------------------------
\* A shipper puts an object: the timestamp is its clock's, which does not go
\* back, and the uuid is random.  A shipper that dies in its PUT may leave a
\* truncated body.  `late` records that an earlier upload has a later key.
KeysOf(m) == {o.key : o \in {u \in uploads : u.key.machine = m}}
Overtaken(k) == \E j \in KeysOf(k.machine) : Before(k, j)

Upload(m) ==
  /\ Cardinality(uploads) < MaxUploads
  /\ \E s \in Secs, t \in Ties, b \in Batches, broken \in BOOLEAN :
       LET k == [machine |-> m, sec |-> s, tie |-> t]
           o == [key |-> k, lines |-> b, broken |-> broken, late |-> Overtaken(k)]
       IN /\ k \notin KeysOf(m)
          /\ \A j \in KeysOf(m) : j.sec <= s
          /\ broken => Cardinality({u \in uploads : u.broken}) < MaxBroken
          /\ uploads' = uploads \cup {o}
          /\ raw' = raw \cup {o}
  /\ UNCHANGED <<archive, cursor, rows, skipped, cut, daemon, faults, kills>>

----------------------------------------------------------------------------
Calm == UNCHANGED <<faults, kills>>

\* tick: which machines have objects under raw/.  (If the listing fails, the
\* tick ends as it began.)
Discover ==
  /\ ppc = "tick"
  /\ pending' = {o.key.machine : o \in raw}
  /\ ppc' = "machine"
  /\ UNCHANGED <<stores, machine, todo, key, lines>> /\ Calm

EndTick ==
  /\ ppc = "machine" /\ pending = {}
  /\ machine' = None
  /\ ppc' = "tick"
  /\ UNCHANGED <<stores, pending, todo, key, lines>> /\ Calm

ListMachine_NoPrefix ==
  /\ ppc = "machine"
  /\ \E m \in pending :
       /\ machine' = m
       /\ pending' = pending \ {m}
       /\ todo' = {k \in {o.key : o \in raw} : ~Passed(k)}
  /\ ppc' = "next"
  /\ UNCHANGED <<stores, key, lines>> /\ Calm

\* processMachine: the keys after the machine's cursor, as they are now.
ListMachine ==
  /\ ppc = "machine"
  /\ \E m \in pending :
       /\ machine' = m
       /\ pending' = pending \ {m}
       /\ todo' = {k \in {o.key : o \in raw} : k.machine = m /\ ~Passed(k)}
  /\ ppc' = "next"
  /\ UNCHANGED <<stores, key, lines>> /\ Calm

EndMachine ==
  /\ ppc = "next" /\ todo = {}
  /\ ppc' = "machine"
  /\ UNCHANGED <<stores, pending, machine, todo, key, lines>> /\ Calm

NextObject_AnyOrder ==
  /\ ppc = "next"
  /\ \E k \in todo :
       /\ key' = k
       /\ todo' = todo \ {k}
  /\ ppc' = "download"
  /\ UNCHANGED <<stores, pending, machine, lines>> /\ Calm

\* The keys are visited in the order of the listing.
NextObject ==
  /\ ppc = "next"
  /\ \E k \in todo :
       /\ \A j \in todo : ~Before(j, k)
       /\ key' = k
       /\ todo' = todo \ {k}
  /\ ppc' = "download"
  /\ UNCHANGED <<stores, pending, machine, lines>> /\ Calm

Halted ==
  /\ ppc' = "machine" /\ todo' = {} /\ key' = None /\ lines' = <<>>
  /\ UNCHANGED <<pending, machine>>

\* downloadToStaging: a body shorter than its listed length is ErrCorruptObject.
Download ==
  /\ ppc = "download"
  /\ IF ObjectAt(key).broken
     THEN ppc' = "corrupt" /\ UNCHANGED lines
     ELSE ppc' = "line" /\ lines' = ObjectAt(key).lines
  /\ UNCHANGED <<stores, pending, machine, todo, key>> /\ Calm

\* The network ends the body early: io.Copy reports the same ErrUnexpectedEOF.
DownloadCut ==
  /\ ppc = "download"
  /\ faults < MaxFaults
  /\ faults' = faults + 1
  /\ cut' = cut \cup {key}
  /\ ppc' = "corrupt"
  /\ UNCHANGED <<uploads, raw, archive, cursor, rows, skipped,
                 pending, machine, todo, key, lines, kills>>

\* A corrupt object stays in raw/ and the cursor passes it.
SkipCorrupt ==
  /\ ppc = "corrupt"
  /\ cursor' = [cursor EXCEPT ![machine] = key]
  /\ key' = None
  /\ ppc' = "next"
  /\ UNCHANGED <<uploads, raw, archive, rows, skipped, cut,
                 pending, machine, todo, lines>> /\ Calm

----------------------------------------------------------------------------
(* processJSONL, one line at a time. *)

SkipLine_KeepsInternal ==
  /\ ppc = "line" /\ lines # <<>>
  /\ lines' = IF Kind[Head(lines)] \in {"plain", "internal"} THEN lines ELSE Tail(lines)
  /\ ppc' = IF Kind[Head(lines)] \in {"plain", "internal"} THEN "denoise" ELSE "line"
  /\ UNCHANGED <<stores, pending, machine, todo, key>> /\ Calm

\* Malformed lines, internal events and oversized events are passed over; any
\* other is denoised.
SkipLine ==
  /\ ppc = "line" /\ lines # <<>>
  /\ Kind[Head(lines)] # "toolong"
  /\ lines' = IF Kind[Head(lines)] = "plain" THEN lines ELSE Tail(lines)
  /\ ppc' = IF Kind[Head(lines)] = "plain" THEN "denoise" ELSE "line"
  /\ UNCHANGED <<stores, pending, machine, todo, key>> /\ Calm

\* A line the reader refuses fails the object, this time and every time.
LineTooLong ==
  /\ ppc = "line" /\ lines # <<>>
  /\ Kind[Head(lines)] = "toolong"
  /\ Halted
  /\ UNCHANGED stores /\ Calm

EndOfFile ==
  /\ ppc = "line" /\ lines = <<>>
  /\ ppc' = "copy"
  /\ UNCHANGED <<stores, pending, machine, todo, key, lines>> /\ Calm

\* The model answers.
Denoise ==
  /\ ppc = "denoise"
  /\ ppc' = "insert"
  /\ UNCHANGED <<stores, pending, machine, todo, key, lines>> /\ Calm

\* The model's output does not parse, or the call times out: the event is
\* taken for a poison pill and given up.
DenoisePoison ==
  /\ ppc = "denoise"
  /\ skipped' = skipped \cup {Head(lines)}
  /\ lines' = Tail(lines)
  /\ ppc' = "line"
  /\ UNCHANGED <<uploads, raw, archive, cursor, rows, cut,
                 pending, machine, todo, key>> /\ Calm

\* ReplacingMergeTree keeps one row of each sort key, so a set of events.
Inserted == rows' = rows \cup {Head(lines)}

Insert_ErrorIgnored ==
  /\ ppc = "insert"
  /\ Inserted \/ UNCHANGED rows
  /\ lines' = Tail(lines)
  /\ ppc' = "line"
  /\ UNCHANGED <<uploads, raw, archive, cursor, skipped, cut,
                 pending, machine, todo, key>> /\ Calm

Insert ==
  /\ ppc = "insert"
  /\ Inserted
  /\ lines' = Tail(lines)
  /\ ppc' = "line"
  /\ UNCHANGED <<uploads, raw, archive, cursor, skipped, cut,
                 pending, machine, todo, key>> /\ Calm

----------------------------------------------------------------------------
(* MoveObject is a copy and a removal; then the cursor advances. *)

CopyToArchive ==
  /\ ppc = "copy"
  /\ archive' = archive \cup {ObjectAt(key)}
  /\ ppc' = "remove"
  /\ UNCHANGED <<uploads, raw, cursor, rows, skipped, cut,
                 pending, machine, todo, key, lines>> /\ Calm

Removed == raw' = raw \ {ObjectAt(key)}

RemoveRaw ==
  /\ ppc = "remove"
  /\ Removed
  /\ ppc' = "advance"
  /\ UNCHANGED <<uploads, archive, cursor, rows, skipped, cut,
                 pending, machine, todo, key, lines>> /\ Calm

AdvanceCursor ==
  /\ ppc = "advance"
  /\ cursor' = [cursor EXCEPT ![machine] = key]
  /\ key' = None
  /\ ppc' = "next"
  /\ UNCHANGED <<uploads, raw, archive, rows, skipped, cut,
                 pending, machine, todo, lines>> /\ Calm

----------------------------------------------------------------------------
Working == {"next", "download", "corrupt", "line", "denoise", "insert",
            "copy", "remove", "advance"}

Fault_SkipsObject ==
  /\ faults < MaxFaults
  /\ faults' = faults + 1
  /\ ppc \in Working \ {"next"}
  /\ cursor' = [cursor EXCEPT ![machine] = key]
  /\ ppc' = "next" /\ key' = None /\ lines' = <<>>
  /\ UNCHANGED <<uploads, raw, archive, rows, skipped, cut, pending, machine, todo, kills>>

\* A call fails: the batch of the machine ends and the next tick starts it
\* again from the cursor.  An insert or a removal that reports an error may
\* have taken effect; so may a copy, which is a fault of the removal.
Fault ==
  /\ faults < MaxFaults
  /\ faults' = faults + 1
  /\ \/ ppc \in Working \ {"next"} /\ Halted /\ UNCHANGED <<raw, rows>>
     \/ ppc = "insert" /\ Inserted /\ Halted /\ UNCHANGED raw
     \/ ppc = "remove" /\ Removed /\ Halted /\ UNCHANGED rows
     \/ /\ ppc = "machine" /\ pending # {}
        /\ \E m \in pending : pending' = pending \ {m}
        /\ UNCHANGED <<ppc, machine, todo, key, lines, raw, rows>>
  /\ UNCHANGED <<uploads, archive, cursor, skipped, cut, kills>>

\* The daemon dies, or its context is cancelled, and it is started again.
ProcKill ==
  /\ kills < MaxKills
  /\ kills' = kills + 1
  /\ ppc # "tick"
  /\ ppc' = "tick"
  /\ pending' = {} /\ machine' = None /\ todo' = {} /\ key' = None /\ lines' = <<>>
  /\ UNCHANGED <<stores, faults>>

ProcStep ==
  \/ Discover \/ EndTick \/ ListMachine \/ EndMachine \/ NextObject
  \/ Download \/ SkipCorrupt \/ SkipLine \/ LineTooLong \/ EndOfFile
  \/ Denoise \/ DenoisePoison \/ Insert
  \/ CopyToArchive \/ RemoveRaw \/ AdvanceCursor

ProcNext ==
  \/ \E m \in Machines : Upload(m)
  \/ ProcStep
  \/ DownloadCut
  \/ Fault
  \/ ProcKill

ProcSpec == ProcInit /\ [][ProcNext]_procVars
ProcFairSpec == ProcSpec /\ WF_procVars(ProcStep)

----------------------------------------------------------------------------
\* The types, and that whatever is being processed is an object of the machine
\* being visited that is still under raw/ until it is removed
\* (process.go:366-398).
ProcTypeOK ==
  /\ uploads \subseteq Object
  /\ raw \subseteq uploads /\ archive \subseteq uploads
  /\ cursor \in [Machines -> Key \cup {None}]
  /\ rows \subseteq Events /\ skipped \subseteq Events /\ cut \subseteq Key
  /\ ppc \in Working \cup {"tick", "machine"}
  /\ pending \subseteq Machines /\ machine \in Machines \cup {None}
  /\ todo \subseteq Key /\ key \in Key \cup {None}
  /\ lines \in Seq(Events)
  /\ faults \in 0 .. MaxFaults /\ kills \in 0 .. MaxKills
  /\ ppc \in Working \ {"next"} => key \in Key /\ key.machine = machine
  /\ ppc \in Working \ {"next", "advance"} => \E o \in raw : o.key = key

Wanted(o) == {e \in {o.lines[n] : n \in DOMAIN o.lines} : Kind[e] = "plain"}

\* An archived object is done with: every event of it that can be stored is in
\* ClickHouse or was given up by the model, whatever failed or died on the way
\* (process.go:423-437, marc-spec-v1.md:345).
ArchivedIsComplete ==
  \A o \in archive : Wanted(o) \subseteq rows \cup skipped

\* No object is ever lost by its move to the archive (client.go:101-116).
NothingVanishes == uploads = raw \cup archive

\* The daemon keeps the promise of module Delivery: whatever fails or dies, an
\* object leaves raw/ only for the archive and the archive only takes objects
\* that are settled, and nothing is stored or given up that is not in an object
\* being processed: no event marc itself caused comes back as a row
\* (process.go:404-450, 516-521).
Delivered == INSTANCE Delivery WITH
  Objects <- Object, Says <- Wanted,
  shipped <- uploads, waiting <- raw, filed <- archive,
  stored <- rows, dropped <- skipped

ImplementsDelivery == Delivered!DeliverySpec

\* A cursor never goes back, so no object is processed for ever
\* (process.go:440-443, db.go:208-218).
CursorAdvances ==
  [][\A m \in Machines : cursor'[m] # cursor[m] =>
       cursor[m] = None \/ Before(cursor[m], cursor'[m])]_procVars

\* An object left behind the cursor is truncated, or the network said so, or
\* it came with a key that sorts before one that was there already: failed and
\* retried calls and kills leave none behind (process.go:370-397).
PassedOverIsExplained ==
  \A o \in raw : Passed(o.key) => o.broken \/ o.key \in cut \/ o.late

Waiting(k) == ~Passed(k) /\ \E o \in raw : o.key = k

\* An object that can never be read to its end: it is retried in every tick.
Stuck(o) == ~o.broken /\ \E n \in DOMAIN o.lines : Kind[o.lines[n]] = "toolong"

\* An object in front of its cursor is dealt with in the end, whatever the
\* machine and whatever failed: all that can hold it up is a line too long to
\* be read, in it or in an object of its machine (process.go:371-374).
EveryObjectConsumed ==
  \A k \in Key :
    Waiting(k) ~> \/ ~Waiting(k)
                  \/ \E o \in raw : Stuck(o) /\ o.key.machine = k.machine

----------------------------------------------------------------------------
\* What key.go:19-20 says, "Keys are lexicographically sortable by date then
\* timestamp, which allows the server-side processor to use a simple cursor":
\* an intact object does not end up behind the cursor unprocessed.
NothingPassedOver ==
  \A o \in raw : Passed(o.key) => o.broken

=============================================================================
