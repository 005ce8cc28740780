------------------------------- MODULE Updater -------------------------------
(***************************************************************************)
(* `marc update` (src/internal/update/update.go): fetch the latest         *)
(* release, download the asset into a private directory, check it against  *)
(* the release's sums, and put it in the place of the binary.  Where the   *)
(* private directory is on another file system the binary is first copied  *)
(* to <target>.update.tmp, a path that all updates of a host share.        *)
(*                                                                         *)
(* A binary is two chunks, so that it can be half there; a chunk is the    *)
(* version it belongs to, 0 when it is not what the release's sums say, or  *)
(* Hole where nobody wrote.                                                *)
(***************************************************************************)
EXTENDS Integers, Sequences, FiniteSets

CONSTANTS
  Updaters,     \* the invocations of marc update
  Versions,     \* the versions there are, newer ones higher
  None          \* no inode

ASSUME VersionsAssumption == Versions \subseteq Nat \ {0} /\ Versions # {}
ASSUME UpdatersAssumption == IsFiniteSet(Updaters)
ASSUME BinNoneAssumption == None \notin Nat

VARIABLES
  target,       \* the inode at the binary's path, or None
  tmpBin,       \* the inode at <target>.update.tmp, or None
  bits,         \* the chunks of each inode
  cross,        \* TMPDIR and the binary are on different file systems
  writable,     \* the binary's directory may be written
  upc,          \* where each update is
  have,         \* the version each runs
  rel,          \* the version each found
  staged,       \* what each downloaded: a version, or 0
  out,          \* the inode each has open for writing
  shared        \* history: two copies were under way at one time

placeVars == <<cross, writable>>
binVars == <<target, tmpBin, bits>>
updateVars == <<upc, have, rel, staged, out>>
updaterVars == <<binVars, placeVars, updateVars, shared>>

Hole == -1
Bins == 1 .. Cardinality(Updaters) + 2
Binary(v) == <<v, v>>
WholeBinaries == {Binary(v) : v \in Versions}

\* execve: a whole file that nobody has open for writing.
Runnable ==
  /\ target # None /\ bits[target] \in WholeBinaries
  /\ \A u \in Updaters : out[u] # target

UpdaterInit ==
  /\ cross \in BOOLEAN /\ writable \in BOOLEAN
  /\ target = 1 /\ tmpBin = None
  /\ \E v \in Versions : bits = [i \in Bins |-> IF i = 1 THEN Binary(v) ELSE <<>>]
  /\ upc = [u \in Updaters |-> "idle"]
  /\ have = [u \in Updaters |-> 0] /\ rel = [u \in Updaters |-> 0]
  /\ staged = [u \in Updaters |-> 0] /\ out = [u \in Updaters |-> None]
  /\ shared = FALSE

FreshBin ==
  CHOOSE i \in Bins : i \notin {target, tmpBin} /\ \A u \in Updaters : out[u] # i

UpdateGoes(u, from, to) ==
  /\ upc[u] = from
  /\ upc' = [upc EXCEPT ![u] = to]

----------------------------------------------------------------------------
(* One update *)

StartUpdate(u) ==
  /\ Runnable
  /\ UpdateGoes(u, "idle", "fetch")
  /\ have' = [have EXCEPT ![u] = bits[target][1]]
  /\ UNCHANGED <<binVars, placeVars, rel, staged, out>>

\* fetchLatestRelease, the comparison (for equality only) and pickAssetURLs.
\* Which release is the latest is GitHub's; it can be older than this binary.
FetchLatest(u) ==
  \/ /\ UpdateGoes(u, "fetch", "download")
     /\ \E latest \in Versions \ {have[u]} : rel' = [rel EXCEPT ![u] = latest]
     /\ UNCHANGED <<binVars, placeVars, have, staged, out>>
  \/ /\ UpdateGoes(u, "fetch", "over")   \* the same, --check, or an error
     /\ UNCHANGED <<binVars, placeVars, have, rel, staged, out>>

Download(u) ==
  /\ UpdateGoes(u, "download", "verify")
  /\ \E v \in {rel[u], 0} : staged' = [staged EXCEPT ![u] = v]
  /\ UNCHANGED <<binVars, placeVars, have, rel, out>>

VerifyChecksum_Skipped(u) ==
  /\ UpdateGoes(u, "verify", "replace")
  /\ UNCHANGED <<binVars, placeVars, have, rel, staged, out>>

\* The sums are fetched behind the asset; they list the release's own.
VerifyChecksum(u) ==
  /\ staged[u] # 0
  /\ UpdateGoes(u, "verify", "replace")
  /\ UNCHANGED <<binVars, placeVars, have, rel, staged, out>>

\* A request fails, an asset is missing or its sum differs: the private
\* directory is removed and nothing else was touched.
UpdateFails(u) ==
  /\ UpdateGoes(u, "download", "over") \/ UpdateGoes(u, "verify", "over")
  /\ UNCHANGED <<binVars, placeVars, have, rel, staged, out>>

\* os.Rename of the staged file: done, not permitted (the file stays staged
\* and the command succeeds), or across devices.
Replace(u) ==
  /\ \/ /\ ~cross /\ writable
        /\ UpdateGoes(u, "replace", "over")
        /\ target' = FreshBin
        /\ bits' = [bits EXCEPT ![FreshBin] = Binary(staged[u])]
        /\ UNCHANGED tmpBin
     \/ /\ ~cross /\ ~writable
        /\ UpdateGoes(u, "replace", "over")
        /\ UNCHANGED binVars
     \/ /\ cross
        /\ UpdateGoes(u, "replace", "opentmp")
        /\ UNCHANGED binVars
  /\ UNCHANGED <<placeVars, have, rel, staged, out>>

\* O_CREATE|O_TRUNC: another update's copy is emptied where it stands.
OpenTmp(u) ==
  /\ IF writable
     THEN /\ UpdateGoes(u, "opentmp", "copy")
          /\ tmpBin' = IF tmpBin = None THEN FreshBin ELSE tmpBin
          /\ bits' = [bits EXCEPT ![tmpBin'] = <<>>]
          /\ out' = [out EXCEPT ![u] = tmpBin']
     ELSE /\ UpdateGoes(u, "opentmp", "over")
          /\ UNCHANGED <<tmpBin, bits, out>>
  /\ UNCHANGED <<target, placeVars, have, rel, staged>>

\* io.Copy at the update's own offset; a chunk behind a gap leaves a hole.
CopyFirst(u) ==
  /\ UpdateGoes(u, "copy", "copy2")
  /\ bits' = [bits EXCEPT ![out[u]] = <<staged[u]>> \o SubSeq(@, 2, Len(@))]
  /\ UNCHANGED <<target, tmpBin, placeVars, have, rel, staged, out>>

CopySecond(u) ==
  /\ UpdateGoes(u, "copy2", "swap")
  /\ bits' = [bits EXCEPT ![out[u]] = IF @ = <<>> THEN <<Hole, staged[u]>> ELSE <<@[1], staged[u]>>]
  /\ out' = [out EXCEPT ![u] = None]
  /\ UNCHANGED <<target, tmpBin, placeVars, have, rel, staged>>

\* The error path removes whatever the shared path names.
CopyFails(u) ==
  /\ UpdateGoes(u, "copy", "over") \/ UpdateGoes(u, "copy2", "over")
  /\ tmpBin' = None
  /\ out' = [out EXCEPT ![u] = None]
  /\ UNCHANGED <<target, bits, placeVars, have, rel, staged>>

\* The rename of the shared path, if there is still something there.
SwapBinary(u) ==
  /\ UpdateGoes(u, "swap", "over")
  /\ target' = IF tmpBin = None THEN target ELSE tmpBin
  /\ tmpBin' = None
  /\ UNCHANGED <<bits, placeVars, have, rel, staged, out>>

KillUpdate(u) ==
  /\ upc[u] \notin {"idle", "over"}
  /\ upc' = [upc EXCEPT ![u] = "over"]
  /\ out' = [out EXCEPT ![u] = None]
  /\ UNCHANGED <<binVars, placeVars, have, rel, staged>>

UpdateStep(u) ==
  StartUpdate(u) \/ FetchLatest(u) \/ Download(u) \/ VerifyChecksum(u) \/ UpdateFails(u)
    \/ Replace(u) \/ OpenTmp(u) \/ CopyFirst(u) \/ CopySecond(u) \/ CopyFails(u)
    \/ SwapBinary(u) \/ KillUpdate(u)

Copying(u) == upc[u] \in {"copy", "copy2", "swap"}

UpdaterNext ==
  /\ \E u \in Updaters : UpdateStep(u)
  /\ shared' = (shared \/ \E a, b \in Updaters : a # b /\ Copying(a)' /\ Copying(b)')

----------------------------------------------------------------------------
(* Properties *)

\* Whatever updates run, fail or are killed, nothing unverified is ever in
\* the binary's place, and what is there is one whole binary unless two
\* updates used the shared path at one time (update.go:157-170, 305-337).
InstalledIsWhole ==
  /\ target # None
  /\ \A i \in DOMAIN bits[target] : bits[target][i] # 0
  /\ bits[target] \notin WholeBinaries => shared

=============================================================================
