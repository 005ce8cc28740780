---------------------------- MODULE CaptureFile ----------------------------
(***************************************************************************)
(* The capture file and the processes that append to it                    *)
(* (src/internal/jsonl/append.go).                                         *)
(*                                                                         *)
(* AppendEvent takes the process's mutex, opens whatever file the path     *)
(* names now, takes the advisory lock of the INODE it opened, writes one   *)
(* line, and undoes all this in its deferred calls.  The path is the only  *)
(* thing a rotation changes: a writer that opened the file before the      *)
(* rename goes on writing to the renamed inode.                            *)
(*                                                                         *)
(* A line is two chunks, its head and its tail (the tail carries the       *)
(* newline), so that a write can be cut short and a reader can see half of *)
(* a line.  Inodes are numbered in the order of their creation, and an     *)
(* event is its writer and the number of the call.                         *)
(***************************************************************************)
EXTENDS Naturals, Sequences, FiniteSets

CONSTANTS
  Writers,     \* the goroutines that call AppendEvent
  Procs,       \* the processes they run in (the proxy, the bot)
  ProcOf,      \* the process of each writer
  None,        \* no writer, no inode, no event
  MaxCalls,    \* bound: how often each writer calls AppendEvent
  MaxInodes,   \* bound: files ever created at the path
  MaxFaults    \* bound: I/O errors and process kills on the appending side

Inodes == 1 .. MaxInodes
Events == [by : Writers, n : Nat]

ASSUME BoundsAssumption ==
  MaxCalls \in [Writers -> Nat] /\ MaxInodes \in Nat /\ MaxFaults \in Nat
ASSUME ProcOfAssumption == ProcOf \in [Writers -> Procs]
ASSUME NoneAssumption == None \notin Writers \cup Nat

VARIABLES
  capture,   \* the inode the capture path names, or None
  content,   \* what each inode holds, a sequence of chunks
  created,   \* inodes created so far
  mutex,     \* the holder of each process's appendMu
  flock,     \* the holder of each inode's advisory lock
  pc,        \* where each writer is in AppendEvent
  fd,        \* the inode each writer has open
  ok,        \* whether the writer's call will return nil
  calls,     \* how often each writer called AppendEvent so far
  acked,     \* the events whose call returned nil
  faults     \* errors and kills so far

lockVars == <<mutex, flock>>
callVars == <<pc, fd, ok, calls, acked>>
vars == <<capture, content, created, mutex, flock, pc, fd, ok, calls, acked, faults>>

----------------------------------------------------------------------------
Chunk == [ev : Events, newline : BOOLEAN]
LineStart(e) == [ev |-> e, newline |-> FALSE]
LineEnd(e) == [ev |-> e, newline |-> TRUE]

\* The event a writer is appending: its own last call.
Event(w) == [by |-> w, n |-> calls[w]]

Labels == {"idle", "lock", "open", "flock", "write", "rest", "return"}
HoldsMutex == {"open", "flock", "write", "rest", "return"}
HoldsFlock == {"write", "rest"}
HasOpen == {"flock", "write", "rest"}

Init ==
  /\ capture = None
  /\ content = [i \in Inodes |-> <<>>]
  /\ created = 0
  /\ mutex = [p \in Procs |-> None]
  /\ flock = [i \in Inodes |-> None]
  /\ pc = [w \in Writers |-> "idle"]
  /\ fd = [w \in Writers |-> None]
  /\ ok = [w \in Writers |-> FALSE]
  /\ calls = [w \in Writers |-> 0]
  /\ acked = {}
  /\ faults = 0

----------------------------------------------------------------------------
(* append.go:43-79, one action per step. *)

\* runWriter (or the bot) calls AppendEvent with the next event.
Call(w) ==
  /\ pc[w] = "idle"
  /\ calls[w] < MaxCalls[w]
  /\ calls' = [calls EXCEPT ![w] = @ + 1]
  /\ pc' = [pc EXCEPT ![w] = "lock"]
  /\ UNCHANGED <<capture, content, created, lockVars, fd, ok, acked, faults>>

LockMutex(w) ==
  /\ pc[w] = "lock"
  /\ mutex[ProcOf[w]] = None
  /\ mutex' = [mutex EXCEPT ![ProcOf[w]] = w]
  /\ pc' = [pc EXCEPT ![w] = "open"]
  /\ UNCHANGED <<capture, content, created, flock, fd, ok, calls, acked, faults>>

OpenCapture_NoCreate(w) ==
  /\ pc[w] = "open"
  /\ fd' = [fd EXCEPT ![w] = capture]
  /\ pc' = [pc EXCEPT ![w] = "flock"]
  /\ UNCHANGED <<capture, content, created, lockVars, ok, calls, acked, faults>>

\* O_APPEND|O_CREATE: the inode at the path, or a new empty one put there.
OpenCapture(w) ==
  /\ pc[w] = "open"
  /\ \/ /\ capture # None
        /\ fd' = [fd EXCEPT ![w] = capture]
        /\ UNCHANGED <<capture, created>>
     \/ /\ capture = None
        /\ created < MaxInodes
        /\ created' = created + 1
        /\ capture' = created + 1
        /\ fd' = [fd EXCEPT ![w] = created + 1]
  /\ pc' = [pc EXCEPT ![w] = "flock"]
  /\ UNCHANGED <<content, lockVars, ok, calls, acked, faults>>

TakeFlock_Shared(w) ==
  /\ pc[w] = "flock"
  /\ flock' = [flock EXCEPT ![fd[w]] = w]
  /\ pc' = [pc EXCEPT ![w] = "write"]
  /\ UNCHANGED <<capture, content, created, mutex, fd, ok, calls, acked, faults>>

\* LOCK_EX on the inode that was opened, whatever the path names by now.
TakeFlock(w) ==
  /\ pc[w] = "flock"
  /\ flock[fd[w]] = None
  /\ flock' = [flock EXCEPT ![fd[w]] = w]
  /\ pc' = [pc EXCEPT ![w] = "write"]
  /\ UNCHANGED <<capture, content, created, mutex, fd, ok, calls, acked, faults>>

\* f.Write: the head of the line reaches the file, then the rest of it.
WriteHead(w) ==
  /\ pc[w] = "write"
  /\ content' = [content EXCEPT ![fd[w]] = Append(@, LineStart(Event(w)))]
  /\ pc' = [pc EXCEPT ![w] = "rest"]
  /\ UNCHANGED <<capture, created, lockVars, fd, ok, calls, acked, faults>>

WriteTail(w) ==
  /\ pc[w] = "rest"
  /\ content' = [content EXCEPT ![fd[w]] = Append(@, LineEnd(Event(w)))]
  /\ ok' = [ok EXCEPT ![w] = TRUE]
  /\ pc' = [pc EXCEPT ![w] = "return"]
  /\ UNCHANGED <<capture, created, lockVars, fd, calls, acked, faults>>

\* The next event is written through the file that is already open.
Return_KeepsFd(w) ==
  /\ pc[w] = "return"
  /\ calls[w] < MaxCalls[w]
  /\ calls' = [calls EXCEPT ![w] = @ + 1]
  /\ acked' = IF ok[w] THEN acked \cup {Event(w)} ELSE acked
  /\ ok' = [ok EXCEPT ![w] = FALSE]
  /\ flock' = [i \in Inodes |-> IF flock[i] = w THEN None ELSE flock[i]]
  /\ pc' = [pc EXCEPT ![w] = IF fd[w] = None THEN "open" ELSE "flock"]
  /\ UNCHANGED <<capture, content, created, mutex, fd, faults>>

\* The deferred calls that were registered (LOCK_UN, Close, the mutex) and
\* the return: an event is acknowledged when its line was written whole.
Return(w) ==
  /\ pc[w] = "return"
  /\ flock' = [i \in Inodes |-> IF flock[i] = w THEN None ELSE flock[i]]
  /\ mutex' = [mutex EXCEPT ![ProcOf[w]] = None]
  /\ acked' = IF ok[w] THEN acked \cup {Event(w)} ELSE acked
  /\ ok' = [ok EXCEPT ![w] = FALSE]
  /\ fd' = [fd EXCEPT ![w] = None]
  /\ pc' = [pc EXCEPT ![w] = "idle"]
  /\ UNCHANGED <<capture, content, created, calls, faults>>

----------------------------------------------------------------------------
(* Failures: each error path runs the deferred calls registered so far. *)

OpenFails_KeepsMutex(w) ==
  /\ pc[w] = "open"
  /\ faults < MaxFaults
  /\ faults' = faults + 1
  /\ pc' = [pc EXCEPT ![w] = "idle"]
  /\ UNCHANGED <<capture, content, created, lockVars, fd, ok, calls, acked>>

\* OpenFile or Flock returns an error: nothing is written.
OpenFails(w) ==
  /\ pc[w] \in {"open", "flock"}
  /\ faults < MaxFaults
  /\ faults' = faults + 1
  /\ pc' = [pc EXCEPT ![w] = "return"]
  /\ UNCHANGED <<capture, content, created, lockVars, fd, ok, calls, acked>>

\* Marshal or Write returns an error; Write may have written part of the line.
WriteFails(w) ==
  /\ pc[w] \in {"write", "rest"}
  /\ faults < MaxFaults
  /\ faults' = faults + 1
  /\ pc' = [pc EXCEPT ![w] = "return"]
  /\ UNCHANGED <<capture, content, created, lockVars, fd, ok, calls, acked>>

\* A process is killed and restarted: the kernel closes its files and frees
\* its locks, and the calls in progress never return.
Kill(p) ==
  /\ faults < MaxFaults
  /\ faults' = faults + 1
  /\ \E w \in Writers : ProcOf[w] = p /\ pc[w] # "idle"
  /\ mutex' = [mutex EXCEPT ![p] = None]
  /\ flock' = [i \in Inodes |->
                 IF flock[i] # None /\ ProcOf[flock[i]] = p THEN None ELSE flock[i]]
  /\ pc' = [w \in Writers |-> IF ProcOf[w] = p THEN "idle" ELSE pc[w]]
  /\ fd' = [w \in Writers |-> IF ProcOf[w] = p THEN None ELSE fd[w]]
  /\ ok' = [w \in Writers |-> IF ProcOf[w] = p THEN FALSE ELSE ok[w]]
  /\ UNCHANGED <<capture, content, created, calls, acked>>

----------------------------------------------------------------------------
(* The step of an append that the Go and kernel schedulers owe the writer. *)
Step(w) ==
  \/ LockMutex(w) \/ OpenCapture(w) \/ TakeFlock(w) \/ WriteHead(w)
  \/ WriteTail(w) \/ Return(w)

Appending ==
  \/ \E w \in Writers : Call(w) \/ Step(w) \/ OpenFails(w) \/ WriteFails(w)
  \/ \E p \in Procs : Kill(p)

\* What a rotation is to the appenders: the path names nothing any more, and
\* no inode changes.  The shipper (module Shipper) is who does this.
Rotate ==
  /\ capture # None
  /\ capture' = None
  /\ UNCHANGED <<content, created, lockVars, callVars, faults>>

Next == Appending \/ Rotate

Spec == Init /\ [][Next]_vars

AppendFairness == \A w \in Writers : WF_vars(Step(w))

----------------------------------------------------------------------------
\* The types, and that every writer past its open holds an inode
\* (append.go:49-55: the deferred Close always has a file to close).
TypeOK ==
  /\ capture \in Inodes \cup {None}
  /\ content \in [Inodes -> Seq(Chunk)]
  /\ created \in 0 .. MaxInodes
  /\ mutex \in [Procs -> Writers \cup {None}]
  /\ flock \in [Inodes -> Writers \cup {None}]
  /\ pc \in [Writers -> Labels]
  /\ fd \in [Writers -> Inodes \cup {None}]
  /\ ok \in [Writers -> BOOLEAN]
  /\ calls \in [Writers -> Nat]
  /\ acked \in SUBSET Events
  /\ faults \in 0 .. MaxFaults
  /\ \A w \in Writers : pc[w] \in HasOpen => fd[w] \in Inodes

\* No line is torn by another: where a tail stands in a file, the chunk before
\* it is the head of the same event.  Appenders of several processes, a line
\* longer than PIPE_BUF, rotations, kills and short writes included
\* (append.go:11-22, why both locks are needed).
LinesContiguous ==
  \A i \in Inodes : \A n \in 1 .. Len(content[i]) :
    content[i][n].newline =>
      n > 1 /\ content[i][n - 1] = LineStart(content[i][n].ev)

\* Every call of AppendEvent returns: no path out of it keeps a lock that
\* another caller waits for (append.go:44-62, the deferred calls).
AppendReturns ==
  \A w \in Writers : pc[w] # "idle" ~> pc[w] = "idle"

=============================================================================
