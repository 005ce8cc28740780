------------------------- MODULE CaptureFileProofs -------------------------
(***************************************************************************)
(* Proofs about module CaptureFile, for every number of writers,           *)
(* processes, calls, files and faults.  Lines are kept apart by the lock;  *)
(* the mutex (MutexHeld) is what the lemmas at the end are about.          *)
(***************************************************************************)
EXTENDS CaptureFile, SequenceTheorems, TLAPS

USE BoundsAssumption, ProcOfAssumption, NoneAssumption

\* The empty file system at the start is well typed.
LEMMA TypeInit == Init => TypeOK
  BY DEF Init, TypeOK, Inodes, Labels, HasOpen, Chunk

\* So is what each step of an append, each failure and a rotation leads to.
LEMMA TypeStep == TypeOK /\ [Next]_vars => TypeOK'
<1> SUFFICES ASSUME TypeOK, [Next]_vars PROVE TypeOK'
  OBVIOUS
<1> USE DEF Inodes, Events, Labels, HasOpen
<1>1. ASSUME NEW w \in Writers, Call(w) PROVE TypeOK'
  BY <1>1 DEF Call, TypeOK, lockVars
<1>2. ASSUME NEW w \in Writers, LockMutex(w) PROVE TypeOK'
  BY <1>2 DEF LockMutex, TypeOK
<1>3. ASSUME NEW w \in Writers, OpenCapture(w) PROVE TypeOK'
  <2>1. /\ capture' \in Inodes
        /\ created' \in 0 .. MaxInodes
        /\ fd' = [fd EXCEPT ![w] = capture']
    <3>1. CASE capture # None
      BY <1>3, <3>1 DEF OpenCapture, TypeOK
    <3>2. CASE capture = None
      BY <1>3, <3>2 DEF OpenCapture, TypeOK
    <3> QED BY <3>1, <3>2
  <2>2. pc' = [pc EXCEPT ![w] = "flock"]
    BY <1>3 DEF OpenCapture
  <2>3. UNCHANGED <<content, lockVars, ok, calls, acked, faults>>
    BY <1>3 DEF OpenCapture
  <2> QED BY <2>1, <2>2, <2>3 DEF TypeOK, lockVars
<1>4. ASSUME NEW w \in Writers, TakeFlock(w) PROVE TypeOK'
  BY <1>4 DEF TakeFlock, TypeOK
<1>5. ASSUME NEW w \in Writers, WriteHead(w) PROVE TypeOK'
  <2>1. LineStart(Event(w)) \in Chunk
    BY DEF LineStart, Event, Chunk, TypeOK
  <2>2. content' \in [Inodes -> Seq(Chunk)]
    BY <1>5, <2>1 DEF WriteHead, TypeOK
  <2> QED BY <1>5, <2>2 DEF WriteHead, TypeOK, lockVars
<1>6. ASSUME NEW w \in Writers, WriteTail(w) PROVE TypeOK'
  <2>1. LineEnd(Event(w)) \in Chunk
    BY DEF LineEnd, Event, Chunk, TypeOK
  <2>2. content' \in [Inodes -> Seq(Chunk)]
    BY <1>6, <2>1 DEF WriteTail, TypeOK
  <2> QED BY <1>6, <2>2 DEF WriteTail, TypeOK, lockVars
<1>7. ASSUME NEW w \in Writers, Return(w) PROVE TypeOK'
  <2>1. Event(w) \in Events
    BY DEF Event, TypeOK
  <2> QED BY <1>7, <2>1 DEF Return, TypeOK
<1>8. ASSUME NEW w \in Writers, OpenFails(w) PROVE TypeOK'
  BY <1>8 DEF OpenFails, TypeOK, lockVars
<1>9. ASSUME NEW w \in Writers, WriteFails(w) PROVE TypeOK'
  BY <1>9 DEF WriteFails, TypeOK, lockVars
<1>10. ASSUME NEW p \in Procs, Kill(p) PROVE TypeOK'
  <2>1. /\ mutex' \in [Procs -> Writers \cup {None}]
        /\ faults' \in 0 .. MaxFaults
    BY <1>10 DEF Kill, TypeOK
  <2>2. flock' \in [Inodes -> Writers \cup {None}]
    BY <1>10 DEF Kill, TypeOK
  <2>3. /\ pc' \in [Writers -> Labels]
        /\ fd' \in [Writers -> Inodes \cup {None}]
    BY <1>10 DEF Kill, TypeOK
  <2>4. ASSUME NEW w \in Writers, pc'[w] \in HasOpen PROVE fd'[w] \in Inodes
    <3>1. /\ pc'[w] = IF ProcOf[w] = p THEN "idle" ELSE pc[w]
          /\ fd'[w] = IF ProcOf[w] = p THEN None ELSE fd[w]
      BY <1>10 DEF Kill
    <3> QED BY <2>4, <3>1 DEF TypeOK
  <2>5. ok' \in [Writers -> BOOLEAN]
    <3>1. ok \in [Writers -> BOOLEAN]
      BY DEF TypeOK
    <3>2. ok' = [w \in Writers |-> IF ProcOf[w] = p THEN FALSE ELSE ok[w]]
      BY <1>10 DEF Kill
    <3> QED BY <3>1, <3>2, Zenon
  <2>6. UNCHANGED <<capture, content, created, calls, acked>>
    BY <1>10 DEF Kill
  <2> QED BY <2>1, <2>2, <2>3, <2>4, <2>5, <2>6 DEF TypeOK
<1>11. CASE Rotate
  BY <1>11 DEF Rotate, TypeOK, lockVars, callVars
<1>12. CASE UNCHANGED vars
  BY <1>12 DEF vars, TypeOK
<1> QED
  BY <1>1, <1>2, <1>3, <1>4, <1>5, <1>6, <1>7, <1>8, <1>9, <1>10, <1>11, <1>12
  DEF Next, Appending, Step

\* Every state of the appenders is well typed, and a writer past its open has
\* a file (append.go:43-79).
THEOREM TypeCorrect == Spec => []TypeOK
  BY TypeInit, TypeStep, PTL DEF Spec

----------------------------------------------------------------------------
\* A writer that is writing holds the lock of the file it opened.
FlockHeld ==
  \A w \in Writers : pc[w] \in HoldsFlock => flock[fd[w]] = w

\* Between the two chunks of a line the file ends with the first of them.
HeadWritten ==
  \A w \in Writers : pc[w] = "rest" =>
    /\ Len(content[fd[w]]) > 0
    /\ content[fd[w]][Len(content[fd[w]])] = LineStart(Event(w))

\* LinesContiguous is not inductive alone: it needs that nobody else can
\* append between the two chunks, which is what the two facts above say.
IInv == TypeOK /\ FlockHeld /\ HeadWritten /\ LinesContiguous

\* One more chunk at the end of a file whose lines are whole.
LEMMA AppendContiguous ==
  ASSUME NEW s \in Seq(Chunk), NEW c \in Chunk,
         \A n \in 1 .. Len(s) :
           s[n].newline => n > 1 /\ s[n - 1] = LineStart(s[n].ev),
         c.newline => Len(s) > 0 /\ s[Len(s)] = LineStart(c.ev)
  PROVE  \A n \in 1 .. Len(Append(s, c)) :
           Append(s, c)[n].newline =>
             n > 1 /\ Append(s, c)[n - 1] = LineStart(Append(s, c)[n].ev)
  OBVIOUS

\* The invariant holds when nobody has appended yet.
LEMMA InvInit == Init => IInv
<1> SUFFICES ASSUME Init PROVE IInv
  OBVIOUS
<1>1. TypeOK
  BY TypeInit
<1>2. FlockHeld /\ HeadWritten
  BY DEF Init, FlockHeld, HeadWritten, HoldsFlock
<1>3. LinesContiguous
  BY DEF Init, LinesContiguous
<1> QED BY <1>1, <1>2, <1>3 DEF IInv

\* No two writers are past the lock of one file.
LEMMA OneWriterPerFile ==
  ASSUME FlockHeld, NEW u \in Writers, NEW w \in Writers,
         pc[u] \in HoldsFlock, pc[w] \in HoldsFlock, fd[u] = fd[w]
  PROVE  u = w
  BY DEF FlockHeld

\* A step that writes nothing and lets no writer into the middle of a line
\* keeps the chunks between two halves as they are.
LEMMA NoWriteStep ==
  ASSUME HeadWritten, LinesContiguous, content' = content,
         \A w \in Writers : pc'[w] = "rest" =>
           pc[w] = "rest" /\ fd'[w] = fd[w] /\ calls'[w] = calls[w]
  PROVE  HeadWritten' /\ LinesContiguous'
<1>1. HeadWritten'
  BY DEF HeadWritten, Event
<1>2. LinesContiguous'
  BY DEF LinesContiguous
<1> QED BY <1>1, <1>2

\* A chunk that continues the last line of the file it goes to.
LEMMA WriteStep ==
  ASSUME TypeOK, LinesContiguous, NEW w \in Writers, NEW c \in Chunk,
         fd[w] \in Inodes,
         content' = [content EXCEPT ![fd[w]] = Append(@, c)],
         c.newline => /\ Len(content[fd[w]]) > 0
                      /\ content[fd[w]][Len(content[fd[w]])] = LineStart(c.ev)
  PROVE  LinesContiguous'
<1> DEFINE s == content[fd[w]]
<1>1. s \in Seq(Chunk)
  BY DEF TypeOK
<1>2. \A n \in 1 .. Len(s) : s[n].newline => n > 1 /\ s[n - 1] = LineStart(s[n].ev)
  BY DEF LinesContiguous
<1>3. \A n \in 1 .. Len(Append(s, c)) :
        Append(s, c)[n].newline =>
          n > 1 /\ Append(s, c)[n - 1] = LineStart(Append(s, c)[n].ev)
  BY <1>1, <1>2, AppendContiguous
<1>4. ASSUME NEW i \in Inodes, i # fd[w] PROVE content'[i] = content[i]
  BY <1>4 DEF TypeOK
<1>5. content'[fd[w]] = Append(s, c)
  BY DEF TypeOK
<1> QED
  BY <1>3, <1>4, <1>5 DEF LinesContiguous

\* Every step keeps the invariant.
LEMMA InvStep == IInv /\ [Next]_vars => IInv'
<1> SUFFICES ASSUME IInv, [Next]_vars PROVE IInv'
  OBVIOUS
<1> USE DEF IInv
<1>1. TypeOK'
  BY TypeStep
<1>2. ASSUME NEW w \in Writers, Call(w) PROVE IInv'
  <2>1. FlockHeld'
    BY <1>2 DEF Call, lockVars, FlockHeld, HoldsFlock, TypeOK
  <2>2. HeadWritten' /\ LinesContiguous'
    BY <1>2, NoWriteStep DEF Call, TypeOK
  <2> QED BY <1>1, <2>1, <2>2
<1>3. ASSUME NEW w \in Writers, LockMutex(w) PROVE IInv'
  <2>1. FlockHeld'
    BY <1>3 DEF LockMutex, FlockHeld, HoldsFlock, TypeOK
  <2>2. HeadWritten' /\ LinesContiguous'
    BY <1>3, NoWriteStep DEF LockMutex, TypeOK
  <2> QED BY <1>1, <2>1, <2>2
<1>4. ASSUME NEW w \in Writers, OpenCapture(w) PROVE IInv'
  <2>1. /\ pc' = [pc EXCEPT ![w] = "flock"]
        /\ \A u \in Writers : u # w => fd'[u] = fd[u]
    BY <1>4 DEF OpenCapture, TypeOK
  <2>2. FlockHeld'
    BY <1>4, <2>1 DEF OpenCapture, lockVars, FlockHeld, HoldsFlock, TypeOK
  <2>3. HeadWritten' /\ LinesContiguous'
    BY <1>4, <2>1, NoWriteStep DEF OpenCapture, TypeOK
  <2> QED BY <1>1, <2>2, <2>3
<1>5. ASSUME NEW w \in Writers, TakeFlock(w) PROVE IInv'
  <2>1. FlockHeld'
    BY <1>5 DEF TakeFlock, FlockHeld, HoldsFlock, HasOpen, TypeOK
  <2>2. HeadWritten' /\ LinesContiguous'
    BY <1>5, NoWriteStep DEF TakeFlock, TypeOK
  <2> QED BY <1>1, <2>1, <2>2
<1>6. ASSUME NEW w \in Writers, WriteHead(w) PROVE IInv'
  <2>1. FlockHeld'
    BY <1>6 DEF WriteHead, lockVars, FlockHeld, HoldsFlock, TypeOK
  <2>2. LineStart(Event(w)) \in Chunk /\ ~LineStart(Event(w)).newline
    BY DEF LineStart, Event, Chunk, Events, TypeOK
  <2>3. fd[w] \in Inodes
    BY <1>6 DEF WriteHead, HasOpen, TypeOK
  <2>4. LinesContiguous'
    BY <1>6, <2>2, <2>3, WriteStep DEF WriteHead
  <2>5. HeadWritten'
    <3> SUFFICES ASSUME NEW u \in Writers, pc'[u] = "rest"
                 PROVE  /\ Len(content'[fd'[u]]) > 0
                        /\ content'[fd'[u]][Len(content'[fd'[u]])] = LineStart(Event(u)')
      BY DEF HeadWritten
    <3>1. fd' = fd /\ Event(u)' = Event(u)
      BY <1>6 DEF WriteHead, Event
    <3>2. CASE u = w
      <4>1. content'[fd[w]] = Append(content[fd[w]], LineStart(Event(w)))
        BY <1>6, <2>3 DEF WriteHead, TypeOK
      <4>2. content[fd[w]] \in Seq(Chunk)
        BY <2>3 DEF TypeOK
      <4> QED BY <2>2, <3>1, <3>2, <4>1, <4>2
    <3>3. CASE u # w
      <4>1. pc[u] = "rest" /\ pc[w] = "write"
        BY <1>6, <3>3 DEF WriteHead, TypeOK
      <4>2. fd[u] # fd[w]
        BY <3>3, <4>1, OneWriterPerFile DEF HoldsFlock
      <4>3. fd[u] \in Inodes /\ content'[fd[u]] = content[fd[u]]
        BY <1>6, <4>1, <4>2 DEF WriteHead, HasOpen, TypeOK
      <4> QED BY <3>1, <4>1, <4>3 DEF HeadWritten
    <3> QED BY <3>2, <3>3
  <2> QED BY <1>1, <2>1, <2>4, <2>5
<1>7. ASSUME NEW w \in Writers, WriteTail(w) PROVE IInv'
  <2>1. FlockHeld'
    BY <1>7 DEF WriteTail, lockVars, FlockHeld, HoldsFlock, TypeOK
  <2>2. LineEnd(Event(w)) \in Chunk /\ LineEnd(Event(w)).ev = Event(w)
    BY DEF LineEnd, Event, Chunk, Events, TypeOK
  <2>3. fd[w] \in Inodes
    BY <1>7 DEF WriteTail, HasOpen, TypeOK
  <2>4. /\ Len(content[fd[w]]) > 0
        /\ content[fd[w]][Len(content[fd[w]])] = LineStart(Event(w))
    BY <1>7 DEF WriteTail, HeadWritten
  <2>5. LinesContiguous'
    BY <1>7, <2>2, <2>3, <2>4, WriteStep DEF WriteTail
  <2>6. HeadWritten'
    <3> SUFFICES ASSUME NEW u \in Writers, pc'[u] = "rest"
                 PROVE  /\ Len(content'[fd'[u]]) > 0
                        /\ content'[fd'[u]][Len(content'[fd'[u]])] = LineStart(Event(u)')
      BY DEF HeadWritten
    <3>1. fd' = fd /\ Event(u)' = Event(u)
      BY <1>7 DEF WriteTail, Event
    <3>2. pc[u] = "rest" /\ pc[w] = "rest" /\ u # w
      BY <1>7 DEF WriteTail, TypeOK
    <3>3. fd[u] # fd[w]
      BY <3>2, OneWriterPerFile DEF HoldsFlock
    <3>4. fd[u] \in Inodes /\ content'[fd[u]] = content[fd[u]]
      BY <1>7, <3>2, <3>3 DEF WriteTail, HasOpen, TypeOK
    <3> QED BY <3>1, <3>2, <3>4 DEF HeadWritten
  <2> QED BY <1>1, <2>1, <2>5, <2>6
<1>8. ASSUME NEW w \in Writers, Return(w) PROVE IInv'
  <2>1. \A u \in Writers : pc'[u] \in HoldsFlock =>
          u # w /\ pc[u] \in HoldsFlock /\ fd'[u] = fd[u]
    BY <1>8 DEF Return, HoldsFlock, TypeOK
  <2>2. \A i \in Inodes : flock[i] # w => flock'[i] = flock[i]
    BY <1>8 DEF Return
  <2>3. FlockHeld'
    BY <2>1, <2>2 DEF FlockHeld, HoldsFlock, HasOpen, TypeOK
  <2>4. HeadWritten' /\ LinesContiguous'
    BY <1>8, NoWriteStep DEF Return, TypeOK
  <2> QED BY <1>1, <2>3, <2>4
<1>9. ASSUME NEW w \in Writers, OpenFails(w) \/ WriteFails(w) PROVE IInv'
  <2>1. FlockHeld'
    BY <1>9 DEF OpenFails, WriteFails, lockVars, FlockHeld, HoldsFlock, TypeOK
  <2>2. HeadWritten' /\ LinesContiguous'
    BY <1>9, NoWriteStep DEF OpenFails, WriteFails, TypeOK
  <2> QED BY <1>1, <2>1, <2>2
<1>10. ASSUME NEW p \in Procs, Kill(p) PROVE IInv'
  <2>1. \A w \in Writers : pc'[w] # "idle" =>
          ProcOf[w] # p /\ pc'[w] = pc[w] /\ fd'[w] = fd[w]
    BY <1>10 DEF Kill
  <2>2. \A i \in Inodes : flock[i] # None /\ ProcOf[flock[i]] # p => flock'[i] = flock[i]
    BY <1>10 DEF Kill
  <2>3. FlockHeld'
    <3> SUFFICES ASSUME NEW w \in Writers, pc'[w] \in HoldsFlock
                 PROVE  flock'[fd'[w]] = w
      BY DEF FlockHeld
    <3>1. ProcOf[w] # p /\ pc[w] \in HoldsFlock /\ fd'[w] = fd[w]
      BY <2>1 DEF HoldsFlock
    <3>2. fd[w] \in Inodes /\ flock[fd[w]] = w
      BY <3>1 DEF FlockHeld, HoldsFlock, HasOpen, TypeOK
    <3> QED BY <2>2, <3>1, <3>2
  <2>4. HeadWritten' /\ LinesContiguous'
    BY <1>10, <2>1, NoWriteStep DEF Kill
  <2> QED BY <1>1, <2>3, <2>4
<1>11. CASE Rotate
  <2>1. FlockHeld'
    BY <1>11 DEF Rotate, lockVars, callVars, FlockHeld
  <2>2. HeadWritten' /\ LinesContiguous'
    BY <1>11, NoWriteStep DEF Rotate, callVars
  <2> QED BY <1>1, <2>1, <2>2
<1>12. CASE UNCHANGED vars
  BY <1>1, <1>12, NoWriteStep DEF vars, FlockHeld
<1> QED
  BY <1>2, <1>3, <1>4, <1>5, <1>6, <1>7, <1>8, <1>9, <1>10, <1>11, <1>12
  DEF Next, Appending, Step

\* Lines are never torn by one another, however many processes append, crash
\* and fail while the file is rotated under them (append.go:11-22).
THEOREM LinesNeverTorn == Spec => []LinesContiguous
<1>1. Spec => []IInv
  BY InvInit, InvStep, PTL DEF Spec
<1>2. IInv => LinesContiguous
  BY DEF IInv
<1> QED BY <1>1, <1>2, PTL

----------------------------------------------------------------------------
\* A writer past its Lock holds the mutex of its process.
MutexHeld ==
  \A w \in Writers : pc[w] \in HoldsMutex => mutex[ProcOf[w]] = w

MutexInv == TypeOK /\ MutexHeld

LEMMA MutexInvInit == Init => MutexInv
  BY TypeInit DEF Init, MutexInv, MutexHeld, HoldsMutex

LEMMA MutexInvStep == MutexInv /\ [Next]_vars => MutexInv'
<1> SUFFICES ASSUME MutexInv, [Next]_vars PROVE MutexInv'
  OBVIOUS
<1> USE DEF MutexInv, HoldsMutex
<1>1. TypeOK'
  BY TypeStep
<1>2. ASSUME NEW w \in Writers, Call(w) PROVE MutexHeld'
  BY <1>2 DEF Call, MutexHeld, TypeOK, lockVars
<1>3. ASSUME NEW w \in Writers, LockMutex(w) PROVE MutexHeld'
  <2>1. /\ mutex' = [mutex EXCEPT ![ProcOf[w]] = w] /\ mutex[ProcOf[w]] = None
        /\ pc' = [pc EXCEPT ![w] = "open"]
    BY <1>3 DEF LockMutex
  <2>2. ASSUME NEW u \in Writers, u # w, pc[u] \in HoldsMutex PROVE ProcOf[u] # ProcOf[w]
    BY <2>1, <2>2 DEF MutexHeld
  <2> QED BY <2>1, <2>2 DEF MutexHeld, TypeOK
<1>4. ASSUME NEW w \in Writers,
             OpenCapture(w) \/ TakeFlock(w) \/ WriteHead(w) \/ WriteTail(w) \/ OpenFails(w)
               \/ WriteFails(w)
      PROVE  MutexHeld'
  <2>1. mutex' = mutex /\ pc[w] \in HoldsMutex
        /\ \E to \in HoldsMutex : pc' = [pc EXCEPT ![w] = to]
    BY <1>4 DEF OpenCapture, TakeFlock, WriteHead, WriteTail, OpenFails, WriteFails, lockVars
  <2> QED BY <2>1 DEF MutexHeld, TypeOK
<1>5. ASSUME NEW w \in Writers, Return(w) PROVE MutexHeld'
  <2>1. /\ mutex' = [mutex EXCEPT ![ProcOf[w]] = None] /\ pc[w] \in HoldsMutex
        /\ pc' = [pc EXCEPT ![w] = "idle"]
    BY <1>5 DEF Return
  <2>2. ASSUME NEW u \in Writers, u # w, pc[u] \in HoldsMutex PROVE ProcOf[u] # ProcOf[w]
    BY <2>1, <2>2 DEF MutexHeld
  <2> QED BY <2>1, <2>2 DEF MutexHeld, TypeOK
<1>6. ASSUME NEW p \in Procs, Kill(p) PROVE MutexHeld'
  <2>1. /\ mutex' = [mutex EXCEPT ![p] = None]
        /\ pc' = [w \in Writers |-> IF ProcOf[w] = p THEN "idle" ELSE pc[w]]
    BY <1>6 DEF Kill
  <2>2. ASSUME NEW w \in Writers, pc'[w] \in HoldsMutex PROVE ProcOf[w] # p /\ pc'[w] = pc[w]
    BY <2>1, <2>2
  <2>3. \A w \in Writers : ProcOf[w] # p => mutex'[ProcOf[w]] = mutex[ProcOf[w]]
    BY <2>1 DEF TypeOK
  <2> QED BY <2>2, <2>3 DEF MutexHeld
<1>7. CASE Rotate \/ UNCHANGED vars
  <2>1. UNCHANGED <<mutex, pc>>
    BY <1>7 DEF Rotate, vars, lockVars, callVars
  <2> QED BY <1>1, <2>1 DEF MutexHeld
<1> QED
  BY <1>1, <1>2, <1>3, <1>4, <1>5, <1>6, <1>7 DEF Next, Appending, Step

\* So no two writers of a process are between their open and their close.
LEMMA OneWriterPerProcess ==
  ASSUME MutexHeld, NEW u \in Writers, NEW w \in Writers,
         pc[u] \in HoldsMutex, pc[w] \in HoldsMutex, ProcOf[u] = ProcOf[w]
  PROVE  u = w
  BY DEF MutexHeld

=============================================================================
