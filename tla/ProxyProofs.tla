---------------------------- MODULE ProxyProofs ----------------------------
(***************************************************************************)
(* Proofs about the proxy, alone and with the self-test beside it.         *)
(*                                                                         *)
(* Capture: an accepted event is written, in order, before the process     *)
(* ends, and a request meets the closed channel only when Run did not wait *)
(* for it (module ProxyCapture).                                           *)
(*                                                                         *)
(* Self-test: the proxy under test keeps the invariants of ProxyCapture    *)
(* (ProxyInv): they say that an event in the file is that of a request     *)
(* that is over, and none is there twice.  FileInv and TestInv carry what  *)
(* the tester has seen of it from one step to the next (module SelfTest).  *)
(*                                                                         *)
(* Health: what a page read is one of the states the record was in while   *)
(* it was read, though nothing orders the two stores of a recording        *)
(* (module ProxyHealth; HealthInv).                                        *)
(***************************************************************************)
EXTENDS SelfTest, SequenceTheorems, TLAPS

USE ChanCapAssumption, NoneAssumption

\* Taking the head of a sequence and putting it in front gives it back.
LEMMA HeadFirst ==
  ASSUME NEW S, NEW s \in Seq(S), s # <<>>
  PROVE  /\ Head(s) \in S /\ Tail(s) \in Seq(S) /\ Len(Tail(s)) < Len(s)
         /\ <<Head(s)>> \o Tail(s) = s
<1>1. /\ Head(s) \in S /\ Tail(s) \in Seq(S) /\ Len(Tail(s)) = Len(s) - 1
      /\ \A i \in 1 .. Len(Tail(s)) : Tail(s)[i] = s[i + 1]
  BY HeadTailProperties
<1>2. Len(s) \in Nat \ {0} /\ Head(s) = s[1]
  BY EmptySeq
<1>3. <<Head(s)>> \in Seq(S) /\ Len(<<Head(s)>>) = 1 /\ <<Head(s)>>[1] = Head(s)
  BY <1>1
<1>4. /\ <<Head(s)>> \o Tail(s) \in Seq(S)
      /\ Len(<<Head(s)>> \o Tail(s)) = Len(s)
      /\ \A i \in 1 .. Len(s) : (<<Head(s)>> \o Tail(s))[i] = s[i]
  BY <1>1, <1>2, <1>3, ConcatProperties
<1>5. <<Head(s)>> \o Tail(s) = s
  BY <1>4, SeqEqual
<1> QED BY <1>1, <1>2, <1>5

\* An element appended to a sequence is appended to whatever ends in it.
LEMMA AppendLast ==
  ASSUME NEW S, NEW s \in Seq(S), NEW t \in Seq(S), NEW e \in S
  PROVE  /\ Append(t, e) = t \o <<e>> /\ Append(t, e) \in Seq(S)
         /\ s \o Append(t, e) = Append(s \o t, e)
<1>1. <<e>> \in Seq(S) /\ s \o t \in Seq(S)
  BY ConcatProperties
<1>2. \A u \in Seq(S) : Append(u, e) = u \o <<e>>
  BY <1>1, AppendIsConcat
<1>3. (s \o t) \o <<e>> = s \o (t \o <<e>>)
  BY <1>1, ConcatAssociative
<1> QED BY <1>1, <1>2, <1>3, ConcatProperties

----------------------------------------------------------------------------
\* The proxy starts well typed.
LEMMA ProxyTypeInit == ProxyInit => ProxyTypeOK
<1>1. <<>> \in Seq(Requests) /\ Len(<<>>) <= ChanCap
  BY EmptySeq
<1> QED BY <1>1 DEF ProxyInit, ProxyTypeOK, InFlight

\* Every step of the proxy keeps the types.
LEMMA ProxyTypeStep == ProxyTypeOK /\ [ProxyNext]_proxyVars => ProxyTypeOK'
<1> SUFFICES ASSUME ProxyTypeOK, [ProxyNext]_proxyVars PROVE ProxyTypeOK'
  OBVIOUS
<1> USE DEF ProxyTypeOK, InFlight
<1>1. ASSUME NEW r \in Requests, RequestStep(r) PROVE ProxyTypeOK'
  <2>1. CASE Arrive(r) \/ UpstreamFails(r) \/ UpstreamResponds(r) \/ RelayEnds(r)
    BY <2>1 DEF Arrive, UpstreamFails, UpstreamResponds, RelayEnds, Goes,
                chanVars, writerVars, mainVars
  <2>2. CASE ContextCancels(r) \/ BuildFails(r)
    BY <2>2 DEF ContextCancels, BuildFails, Goes, chanVars, writerVars, mainVars
  <2>3. CASE Send(r)
    <3>1. rpc' \in [Requests -> InFlight \cup {"new", "done", "panicked"}]
      BY <2>3 DEF Send, Goes
    <3>2. UNCHANGED <<cut, writerVars, mainVars>>
      BY <2>3 DEF Send
    <3>3. CASE UNCHANGED <<eventCh, accepted>> /\ dropped' \in {dropped, dropped \cup {r}}
      BY <3>1, <3>2, <3>3 DEF writerVars, mainVars
    <3>4. CASE /\ eventCh' = Append(eventCh, r) /\ Len(eventCh) < ChanCap
               /\ accepted' = Append(accepted, r) /\ UNCHANGED dropped
      <4>1. /\ eventCh' \in Seq(Requests) /\ accepted' \in Seq(Requests)
            /\ Len(eventCh') = Len(eventCh) + 1 /\ Len(eventCh) \in Nat
        BY <3>4, AppendProperties, LenProperties
      <4> QED BY <3>1, <3>2, <3>4, <4>1 DEF writerVars, mainVars
    <3>5. \/ UNCHANGED <<eventCh, accepted>> /\ dropped' \in {dropped, dropped \cup {r}}
          \/ /\ eventCh' = Append(eventCh, r) /\ Len(eventCh) < ChanCap
             /\ accepted' = Append(accepted, r) /\ UNCHANGED dropped
      BY <2>3 DEF Send, chanVars
    <3> QED BY <3>3, <3>4, <3>5
  <2> QED BY <1>1, <2>1, <2>2, <2>3 DEF RequestStep
<1>2. CASE Receive
  BY <1>2, HeadFirst DEF Receive, mainVars
<1>3. CASE AppendReturns \/ WriterEnds
  <2>1. CASE AppendReturns
    <3>1. inHand \in Requests /\ Append(handled, inHand) \in Seq(Requests)
      BY <2>1, AppendProperties DEF AppendReturns
    <3> QED BY <2>1, <3>1 DEF AppendReturns, chanVars, mainVars
  <2>2. CASE WriterEnds
    BY <2>2 DEF WriterEnds, chanVars, mainVars
  <2> QED BY <1>3, <2>1, <2>2
<1>4. CASE StartShutdown \/ ServeErrorSeen \/ ShutdownReturns \/ CloseChannel \/ Exit
           \/ Signal \/ ServeFails
  BY <1>4 DEF StartShutdown, ServeErrorSeen, ShutdownReturns, CloseChannel, Exit,
              Signal, ServeFails, chanVars, writerVars
<1>5. CASE UNCHANGED proxyVars
  BY <1>5 DEF proxyVars
<1> QED BY <1>1, <1>2, <1>3, <1>4, <1>5 DEF ProxyNext, WriterStep, RunStep

\* The types hold in every state of the proxy (proxy.go:134-139).
THEOREM ProxyTypeCorrect == ProxySpec => []ProxyTypeOK
  BY ProxyTypeInit, ProxyTypeStep, PTL DEF ProxySpec

----------------------------------------------------------------------------
\* How Run came where it is: it leaves its select once and Shutdown once, and
\* after a Shutdown that drained no request is or comes into flight.
RunInv ==
  /\ stopped = "no" <=> main = "serve"
  /\ stopped = "asked" <=> main = "shutdown"
  /\ stopped = "drained" => \A r \in Requests : rpc[r] \notin InFlight
  /\ (\E r \in Requests : rpc[r] = "panicked") => stopped \in {"timeout", "error"}

\* A request meets the closed channel only when the grace time was over, or
\* when the listener failed and Run waited for nobody (proxy.go:191-212).
THEOREM PanicsAreExplained == ProxySpec => []PanicsExplained
<1>1. ProxyInit => RunInv
  BY DEF ProxyInit, RunInv, InFlight
<1>2. ProxyTypeOK /\ RunInv /\ [ProxyNext]_proxyVars => RunInv'
  <2> SUFFICES ASSUME ProxyTypeOK, RunInv, [ProxyNext]_proxyVars PROVE RunInv'
    OBVIOUS
  <2>0. rpc \in [Requests -> InFlight \cup {"new", "done", "panicked"}]
        /\ main \in {"serve", "shutdown", "close", "wait", "exited"}
        /\ stopped \in {"no", "asked", "drained", "timeout", "error"}
    BY DEF ProxyTypeOK
  <2> USE <2>0 DEF RunInv, InFlight
  <2>1. ASSUME NEW r \in Requests, RequestStep(r) PROVE RunInv'
    <3>1. CASE Arrive(r) \/ UpstreamFails(r) \/ UpstreamResponds(r) \/ RelayEnds(r)
      BY <3>1 DEF Arrive, UpstreamFails, UpstreamResponds, RelayEnds, Goes, mainVars
    <3>2. CASE ContextCancels(r) \/ BuildFails(r)
      BY <3>2 DEF ContextCancels, BuildFails, Goes, mainVars
    <3>3. CASE Send(r)
      BY <3>3 DEF Send, Goes, Closed, mainVars
    <3> QED BY <2>1, <3>1, <3>2, <3>3 DEF RequestStep
  <2>2. CASE WriterStep \/ Signal \/ ServeFails
    BY <2>2 DEF WriterStep, Receive, AppendReturns, WriterEnds, Signal, ServeFails, mainVars
  <2>3. CASE RunStep
    BY <2>3 DEF RunStep, StartShutdown, ServeErrorSeen, ShutdownReturns, CloseChannel, Exit
  <2>4. CASE UNCHANGED proxyVars
    BY <2>4 DEF proxyVars
  <2> QED BY <2>1, <2>2, <2>3, <2>4 DEF ProxyNext
<1>3. RunInv => PanicsExplained
  BY DEF RunInv, PanicsExplained
<1> QED BY <1>1, <1>2, <1>3, ProxyTypeCorrect, PTL DEF ProxySpec

----------------------------------------------------------------------------
\* A request whose event was taken or dropped is done, so it is neither twice.
DroppedDone == \A r \in dropped : rpc[r] = "done"

OrderInv == EventsInOrder /\ DroppedDone

\* The event of a request that is sending now is nowhere yet.
LEMMA NotYetSent ==
  ASSUME ProxyTypeOK, OrderInv, NEW r \in Requests, rpc[r] # "done"
  PROVE  r \notin dropped /\ \A i \in DOMAIN accepted : accepted[i] # r
  BY DEF OrderInv, EventsInOrder, DroppedDone, ProxyTypeOK

\* What the channel takes is behind everything it took before.
LEMMA OrderSend ==
  ASSUME ProxyTypeOK, OrderInv, NEW r \in Requests, rpc[r] = "send",
         rpc' = [rpc EXCEPT ![r] = "done"], UNCHANGED <<dropped, writerVars>>,
         eventCh' = Append(eventCh, r), accepted' = Append(accepted, r)
  PROVE  OrderInv'
<1>1. InHand \in Seq(Requests) /\ InHand' = InHand /\ handled' = handled
  BY EmptySeq DEF InHand, ProxyTypeOK, writerVars
<1>2. handled \o InHand \in Seq(Requests) /\ eventCh \in Seq(Requests)
  BY <1>1, ConcatProperties DEF ProxyTypeOK
<1>3. accepted' = (handled' \o InHand') \o eventCh'
  <2>1. accepted = (handled \o InHand) \o eventCh
    BY DEF OrderInv, EventsInOrder
  <2>2. (handled \o InHand) \o Append(eventCh, r) = Append((handled \o InHand) \o eventCh, r)
    BY <1>2, AppendLast
  <2> QED BY <1>1, <2>1, <2>2
<1>4. accepted \in Seq(Requests) /\ Len(accepted) \in Nat /\ DOMAIN accepted = 1 .. Len(accepted)
  BY LenProperties DEF ProxyTypeOK
<1>5. /\ accepted' \in Seq(Requests) /\ Len(accepted') = Len(accepted) + 1
      /\ \A i \in 1 .. Len(accepted) : accepted'[i] = accepted[i]
      /\ accepted'[Len(accepted) + 1] = r
  BY <1>4, AppendProperties
<1>6. DOMAIN accepted' = (DOMAIN accepted) \cup {Len(accepted) + 1}
  BY <1>4, <1>5
<1>7. r \notin dropped /\ \A i \in DOMAIN accepted : accepted[i] # r
  BY NotYetSent
<1>8. \A i, j \in DOMAIN accepted' : accepted'[i] = accepted'[j] => i = j
  <2>1. \A i, j \in DOMAIN accepted : accepted[i] = accepted[j] => i = j
    BY DEF OrderInv, EventsInOrder
  <2>2. \A i \in DOMAIN accepted : accepted'[i] = accepted[i] /\ accepted'[i] # r
    BY <1>4, <1>5, <1>7
  <2> QED BY <1>5, <1>6, <2>1, <2>2
<1>9. \A i \in DOMAIN accepted' : rpc'[accepted'[i]] = "done" /\ accepted'[i] \notin dropped'
  <2>1. ASSUME NEW i \in DOMAIN accepted
        PROVE  rpc'[accepted'[i]] = "done" /\ accepted'[i] \notin dropped'
    BY <1>4, <1>5, <1>7 DEF OrderInv, EventsInOrder, ProxyTypeOK
  <2>2. rpc'[r] = "done"
    BY DEF ProxyTypeOK
  <2> QED BY <2>1, <2>2, <1>5, <1>6, <1>7
<1>10. DroppedDone'
  BY DEF OrderInv, DroppedDone, ProxyTypeOK
<1> QED BY <1>3, <1>8, <1>9, <1>10 DEF OrderInv, EventsInOrder

\* A step of a request that neither takes nor drops an event.
LEMMA OrderGoes ==
  ASSUME ProxyTypeOK, OrderInv, NEW r \in Requests, rpc[r] # "done",
         NEW to, rpc' = [rpc EXCEPT ![r] = to], UNCHANGED <<chanVars, writerVars>>
  PROVE  OrderInv'
<1>1. r \notin dropped /\ \A i \in DOMAIN accepted : accepted[i] # r
  BY NotYetSent
<1>2. UNCHANGED <<eventCh, accepted, dropped, inHand, handled>>
  BY DEF chanVars, writerVars
<1>3. \A q \in Requests : q # r => rpc'[q] = rpc[q]
  BY DEF ProxyTypeOK
<1>4. \A i \in DOMAIN accepted : accepted[i] \in Requests
  BY ElementOfSeq, LenProperties DEF ProxyTypeOK
<1> QED BY <1>1, <1>2, <1>3, <1>4 DEF OrderInv, EventsInOrder, DroppedDone, InHand, ProxyTypeOK

\* The writer takes the first event, and hands it on.
LEMMA OrderWriter ==
  ASSUME ProxyTypeOK, OrderInv, Receive \/ AppendReturns
  PROVE  OrderInv'
<1>1. UNCHANGED <<rpc, accepted, dropped>>
  BY DEF Receive, AppendReturns, chanVars
<1>2. accepted = (handled \o InHand) \o eventCh
  BY DEF OrderInv, EventsInOrder
<1>3. handled \in Seq(Requests) /\ eventCh \in Seq(Requests) /\ <<>> \in Seq(Requests)
  BY EmptySeq DEF ProxyTypeOK
<1>4. CASE Receive
  <2>1. InHand = <<>> /\ InHand' = <<Head(eventCh)>> /\ handled' = handled
    BY <1>4, HeadFirst DEF Receive, InHand, ProxyTypeOK
  <2>2. eventCh = InHand' \o eventCh' /\ InHand' \in Seq(Requests) /\ eventCh' \in Seq(Requests)
    BY <1>3, <1>4, <2>1, HeadFirst DEF Receive
  <2>3. handled \o (InHand' \o eventCh') = (handled \o InHand') \o eventCh'
    <3>1. \A s, t, u \in Seq(Requests) : (s \o t) \o u = s \o (t \o u)
      BY ConcatAssociative
    <3> QED BY <1>3, <2>2, <3>1
  <2>4. handled \o InHand = handled
    BY <1>3, <2>1, ConcatEmptySeq
  <2>5. accepted' = (handled' \o InHand') \o eventCh'
    BY <1>1, <1>2, <2>1, <2>2, <2>3, <2>4
  <2> QED BY <1>1, <2>5 DEF OrderInv, EventsInOrder, DroppedDone
<1>5. CASE AppendReturns
  <2>1. inHand \in Requests /\ InHand = <<inHand>> /\ InHand' = <<>>
        /\ handled' = Append(handled, inHand) /\ eventCh' = eventCh
    BY <1>5 DEF AppendReturns, InHand, ProxyTypeOK, chanVars
  <2>2. handled' = handled \o InHand /\ handled' \in Seq(Requests)
    BY <1>3, <2>1, AppendLast
  <2>3. handled' \o InHand' = handled'
    BY <2>1, <2>2, ConcatEmptySeq
  <2>4. accepted' = (handled' \o InHand') \o eventCh'
    BY <1>1, <1>2, <2>1, <2>2, <2>3
  <2> QED BY <1>1, <2>4 DEF OrderInv, EventsInOrder, DroppedDone
<1> QED BY <1>4, <1>5

LEMMA OrderStep == ProxyTypeOK /\ OrderInv /\ [ProxyNext]_proxyVars => OrderInv'
<1> SUFFICES ASSUME ProxyTypeOK, OrderInv, [ProxyNext]_proxyVars PROVE OrderInv'
  OBVIOUS
<1>1. ASSUME NEW r \in Requests, RequestStep(r) PROVE OrderInv'
  <2>1. CASE Arrive(r) \/ UpstreamFails(r) \/ UpstreamResponds(r) \/ RelayEnds(r)
             \/ ContextCancels(r)
    <3>1. rpc[r] # "done" /\ UNCHANGED <<chanVars, writerVars>>
      BY <2>1 DEF Arrive, UpstreamFails, UpstreamResponds, RelayEnds, ContextCancels, Goes
    <3>2. PICK to \in {"upstream", "relay", "send", "done"} : rpc' = [rpc EXCEPT ![r] = to]
      BY <2>1 DEF Arrive, UpstreamFails, UpstreamResponds, RelayEnds, ContextCancels, Goes
    <3> QED BY <3>1, <3>2, OrderGoes
  <2>2. CASE BuildFails(r) \/ Send(r)
    <3>1. rpc[r] = "send" /\ UNCHANGED writerVars
      BY <2>2 DEF BuildFails, Send, Goes
    <3>2. CASE rpc' = [rpc EXCEPT ![r] = "panicked"] /\ UNCHANGED chanVars
      BY <3>1, <3>2, OrderGoes
    <3>3. CASE /\ rpc' = [rpc EXCEPT ![r] = "done"] /\ UNCHANGED dropped
               /\ eventCh' = Append(eventCh, r) /\ accepted' = Append(accepted, r)
      BY <3>1, <3>3, OrderSend
    <3>4. CASE /\ rpc' = [rpc EXCEPT ![r] = "done"] /\ dropped' = dropped \cup {r}
               /\ UNCHANGED <<eventCh, accepted>>
      <4>1. \A i \in DOMAIN accepted : accepted[i] # r /\ accepted[i] \in Requests
        BY <3>1, NotYetSent, ElementOfSeq, LenProperties DEF ProxyTypeOK
      <4>2. InHand' = InHand /\ handled' = handled
        BY <3>1 DEF InHand, writerVars
      <4>3. rpc'[r] = "done" /\ \A q \in Requests : q # r => rpc'[q] = rpc[q]
        BY <3>4 DEF ProxyTypeOK
      <4> QED BY <3>4, <4>1, <4>2, <4>3 DEF OrderInv, EventsInOrder, DroppedDone, ProxyTypeOK
    <3> QED BY <2>2, <3>2, <3>3, <3>4 DEF BuildFails, Send, Goes
  <2> QED BY <1>1, <2>1, <2>2 DEF RequestStep
<1>2. CASE WriterEnds \/ RunStep \/ Signal \/ ServeFails \/ UNCHANGED proxyVars
  <2>1. UNCHANGED <<rpc, eventCh, accepted, dropped, inHand, handled>>
    BY <1>2 DEF WriterEnds, RunStep, StartShutdown, ServeErrorSeen, ShutdownReturns,
                CloseChannel, Exit, Signal, ServeFails, proxyVars, chanVars, writerVars
  <2> QED BY <2>1 DEF OrderInv, EventsInOrder, DroppedDone, InHand
<1> QED BY <1>1, <1>2, OrderWriter DEF ProxyNext, WriterStep

LEMMA OrderInit == ProxyInit => OrderInv
<1>1. <<>> \in Seq(Requests) /\ DOMAIN <<>> = {}
  BY EmptySeq
<1>2. (<<>> \o <<>>) \o <<>> = <<>>
  BY <1>1, ConcatEmptySeq
<1> QED BY <1>1, <1>2 DEF ProxyInit, OrderInv, EventsInOrder, DroppedDone, InHand

\* The way through channel and writer neither loses, repeats nor reorders an
\* event it took (writer.go:26-47, proxy.go:222-232).
THEOREM EventsKeepOrder == ProxySpec => []EventsInOrder
<1>1. OrderInv => EventsInOrder
  BY DEF OrderInv
<1> QED BY <1>1, OrderInit, OrderStep, ProxyTypeCorrect, PTL DEF ProxySpec

----------------------------------------------------------------------------
\* The writer leaves only an empty channel that is closed, and Run leaves
\* only after the writer.
EndInv ==
  /\ wpc = "done" => Closed /\ eventCh = <<>>
  /\ main = "exited" => wpc = "done"

\* The process ends with every accepted event handed to the capture file,
\* whichever way it came to end (proxy.go:211-213).
THEOREM NothingIsLeftBehind == ProxySpec => []NothingLeftBehind
<1>1. ProxyInit => EndInv
  BY DEF ProxyInit, EndInv
<1>2. EndInv /\ [ProxyNext]_proxyVars => EndInv'
  <2> SUFFICES ASSUME EndInv, [ProxyNext]_proxyVars PROVE EndInv'
    OBVIOUS
  <2> USE DEF EndInv, Closed
  <2>1. ASSUME NEW r \in Requests, RequestStep(r) PROVE EndInv'
    BY <2>1 DEF RequestStep, Arrive, UpstreamFails, UpstreamResponds, RelayEnds,
                ContextCancels, BuildFails, Send, chanVars, writerVars, mainVars
  <2>2. CASE WriterStep
    BY <2>2 DEF WriterStep, Receive, AppendReturns, WriterEnds, Alive, chanVars, mainVars
  <2>3. CASE RunStep \/ Signal \/ ServeFails
    BY <2>3 DEF RunStep, StartShutdown, ServeErrorSeen, ShutdownReturns, CloseChannel,
                Exit, Signal, ServeFails, chanVars, writerVars
  <2>4. CASE UNCHANGED proxyVars
    BY <2>4 DEF proxyVars
  <2> QED BY <2>1, <2>2, <2>3, <2>4 DEF ProxyNext
<1>3. ProxyTypeOK /\ EventsInOrder /\ EndInv => NothingLeftBehind
  <2> SUFFICES ASSUME ProxyTypeOK, EventsInOrder, EndInv, main = "exited"
               PROVE  handled = accepted
    BY DEF NothingLeftBehind
  <2>1. eventCh = <<>> /\ InHand = <<>> /\ handled \in Seq(Requests)
    BY DEF EndInv, InHand, ProxyTypeOK
  <2>2. accepted = (handled \o <<>>) \o <<>>
    BY <2>1 DEF EventsInOrder
  <2> QED BY <2>1, <2>2, ConcatEmptySeq
<1> QED BY <1>1, <1>2, <1>3, ProxyTypeCorrect, EventsKeepOrder, PTL DEF ProxySpec

----------------------------------------------------------------------------
(* The self-test *)

ProxyInv == ProxyTypeOK /\ OrderInv

\* Every line in the file, and every line read of it, is one the writer wrote,
\* and each took an append of its own; what is whole is an accepted event.
Lines == Requests \cup {Torn}
Whole(s) == Members(s) \ {Torn}

FileInv ==
  /\ file \in Seq(Lines) /\ Len(file) <= Len(handled) /\ Whole(file) \subseteq Members(accepted)
  /\ unended \in BOOLEAN /\ (unended => file # <<>>)
  /\ captured \in Seq(Lines) /\ Len(captured) <= Len(accepted)
  /\ Whole(captured) \subseteq Members(accepted)

\* Without the CLI there is one request.
OneRequest ==
  ~useClaude => \A p, q \in Requests : rpc[p] # "new" /\ rpc[q] # "new" => p = q

TestInv ==
  /\ tester \in {"setup", "health", "request", "capture"} => captured = <<>>
  /\ tester \in {"setup", "health", "request", "capture", "verify"} => failedStep = "none"
  /\ tester \in {"capture", "verify"} => \E m \in Requests : Good(m)
  /\ tester = "verify" =>
       captured # <<>> /\ \A n \in DOMAIN captured : flaws[n] \in Content(captured[n])
  /\ OneRequest /\ PassIsProven /\ FailureIsExplained

SelfInv == ProxyInv /\ FileInv /\ TestInv

----------------------------------------------------------------------------
(* The proxy under test *)

\* A step of the test is one of the proxy, leaves it alone or cancels it.
LEMMA TestStepOfProxy ==
  ASSUME [SelfNext]_selfVars
  PROVE  \/ [ProxyNext]_proxyVars
         \/ UNCHANGED <<rpc, cut, chanVars, writerVars, main, serveErr, stopped>> /\ ctxDone'
<1>1. CASE TesterStep
  BY <1>1 DEF TesterStep, Setup, HealthOK, HealthTimesOut, RequestSucceeds, RequestFails,
              ReadCapture, CaptureTimesOut, Verify, Ends, Goto, At, Judge, healthVars
<1>2. CASE ProxyInTest
  BY <1>2 DEF ProxyInTest, Count, Stamp, Answered, Recorded, serveHealth, LoadForwarded,
              LoadFailed, ReadStamps, ProxyNext, RequestStep, WriterStep
<1>3. CASE AppendInTest
  BY <1>3 DEF AppendInTest, ProxyNext, WriterStep
<1>4. CASE UNCHANGED selfVars
  BY <1>4 DEF selfVars, healthVars
<1> QED BY <1>1, <1>2, <1>3, <1>4 DEF SelfNext

LEMMA ProxyInvStep == ProxyInv /\ [SelfNext]_selfVars => ProxyInv'
<1> SUFFICES ASSUME ProxyInv, [SelfNext]_selfVars PROVE ProxyInv'
  OBVIOUS
<1>1. CASE [ProxyNext]_proxyVars
  BY <1>1, ProxyTypeStep, OrderStep DEF ProxyInv
<1>2. CASE UNCHANGED <<rpc, cut, chanVars, writerVars, main, serveErr, stopped>> /\ ctxDone'
  <2>1. UNCHANGED <<rpc, cut, eventCh, accepted, dropped, wpc, inHand, handled,
                    main, serveErr, stopped>>
    BY <1>2 DEF chanVars, writerVars
  <2>2. ProxyTypeOK'
    BY <1>2, <2>1 DEF ProxyInv, ProxyTypeOK, InFlight
  <2>3. OrderInv'
    BY <2>1 DEF ProxyInv, OrderInv, EventsInOrder, DroppedDone, InHand
  <2> QED BY <2>2, <2>3 DEF ProxyInv
<1> QED BY <1>1, <1>2, TestStepOfProxy

LEMMA MembersOfAppend ==
  ASSUME NEW S, NEW s \in Seq(S), NEW e \in S
  PROVE  Members(Append(s, e)) = Members(s) \cup {e}
<1>1. /\ Append(s, e) \in Seq(S) /\ Len(Append(s, e)) = Len(s) + 1
      /\ \A i \in 1 .. Len(s) : Append(s, e)[i] = s[i]
      /\ Append(s, e)[Len(s) + 1] = e
  BY AppendProperties
<1>2. Len(s) \in Nat /\ DOMAIN s = 1 .. Len(s) /\ DOMAIN Append(s, e) = 1 .. Len(s) + 1
  BY <1>1, LenProperties
<1>3. 1 .. Len(s) + 1 = (1 .. Len(s)) \cup {Len(s) + 1}
  BY <1>2
<1> QED BY <1>1, <1>2, <1>3 DEF Members

\* Every event the writer is done with was accepted, and so was the one in its
\* hand.
LEMMA HandledAccepted ==
  ASSUME ProxyInv
  PROVE  /\ Len(handled) <= Len(accepted)
         /\ wpc = "append" => inHand \in Members(accepted) /\ Len(handled) + 1 <= Len(accepted)
<1>1. handled \in Seq(Requests) /\ InHand \in Seq(Requests) /\ eventCh \in Seq(Requests)
  BY EmptySeq DEF ProxyInv, ProxyTypeOK, InHand
<1>2. accepted = (handled \o InHand) \o eventCh
  BY DEF ProxyInv, OrderInv, EventsInOrder
<1> DEFINE mid == handled \o InHand
<1>3. /\ mid \in Seq(Requests) /\ Len(mid) = Len(handled) + Len(InHand)
      /\ \A n \in 1 .. Len(mid) :
           mid[n] = IF n <= Len(handled) THEN handled[n] ELSE InHand[n - Len(handled)]
  BY <1>1, ConcatProperties
<1>4. /\ Len(accepted) = Len(mid) + Len(eventCh)
      /\ \A n \in 1 .. Len(accepted) :
           accepted[n] = IF n <= Len(mid) THEN mid[n] ELSE eventCh[n - Len(mid)]
  <2>1. mid \in Seq(Requests)
    BY <1>3
  <2> HIDE DEF mid
  <2>2. accepted = mid \o eventCh
    BY <1>2 DEF mid
  <2> QED BY <1>1, <2>1, <2>2, ConcatProperties
<1> HIDE DEF mid
<1>5. /\ Len(handled) \in Nat /\ Len(InHand) \in Nat /\ Len(eventCh) \in Nat
      /\ DOMAIN handled = 1 .. Len(handled) /\ DOMAIN accepted = 1 .. Len(accepted)
  BY <1>1, LenProperties DEF ProxyInv, ProxyTypeOK
<1>6. Len(handled) <= Len(accepted)
  BY <1>3, <1>4, <1>5
<1>7. ASSUME wpc = "append"
      PROVE  inHand \in Members(accepted) /\ Len(handled) + 1 <= Len(accepted)
  <2>1. InHand = <<inHand>> /\ Len(InHand) = 1 /\ InHand[1] = inHand
    BY <1>7 DEF InHand, ProxyInv, ProxyTypeOK
  <2>2. Len(handled) + 1 \in DOMAIN accepted /\ accepted[Len(handled) + 1] = inHand
    BY <1>3, <1>4, <1>5, <2>1
  <2>3. accepted[Len(handled) + 1] \in Members(accepted)
    BY <2>2 DEF Members
  <2> QED BY <1>5, <2>2, <2>3
<1> QED BY <1>6, <1>7

\* A request whose event was accepted or dropped is over.
LEMMA SentIsOver ==
  ASSUME ProxyInv, NEW m \in Members(accepted) \cup dropped
  PROVE  m \in Requests /\ rpc[m] = "done"
<1>1. \A i \in DOMAIN accepted : accepted[i] \in Requests
  BY ElementOfSeq, LenProperties DEF ProxyInv, ProxyTypeOK
<1> QED BY <1>1 DEF Members, ProxyInv, ProxyTypeOK, OrderInv, EventsInOrder, DroppedDone

----------------------------------------------------------------------------
(* The exchange that succeeded *)

LEMMA MembersGrow ==
  ASSUME NEW s \in Seq(Requests), NEW t, NEW e \in Requests,
         t = s \/ t = Append(s, e)
  PROVE  Members(s) \subseteq Members(t)
<1>1. CASE t = s
  BY <1>1
<1>2. CASE t = Append(s, e)
  <2>1. Members(Append(s, e)) = Members(s) \cup {e}
    BY MembersOfAppend
  <2> QED BY <1>2, <2>1
<1> QED BY <1>1, <1>2

\* Only a request whose answer is awaited becomes a refused one.
LEMMA RefusedOnArrival ==
  ASSUME [SelfNext]_selfVars
  PROVE  /\ refused \subseteq refused'
         /\ \A m \in refused' \ refused : rpc[m] = "upstream"
<1>1. \/ refused' = refused
      \/ \E r \in Requests : rpc[r] = "upstream" /\ refused' \in {refused, refused \cup {r}}
  <2>1. CASE TesterStep
    BY <2>1 DEF TesterStep, Setup, HealthOK, HealthTimesOut, RequestSucceeds, RequestFails,
                ReadCapture, CaptureTimesOut, Verify, Ends, Goto, At, Judge, healthVars
  <2>2. CASE ProxyInTest
    BY <2>2 DEF ProxyInTest, Count, Stamp, Answered, Recorded, serveHealth, LoadForwarded,
                LoadFailed, ReadStamps, UpstreamResponds, Goes
  <2>3. CASE AppendInTest \/ UNCHANGED selfVars
    BY <2>3 DEF AppendInTest, selfVars, healthVars
  <2> QED BY <2>1, <2>2, <2>3 DEF SelfNext
<1> QED BY <1>1

\* The client that has an answer keeps it, whatever becomes of the event.
LEMMA GoodStays ==
  ASSUME ProxyInv, [SelfNext]_selfVars, NEW m \in Requests, Good(m)
  PROVE  Good(m)'
<1>1. rpc[m] # "upstream"
  BY SentIsOver DEF Good
<1>2. m \in Msgs \ refused'
  BY <1>1, RefusedOnArrival DEF Good
<1>3. \/ rpc'[m] \in {"relay", "send", "panicked"}
      \/ m \in dropped' \cup Members(accepted')
  <2>1. CASE UNCHANGED <<rpc, accepted, dropped>>
    BY <2>1 DEF Good
  <2>2. ASSUME NEW r \in Requests, RequestStep(r)
        PROVE  \/ rpc'[m] \in {"relay", "send", "panicked"}
               \/ m \in dropped' \cup Members(accepted')
    <3> USE DEF ProxyInv, ProxyTypeOK
    <3>1. CASE Send(r) \/ BuildFails(r)
      <4>1. /\ accepted' = accepted \/ accepted' = Append(accepted, r)
            /\ dropped \subseteq dropped'
            /\ \A q \in Requests : q # r => rpc'[q] = rpc[q]
            /\ rpc'[r] = "panicked" \/ accepted' = Append(accepted, r) \/ r \in dropped'
        BY <3>1 DEF Send, BuildFails, Goes, chanVars
      <4>2. Members(accepted) \subseteq Members(accepted')
        BY <4>1, MembersGrow
      <4>3. accepted' = Append(accepted, r) => r \in Members(accepted')
        BY MembersOfAppend
      <4> QED BY <4>1, <4>2, <4>3 DEF Good
    <3>2. CASE ~Send(r) /\ ~BuildFails(r)
      <4>1. UNCHANGED <<accepted, dropped>> /\ \A q \in Requests : q # r => rpc'[q] = rpc[q]
        BY <2>2, <3>2 DEF RequestStep, Arrive, UpstreamFails, UpstreamResponds, RelayEnds,
                          ContextCancels, Goes, chanVars
      <4>2. r = m /\ rpc[m] = "relay" => rpc'[m] = "send"
        BY <2>2, <3>2 DEF RequestStep, Arrive, UpstreamFails, UpstreamResponds, RelayEnds,
                          ContextCancels, Goes
      <4>3. r = m => rpc[m] \in {"new", "relay"}
        BY <1>1, <2>2, <3>2 DEF RequestStep, Arrive, UpstreamFails, UpstreamResponds,
                                RelayEnds, ContextCancels, Goes
      <4>4. rpc[m] = "new" => m \in dropped \cup Members(accepted)
        BY DEF Good
      <4> QED BY <4>1, <4>2, <4>3, <4>4 DEF Good
    <3> QED BY <3>1, <3>2
  <2>3. CASE WriterStep \/ RunStep \/ Signal \/ ServeFails \/ UNCHANGED proxyVars
    <3>1. UNCHANGED <<rpc, accepted, dropped>>
      BY <2>3 DEF WriterStep, Receive, AppendReturns, WriterEnds, RunStep, StartShutdown,
                  ServeErrorSeen, ShutdownReturns, CloseChannel, Exit, Signal, ServeFails,
                  proxyVars, chanVars
    <3> QED BY <2>1, <3>1
  <2> QED BY <2>1, <2>2, <2>3, TestStepOfProxy DEF ProxyNext, chanVars
<1> QED BY <1>2, <1>3 DEF Good

\* The channel's history only grows.
LEMMA AcceptedGrows ==
  ASSUME ProxyInv, [SelfNext]_selfVars
  PROVE  Members(accepted) \subseteq Members(accepted') /\ Len(accepted) <= Len(accepted')
<1>1. accepted \in Seq(Requests) /\ Len(accepted) \in Nat
  BY LenProperties DEF ProxyInv, ProxyTypeOK
<1>2. CASE accepted' = accepted
  BY <1>1, <1>2
<1>3. ASSUME NEW r \in Requests, accepted' = Append(accepted, r)
      PROVE  Members(accepted) \subseteq Members(accepted') /\ Len(accepted) <= Len(accepted')
  <2>1. Len(accepted') = Len(accepted) + 1
    BY <1>1, <1>3, AppendProperties
  <2>2. Members(accepted) \subseteq Members(accepted')
    BY <1>1, <1>3, MembersGrow
  <2>3. Len(accepted) <= Len(accepted')
    BY <1>1, <2>1
  <2> QED BY <2>2, <2>3
<1>4. accepted' = accepted \/ \E r \in Requests : accepted' = Append(accepted, r)
  <2>1. ASSUME NEW r \in Requests, RequestStep(r)
        PROVE  accepted' \in {accepted, Append(accepted, r)}
    BY <2>1 DEF RequestStep, Arrive, UpstreamFails, UpstreamResponds, RelayEnds,
                ContextCancels, BuildFails, Send, chanVars
  <2>2. CASE WriterStep \/ RunStep \/ Signal \/ ServeFails \/ UNCHANGED proxyVars
    BY <2>2 DEF WriterStep, Receive, AppendReturns, WriterEnds, RunStep, StartShutdown,
                ServeErrorSeen, ShutdownReturns, CloseChannel, Exit, Signal, ServeFails,
                proxyVars, chanVars
  <2> QED BY <2>1, <2>2, TestStepOfProxy DEF ProxyNext, chanVars
<1> QED BY <1>2, <1>3, <1>4

----------------------------------------------------------------------------
(* The file *)

\* A write ends the last line in ruins, or adds one.
LEMMA WrittenLine ==
  ASSUME FileInv, NEW line \in Lines
  PROVE  /\ Written(line) \in Seq(Lines) /\ Written(line) # <<>>
         /\ Len(Written(line)) <= Len(file) + 1
         /\ Whole(Written(line)) \subseteq Whole(file) \cup {line}
<1>1. file \in Seq(Lines) /\ Len(file) \in Nat /\ DOMAIN file = 1 .. Len(file)
  BY LenProperties DEF FileInv
<1>2. CASE unended
  <2> DEFINE w == [file EXCEPT ![Len(file)] = Torn]
  <2>1. Written(line) = w
    BY <1>2 DEF Written
  <2>2. Torn \in Lines /\ file # <<>>
    BY <1>2 DEF Lines, FileInv
  <2>3. w \in [1 .. Len(file) -> Lines]
    BY <1>1, <2>2, ElementOfSeq
  <2>4. w \in Seq(Lines) /\ Len(w) = Len(file) /\ DOMAIN w = 1 .. Len(file)
    <3> HIDE DEF w
    <3> QED BY <1>1, <2>3
  <2>5. w # <<>>
    BY <1>1, <2>2, <2>4, EmptySeq
  <2>6. \A n \in DOMAIN w : w[n] \in {Torn, file[n]}
    BY <1>1, <2>4
  <2>7. Whole(w) \subseteq Whole(file)
    BY <1>1, <2>4, <2>6 DEF Whole, Members
  <2> HIDE DEF w
  <2>8. Len(Written(line)) <= Len(file) + 1
    BY <1>1, <2>1, <2>4
  <2>9. Written(line) \in Seq(Lines) /\ Written(line) # <<>>
    BY <2>1, <2>4, <2>5
  <2>10. Whole(Written(line)) \subseteq Whole(file) \cup {line}
    BY <2>1, <2>7
  <2> QED BY <2>8, <2>9, <2>10
<1>3. CASE ~unended
  <2>1. Written(line) = Append(file, line)
    BY <1>3 DEF Written
  <2>2. /\ Append(file, line) \in Seq(Lines) /\ Len(Append(file, line)) = Len(file) + 1
        /\ Append(file, line) # <<>>
    BY <1>1, AppendProperties
  <2>3. Members(Append(file, line)) = Members(file) \cup {line}
    BY <1>1, MembersOfAppend
  <2> QED BY <1>1, <2>1, <2>2, <2>3 DEF Whole
<1> QED BY <1>2, <1>3 DEF FileInv

LEMMA FileInvStep == SelfInv /\ [SelfNext]_selfVars => FileInv'
<1> SUFFICES ASSUME SelfInv, [SelfNext]_selfVars PROVE FileInv'
  OBVIOUS
<1>0. /\ ProxyInv /\ FileInv
      /\ Len(file) \in Nat /\ Len(captured) \in Nat
      /\ handled \in Seq(Requests) /\ Len(handled) \in Nat
      /\ accepted \in Seq(Requests) /\ Len(accepted) \in Nat
  BY LenProperties DEF SelfInv, FileInv, ProxyInv, ProxyTypeOK
<1>1. CASE AppendInTest
  <2>1. /\ inHand \in Requests /\ handled' = Append(handled, inHand) /\ captured' = captured
        /\ accepted' = accepted /\ wpc = "append"
        /\ \/ file' = file /\ unended' = unended
           \/ unended' \in BOOLEAN /\ \E line \in {inHand, Torn} : file' = Written(line)
    BY <1>0, <1>1 DEF AppendInTest, AppendReturns, ProxyInv, ProxyTypeOK, chanVars
  <2>2. Len(handled') = Len(handled) + 1
    BY <1>0, <2>1, AppendProperties
  <2>3. inHand \in Members(accepted)
    BY <1>0, <2>1, HandledAccepted
  <2>4. CASE file' = file /\ unended' = unended
    BY <1>0, <2>1, <2>2, <2>4 DEF FileInv
  <2>5. ASSUME unended' \in BOOLEAN, NEW line \in {inHand, Torn}, file' = Written(line)
        PROVE  FileInv'
    <3>1. line \in Lines
      BY <2>1 DEF Lines
    <3>2. /\ file' \in Seq(Lines) /\ file' # <<>> /\ Len(file') <= Len(file) + 1
          /\ Whole(file') \subseteq Whole(file) \cup {line}
      BY <1>0, <2>5, <3>1, WrittenLine
    <3>3. Len(file') \in Nat
      BY <3>2, LenProperties
    <3>4. Len(file') <= Len(handled')
      BY <1>0, <2>2, <3>2, <3>3 DEF FileInv
    <3>5. Whole(file') \subseteq Members(accepted)
      BY <1>0, <2>3, <3>2 DEF FileInv, Whole
    <3> QED BY <1>0, <2>1, <2>5, <3>2, <3>4, <3>5 DEF FileInv
  <2> QED BY <2>1, <2>4, <2>5
<1>2. CASE ReadCapture
  <2>1. /\ UNCHANGED <<file, unended, handled, accepted>>
        /\ captured' = file \/ (wpc = "append" /\ \E line \in {inHand, Torn} : captured' = Written(line))
    BY <1>2 DEF ReadCapture, At, Judge, healthVars, proxyVars, chanVars, writerVars
  <2>2. CASE captured' = file
    BY <1>0, <2>1, <2>2, HandledAccepted DEF FileInv
  <2>3. ASSUME wpc = "append", NEW line \in {inHand, Torn}, captured' = Written(line)
        PROVE  FileInv'
    <3>1. line \in Lines
      BY <1>0, <2>3 DEF Lines, ProxyInv, ProxyTypeOK
    <3>2. /\ captured' \in Seq(Lines) /\ Len(captured') <= Len(file) + 1
          /\ Whole(captured') \subseteq Whole(file) \cup {line}
      BY <1>0, <2>3, <3>1, WrittenLine
    <3>3. inHand \in Members(accepted) /\ Len(handled) + 1 <= Len(accepted)
      BY <1>0, <2>3, HandledAccepted
    <3>4. Len(captured') \in Nat
      BY <3>2, LenProperties
    <3>5. Len(captured') <= Len(accepted)
      BY <1>0, <3>2, <3>3, <3>4 DEF FileInv
    <3>6. Whole(captured') \subseteq Members(accepted)
      BY <1>0, <3>2, <3>3 DEF FileInv, Whole
    <3> QED BY <1>0, <2>1, <3>2, <3>5, <3>6 DEF FileInv
  <2> QED BY <2>1, <2>2, <2>3
<1>3. CASE (TesterStep /\ ~ReadCapture) \/ ProxyInTest \/ UNCHANGED selfVars
  <2>1. UNCHANGED <<file, unended, handled, captured>>
    <3>1. CASE TesterStep /\ ~ReadCapture
      BY <3>1 DEF TesterStep, Setup, HealthOK, HealthTimesOut, RequestSucceeds, RequestFails,
                CaptureTimesOut, Verify, Ends, Goto, At, Judge, healthVars, proxyVars, writerVars
    <3>2. CASE ProxyInTest \/ UNCHANGED selfVars
      BY <3>2 DEF ProxyInTest, Count, Stamp, Answered, Recorded, serveHealth, LoadForwarded,
                LoadFailed, ReadStamps, Arrive, UpstreamFails, UpstreamResponds, RelayEnds,
                ContextCancels, BuildFails, Send, Receive, WriterEnds, RunStep, StartShutdown,
                ServeErrorSeen, ShutdownReturns, CloseChannel, Exit, Signal, ServeFails,
                testerVars, selfVars, healthVars, proxyVars, writerVars
    <3> QED BY <1>3, <3>1, <3>2
  <2>2. Members(accepted) \subseteq Members(accepted') /\ Len(accepted) <= Len(accepted')
    BY <1>0, AcceptedGrows
  <2>3. Len(accepted') \in Nat
    <3>1. accepted' \in Seq(Requests)
      BY <1>0, ProxyInvStep DEF ProxyInv, ProxyTypeOK
    <3> QED BY <3>1, LenProperties
  <2> QED BY <1>0, <2>1, <2>2, <2>3 DEF FileInv
<1> QED BY <1>1, <1>2, <1>3 DEF SelfNext

----------------------------------------------------------------------------
(* The tester *)

LEMMA OneRequestStep ==
  ASSUME ProxyInv, OneRequest, [SelfNext]_selfVars
  PROVE  OneRequest'
<1>1. useClaude' = useClaude
  BY DEF SelfNext, TesterStep, Setup, HealthOK, HealthTimesOut, RequestSucceeds, RequestFails,
         ReadCapture, CaptureTimesOut, Verify, Ends, Goto, At, Judge, ProxyInTest,
         AppendInTest, testerVars, selfVars
<1>2. CASE ~useClaude /\ \E r \in Requests : rpc[r] = "new" /\ MaySend(r) /\ Arrive(r)
  BY <1>1, <1>2 DEF OneRequest, MaySend, Arrive, Goes, ProxyInv, ProxyTypeOK
<1>3. CASE \A q \in Requests : rpc'[q] # "new" => rpc[q] # "new"
  BY <1>1, <1>3 DEF OneRequest
<1>4. \/ useClaude
      \/ \E r \in Requests : rpc[r] = "new" /\ MaySend(r) /\ Arrive(r)
      \/ \A q \in Requests : rpc'[q] # "new" => rpc[q] # "new"
  <2>1. CASE TesterStep \/ AppendInTest \/ UNCHANGED selfVars
    <3>1. rpc' = rpc
      BY <2>1 DEF TesterStep, Setup, HealthOK, HealthTimesOut, RequestSucceeds, RequestFails,
                  ReadCapture, CaptureTimesOut, Verify, Ends, Goto, At, Judge, AppendInTest,
                  AppendReturns, selfVars, healthVars, proxyVars
    <3> QED BY <3>1
  <2>2. CASE ProxyInTest
    <3>1. ASSUME NEW r \in Requests, rpc[r] = "new" => MaySend(r), Recorded(r)
          PROVE  \/ rpc[r] = "new" /\ MaySend(r) /\ Arrive(r)
                 \/ \A q \in Requests : rpc'[q] # "new" => rpc[q] # "new"
      BY <3>1 DEF Recorded, Arrive, UpstreamFails, RelayEnds, ContextCancels, BuildFails,
                  Send, Goes, ProxyInv, ProxyTypeOK
    <3>2. ASSUME NEW r \in Requests, Count(r) \/ Stamp(r) \/ Answered(r)
          PROVE  \A q \in Requests : rpc'[q] # "new" => rpc[q] # "new"
      BY <3>2 DEF Count, Stamp, Answered, UpstreamResponds, Goes, proxyVars, ProxyInv,
                  ProxyTypeOK
    <3>3. CASE serveHealth \/ Receive \/ WriterEnds \/ RunStep \/ Signal \/ ServeFails
      <4>1. rpc' = rpc
        BY <3>3 DEF serveHealth, LoadForwarded, LoadFailed, ReadStamps, Receive, WriterEnds,
                    RunStep, StartShutdown, ServeErrorSeen, ShutdownReturns, CloseChannel,
                    Exit, Signal, ServeFails, proxyVars
      <4> QED BY <4>1
    <3> QED BY <2>2, <3>1, <3>2, <3>3 DEF ProxyInTest
  <2> QED BY <2>1, <2>2 DEF SelfNext
<1> QED BY <1>1, <1>2, <1>3, <1>4 DEF OneRequest

\* The tester's own request is the one with a good answer, and a whole line is
\* its event.
LEMMA VerdictExplained ==
  ASSUME SelfInv, tester \in {"capture", "verify"}, ~useClaude, NEW m \in Whole(captured)
  PROVE  Succeeded(m)
<1>1. ProxyInv /\ FileInv /\ OneRequest /\ \E q \in Requests : Good(q)
  BY DEF SelfInv, TestInv
<1>2. PICK q \in Requests : Good(q)
  BY <1>1
<1>3. rpc[q] # "new"
  BY <1>1, <1>2, SentIsOver DEF Good
<1>4. m \in Requests /\ rpc[m] # "new"
  BY <1>1, SentIsOver DEF FileInv
<1> QED BY <1>1, <1>2, <1>3, <1>4 DEF OneRequest, Good, Succeeded

\* One request leaves one event at most.
LEMMA OneEvent ==
  ASSUME ProxyInv, OneRequest, ~useClaude
  PROVE  Len(accepted) <= 1
<1>1. Len(accepted) \in Nat /\ DOMAIN accepted = 1 .. Len(accepted)
  BY LenProperties DEF ProxyInv, ProxyTypeOK
<1>2. \A i \in DOMAIN accepted : accepted[i] \in Requests /\ rpc[accepted[i]] = "done"
  BY <1>1, ElementOfSeq DEF ProxyInv, ProxyTypeOK, OrderInv, EventsInOrder
<1>3. \A i, j \in DOMAIN accepted : i = j
  BY <1>2 DEF OneRequest, ProxyInv, OrderInv, EventsInOrder
<1>4. Len(accepted) > 1 => 1 \in DOMAIN accepted /\ 2 \in DOMAIN accepted
  BY <1>1
<1> QED BY <1>1, <1>3, <1>4

\* A step that is not the tester's leaves the verdict as true as it was.
LEMMA TestInvByProxy ==
  ASSUME SelfInv, [SelfNext]_selfVars, ProxyInTest \/ AppendInTest \/ UNCHANGED selfVars
  PROVE  TestInv'
<1>1. ProxyInv /\ FileInv /\ TestInv
  BY DEF SelfInv
<1>2. UNCHANGED <<tester, useClaude, captured, flaws, failedStep>>
  BY DEF ProxyInTest, AppendInTest, testerVars, selfVars
<1>3. \A m \in Requests : Good(m) => Good(m)'
  BY <1>1, GoodStays
<1>4. OneRequest'
  BY <1>1, OneRequestStep DEF TestInv
<1>5. Members(captured') = Members(captured)
  BY <1>2
<1>6. PassIsProven'
  BY <1>1, <1>2, <1>3, <1>5 DEF TestInv, PassIsProven
<1>7. FailureIsExplained'
  <2>1. refused \subseteq refused'
    BY RefusedOnArrival
  <2> QED BY <1>1, <1>2, <2>1 DEF TestInv, FailureIsExplained, Succeeded
<1>8. tester' = "verify" =>
        captured' # <<>> /\ \A n \in DOMAIN captured' : flaws'[n] \in Content(captured[n])'
  BY <1>1, <1>2 DEF TestInv, Content
<1> QED BY <1>1, <1>2, <1>3, <1>4, <1>6, <1>7, <1>8 DEF TestInv

\* The tester judges by what it has seen.
LEMMA TestInvByTester ==
  ASSUME SelfInv, [SelfNext]_selfVars, TesterStep
  PROVE  TestInv'
<1>1. ProxyInv /\ FileInv /\ TestInv
  BY DEF SelfInv
<1>2. UNCHANGED <<rpc, accepted, dropped, refused, useClaude>>
  BY DEF TesterStep, Setup, HealthOK, HealthTimesOut, RequestSucceeds, RequestFails,
         ReadCapture, CaptureTimesOut, Verify, Ends, Goto, At, Judge, healthVars, proxyVars,
         chanVars
<1>3. OneRequest'
  BY <1>1, OneRequestStep DEF TestInv
<1>4. \A m \in Requests : Good(m)' <=> Good(m)
  BY <1>2 DEF Good
<1>5. CASE Setup \/ HealthOK \/ HealthTimesOut \/ RequestFails
  <2>1. /\ tester \in {"setup", "health", "request"} /\ captured' = captured
        /\ \/ tester' \in {"health", "request"} /\ failedStep' = failedStep
           \/ tester' \in {"teardown", "ended"} /\ failedStep' \in {"setup", "health", "request"}
    BY <1>5 DEF Setup, HealthOK, HealthTimesOut, RequestFails, Goto, At, Judge
  <2> QED BY <1>1, <1>3, <1>4, <2>1 DEF TestInv, PassIsProven, FailureIsExplained
<1>6. CASE RequestSucceeds
  <2>1. /\ tester = "request" /\ tester' = "capture" /\ UNCHANGED <<captured, failedStep>>
        /\ \E m \in Requests : Good(m)
    BY <1>6 DEF RequestSucceeds, Goto, At
  <2> QED BY <1>1, <1>3, <1>4, <2>1 DEF TestInv, PassIsProven, FailureIsExplained
<1>7. CASE ReadCapture
  <2>1. /\ tester = "capture" /\ captured' # <<>>
        /\ \A n \in DOMAIN captured' : flaws'[n] \in Content(captured'[n])
        /\ (~useClaude /\ Len(captured') # 1) \/ (tester' = "verify" /\ failedStep' = failedStep)
    BY <1>7 DEF ReadCapture, At
  <2>2. ~useClaude => Len(captured') = 1
    <3>1. captured' \in Seq(Lines) /\ Len(captured') <= Len(accepted)
      BY <1>2, FileInvStep DEF FileInv
    <3>2. ASSUME ~useClaude PROVE Len(accepted) <= 1
      BY <1>1, <3>2, OneEvent DEF TestInv
    <3>3. Len(captured') \in Nat /\ Len(captured') # 0 /\ Len(accepted) \in Nat
      BY <1>1, <2>1, <3>1, LenProperties, EmptySeq DEF ProxyInv, ProxyTypeOK
    <3> DEFINE read == Len(captured') sent == Len(accepted)
    <3>4. sent <= 1 => read = 1
      <4>1. read \in Nat /\ read # 0 /\ sent \in Nat /\ read <= sent
        BY <3>1, <3>3
      <4> HIDE DEF read, sent
      <4> QED BY <4>1
    <3>5. ASSUME ~useClaude PROVE Len(captured') = 1
      <4>1. Len(accepted) <= 1
        BY <3>2, <3>5
      <4> QED BY <3>4, <4>1
    <3> QED BY <3>5
  <2>3. tester' = "verify" /\ failedStep' = "none"
    BY <1>1, <2>1, <2>2 DEF TestInv
  <2>4. \A n \in DOMAIN captured' : flaws'[n] \in Content(captured[n])'
    BY <1>2, <2>1 DEF Content
  <2> QED BY <1>1, <1>3, <1>4, <2>1, <2>3, <2>4 DEF TestInv, PassIsProven, FailureIsExplained
<1>8. CASE CaptureTimesOut
  <2>1. /\ tester = "capture" /\ captured' = captured /\ tester' = "teardown"
        /\ failedStep' = "capture"
    BY <1>8 DEF CaptureTimesOut, Judge
  <2> QED BY <1>1, <1>3, <1>4, <2>1 DEF TestInv, PassIsProven, FailureIsExplained
<1>9. CASE Verify
  <2>1. /\ tester = "verify" /\ tester' = "teardown" /\ UNCHANGED <<captured, flaws>>
        /\ captured # <<>> /\ captured \in Seq(Lines)
        /\ \A n \in DOMAIN captured : flaws[n] \in Content(captured[n])
    BY <1>1, <1>9 DEF Verify, Judge, TestInv, FileInv
  <2>2. \A n \in DOMAIN captured : captured[n] # Torn => captured[n] \in Whole(captured)
    BY DEF Whole, Members
  <2>3. CASE \E n \in DOMAIN captured : flaws[n] # "none"
    <3>1. failedStep' = "auth"
      BY <1>9, <2>3 DEF Verify, Judge
    <3>2. PICK n \in DOMAIN captured : flaws[n] # "none"
      BY <2>3
    <3>3. flaws[n] = "internal" => useClaude
      BY <2>1 DEF Content
    <3>4. FailureIsExplained'
      BY <1>2, <2>1, <3>2, <3>3 DEF FailureIsExplained
    <3> QED BY <1>1, <1>3, <1>4, <2>1, <3>1, <3>4 DEF TestInv, PassIsProven
  <2>4. CASE /\ \A n \in DOMAIN captured : flaws[n] = "none"
             /\ \E n \in DOMAIN captured : Succeeded(captured[n])
    <3>1. failedStep' = "none"
      BY <1>9, <2>4 DEF Verify, Judge
    <3>2. PICK n \in DOMAIN captured : Succeeded(captured[n])
      BY <2>4
    <3>3. captured[n] \in Requests /\ captured[n] # Torn
      BY <3>2, MsgsAssumption, NoneAssumption DEF Succeeded, Torn
    <3>4. captured[n] \in Members(accepted) /\ captured[n] \in Members(captured)
      BY <1>1, <2>2, <3>3 DEF FileInv, Whole
    <3>5. Good(captured[n])
      BY <3>2, <3>4 DEF Good, Succeeded
    <3>6. PassIsProven'
      BY <1>4, <2>1, <2>4, <3>3, <3>4, <3>5 DEF PassIsProven, Members
    <3> QED BY <1>1, <1>3, <1>4, <2>1, <3>1, <3>6 DEF TestInv, FailureIsExplained
  <2>5. CASE /\ \A n \in DOMAIN captured : flaws[n] = "none"
             /\ \A n \in DOMAIN captured : ~Succeeded(captured[n])
    <3>1. failedStep' = "auth"
      BY <1>9, <2>5 DEF Verify, Judge
    <3>2. \A n \in DOMAIN captured : captured[n] # Torn
      BY <2>1, <2>5 DEF Content
    <3>3. useClaude
      <4>1. 1 \in DOMAIN captured
        BY <2>1, EmptySeq, LenProperties
      <4> QED BY <2>1, <2>2, <2>5, <3>2, <4>1, VerdictExplained
    <3>4. FailureIsExplained'
      BY <1>2, <2>1, <2>5, <3>3 DEF FailureIsExplained, Succeeded
    <3> QED BY <1>1, <1>3, <1>4, <2>1, <3>1, <3>4 DEF TestInv, PassIsProven
  <2> QED BY <2>3, <2>4, <2>5
<1>10. CASE Ends
  <2>1. tester = "teardown" /\ tester' = "ended" /\ UNCHANGED <<captured, flaws, failedStep>>
    BY <1>10 DEF Ends, Goto, At
  <2>2. Members(captured') = Members(captured)
    BY <2>1
  <2> QED BY <1>1, <1>2, <1>3, <1>4, <2>1, <2>2
          DEF TestInv, PassIsProven, FailureIsExplained, Succeeded
<1> QED BY <1>5, <1>6, <1>7, <1>8, <1>9, <1>10 DEF TesterStep

LEMMA SelfInvHolds == SelfSpec => []SelfInv
<1>1. SelfInit => SelfInv
  <2>0. Len(<<>>) = 0
    BY EmptySeq
  <2>1. SelfInit => ProxyInv
    BY ProxyTypeInit, OrderInit DEF SelfInit, HealthInit, ProxyInv
  <2>2. <<>> \in Seq(Requests) /\ DOMAIN <<>> = {}
    BY EmptySeq
  <2>3. SelfInit => FileInv
    <3>1. <<>> \in Seq(Lines) /\ Whole(<<>>) = {}
      BY <2>2, EmptySeq DEF Whole, Members
    <3>2. SelfInit => /\ file = <<>> /\ captured = <<>> /\ handled = <<>>
                      /\ accepted = <<>> /\ unended = FALSE
      BY DEF SelfInit, HealthInit, ProxyInit
    <3>3. 0 <= 0
      OBVIOUS
    <3> QED BY <2>0, <3>1, <3>2, <3>3, Zenon DEF FileInv
  <2>4. SelfInit => TestInv
    BY <2>2 DEF SelfInit, HealthInit, ProxyInit, TestInv, OneRequest, Members, PassIsProven,
                FailureIsExplained
  <2> QED BY <2>1, <2>3, <2>4 DEF SelfInv
<1>2. SelfInv /\ [SelfNext]_selfVars => SelfInv'
  BY ProxyInvStep, FileInvStep, TestInvByProxy, TestInvByTester DEF SelfInv, SelfNext
<1> QED BY <1>1, <1>2, PTL DEF SelfSpec

----------------------------------------------------------------------------
\* A self-test that passes has had an answer for /v1/messages, its event is among
\* the lines that were read, and in none of these was a flaw found, whatever the
\* proxy was doing meanwhile (selftest.go:366-424).
THEOREM PassMeansCaptured == SelfSpec => []PassIsProven
<1>1. SelfInv => PassIsProven
  BY DEF SelfInv, TestInv
<1> QED BY <1>1, SelfInvHolds, PTL

\* After an exchange that succeeded the test of one request fails only for a file
\* that stayed empty or a flaw in its one line, never for a line too many or for
\* another request's event (selftest.go:375-423).
THEOREM FailureHasAReason == SelfSpec => []FailureIsExplained
<1>1. SelfInv => FailureIsExplained
  BY DEF SelfInv, TestInv
<1> QED BY <1>1, SelfInvHolds, PTL

----------------------------------------------------------------------------
(* The health page *)

\* HealthInv: the counters and timestamps against the history of outcomes, and
\* what the page in the making has seen of them.
HealthTypes ==
  /\ rpc \in [Requests -> InFlight \union {"new", "done", "panicked"}]
  /\ refused \subseteq Requests
  /\ rec \in [Requests -> {"none", "counted", "stamped"}]
  /\ forwardedTotal \in Nat /\ failedTotal \in Nat
  /\ outcomes \in Seq({"good", "bad"})
  /\ page \in [at : {"idle", "forwarded", "failed", "done"}, forwarded : Nat, failed : Nat,
               status : Statuses, true : SUBSET Statuses, mixed : BOOLEAN]

Happened(what) == \E n \in DOMAIN outcomes : outcomes[n] = what
Counted == {r \in Requests : rec[r] = "counted"}

\* A counter has left 0 when there is an outcome of its kind, or one is being
\* recorded; the request stays where it is until its record is complete.
RecordInv ==
  /\ \A r \in Counted : rpc[r] \in {"upstream", "send"}
  /\ forwardedTotal > 0 <=> Happened("good") \/ \E r \in Counted : ~Failed(r)
  /\ failedTotal > 0 <=> Happened("bad") \/ \E r \in Counted : Failed(r)

\* Comparing the timestamps tells the last outcome.
StampInv ==
  /\ lastErrorAt \in 0 .. Len(outcomes) /\ lastSuccessAt \in 0 .. Len(outcomes)
  /\ outcomes # <<>> => (lastErrorAt > lastSuccessAt <=> outcomes[Len(outcomes)] = "bad")

\* A page read while nothing moved has the counters as they are; counters that
\* were both read as 0 were 0 when the page was begun.
PageInv ==
  /\ Serving => StatusOf(outcomes) \in page.true
  /\ Serving /\ ~page.mixed => Counted = {} /\ page.forwarded = forwardedTotal
  /\ page.at = "failed" /\ ~page.mixed => page.failed = failedTotal
  /\ page.at = "forwarded" /\ page.forwarded = 0 /\ failedTotal = 0 => "ok" \in page.true
  /\ page.at = "failed" /\ page.forwarded = 0 /\ page.failed = 0 => "ok" \in page.true

RecordsInv == HealthTypes /\ RecordInv /\ StampInv
HealthInv == RecordsInv /\ PageInv /\ HealthIsTrue

\* What the actions of ProxyHealth change; the others leave its state alone.
HealthStep ==
  \/ \E r \in Requests : Count(r) \/ Stamp(r) \/ Answered(r) \/ Recorded(r)
  \/ serveHealth
  \/ UNCHANGED <<rpc, refused, counters, page>>

LEMMA StepOfHealth == [HealthNext]_healthVars \/ [SelfNext]_selfVars => HealthStep
<1>1. CASE [HealthNext]_healthVars
  BY <1>1 DEF HealthNext, HealthStep, healthVars, proxyVars, WriterStep, Receive, AppendReturns,
              WriterEnds, RunStep, StartShutdown, ServeErrorSeen, ShutdownReturns,
              CloseChannel, Exit, Signal, ServeFails
<1>2. CASE TesterStep
  BY <1>2 DEF TesterStep, Setup, HealthOK, HealthTimesOut, RequestSucceeds, RequestFails,
              ReadCapture, CaptureTimesOut, Verify, Ends, Goto, At, Judge, healthVars,
              proxyVars, HealthStep
<1>3. CASE ProxyInTest
  BY <1>3 DEF ProxyInTest, HealthStep, Receive, WriterEnds, RunStep, StartShutdown,
              ServeErrorSeen, ShutdownReturns, CloseChannel, Exit, Signal, ServeFails
<1>4. CASE AppendInTest
  BY <1>4 DEF AppendInTest, AppendReturns, HealthStep
<1>5. CASE UNCHANGED selfVars
  BY <1>5 DEF selfVars, healthVars, proxyVars, HealthStep
<1> QED BY <1>1, <1>2, <1>3, <1>4, <1>5 DEF SelfNext

\* What the page should say, by what happened and what happened last.
LEMMA StatusByOutcomes ==
  ASSUME HealthTypes
  PROVE  /\ StatusOf(outcomes) \in Statuses
         /\ outcomes = <<>> <=> ~Happened("good") /\ ~Happened("bad")
         /\ outcomes = <<>> => StatusOf(outcomes) = "ok"
         /\ outcomes # <<>> /\ ~Happened("good") => StatusOf(outcomes) = "failed"
         /\ Happened("good") /\ outcomes[Len(outcomes)] = "bad" => StatusOf(outcomes) = "degraded"
         /\ outcomes # <<>> /\ outcomes[Len(outcomes)] # "bad" => StatusOf(outcomes) = "ok"
<1>1. /\ outcomes \in Seq({"good", "bad"}) /\ Len(outcomes) \in Nat
      /\ DOMAIN outcomes = 1 .. Len(outcomes) /\ (outcomes = <<>> <=> Len(outcomes) = 0)
      /\ \A n \in 1 .. Len(outcomes) : outcomes[n] \in {"good", "bad"}
  BY ElementOfSeq, LenProperties, EmptySeq DEF HealthTypes
<1>2. Happened("good") <=> "good" \in {outcomes[n] : n \in DOMAIN outcomes}
  BY DEF Happened
<1>3. outcomes # <<>> => outcomes[Len(outcomes)] \in {"good", "bad"}
                         /\ Len(outcomes) \in DOMAIN outcomes
  BY <1>1
<1>4. outcomes = <<>> <=> ~Happened("good") /\ ~Happened("bad")
  BY <1>1, <1>3 DEF Happened
<1>5. outcomes # <<>> /\ outcomes[Len(outcomes)] # "bad" => Happened("good")
  BY <1>3 DEF Happened
<1> QED BY <1>2, <1>3, <1>4, <1>5 DEF StatusOf, Statuses

\* A request that moves on has no record half made.
LEMMA RecordsStay ==
  ASSUME RecordsInv, NEW q \in Requests, Answered(q) \/ Recorded(q)
  PROVE  RecordsInv' /\ UNCHANGED <<counters, page>>
<1>1. UNCHANGED <<counters, page>> /\ q \notin Counted
  BY DEF Answered, Recorded, UpstreamResponds, UpstreamFails, BuildFails, Send, Arrive,
         RelayEnds, ContextCancels, Goes, RecordsInv, RecordInv, Counted
<1>2. PICK to \in InFlight \union {"new", "done", "panicked"} : rpc' = [rpc EXCEPT ![q] = to]
  BY DEF Answered, Recorded, UpstreamResponds, UpstreamFails, BuildFails, Send, Arrive,
         RelayEnds, ContextCancels, Goes, InFlight
<1>3. refused' \in {refused, refused \union {q}}
  BY DEF Answered, Recorded
<1>4. HealthTypes'
  BY <1>1, <1>2, <1>3 DEF RecordsInv, HealthTypes, counters
<1>5. Counted' = Counted /\ \A r \in Counted : rpc'[r] = rpc[r] /\ (Failed(r)' <=> Failed(r))
  BY <1>1, <1>2, <1>3 DEF Counted, Failed, counters, RecordsInv, HealthTypes
<1>6. RecordInv'
  BY <1>1, <1>5 DEF RecordsInv, RecordInv, counters, Happened
<1>7. StampInv'
  BY <1>1 DEF RecordsInv, StampInv, counters
<1> QED BY <1>1, <1>4, <1>6, <1>7 DEF RecordsInv

LEMMA RecordsCount ==
  ASSUME RecordsInv, NEW q \in Requests, Count(q)
  PROVE  /\ RecordsInv' /\ Seen(outcomes) /\ outcomes' = outcomes
         /\ failedTotal' >= failedTotal
<1>1. /\ rec' = [rec EXCEPT ![q] = "counted"] /\ rpc[q] \in {"upstream", "send"}
      /\ UNCHANGED <<rpc, refused, lastErrorAt, lastSuccessAt, outcomes>> /\ Seen(outcomes)
  BY DEF Count, proxyVars
<1>2. /\ Failed(q) => failedTotal' = failedTotal + 1 /\ forwardedTotal' = forwardedTotal
      /\ ~Failed(q) => forwardedTotal' = forwardedTotal + 1 /\ failedTotal' = failedTotal
  BY DEF Count
<1>3. Counted' = Counted \union {q} /\ \A r \in Requests : Failed(r)' <=> Failed(r)
  BY <1>1 DEF Counted, Failed, RecordsInv, HealthTypes
<1>4. forwardedTotal \in Nat /\ failedTotal \in Nat
  BY DEF RecordsInv, HealthTypes
<1>5. page' \in [at : {"idle", "forwarded", "failed", "done"}, forwarded : Nat, failed : Nat,
                 status : Statuses, true : SUBSET Statuses, mixed : BOOLEAN]
  BY <1>1, StatusByOutcomes DEF Seen, RecordsInv, HealthTypes
<1>6. HealthTypes'
  BY <1>1, <1>2, <1>4, <1>5 DEF RecordsInv, HealthTypes
<1>7. Counted \subseteq Requests
  BY DEF Counted
<1>8. RecordInv'
  BY <1>1, <1>2, <1>3, <1>4, <1>7 DEF RecordsInv, RecordInv, Happened
<1>9. StampInv'
  BY <1>1 DEF RecordsInv, StampInv
<1> QED BY <1>1, <1>2, <1>4, <1>6, <1>8, <1>9 DEF RecordsInv

LEMMA RecordsStamp ==
  ASSUME RecordsInv, NEW q \in Requests, Stamp(q)
  PROVE  RecordsInv' /\ Seen(outcomes') /\ failedTotal' = failedTotal
<1> DEFINE kind == IF Failed(q) THEN "bad" ELSE "good"
<1>1. /\ rec[q] = "counted" /\ rec' = [rec EXCEPT ![q] = "stamped"] /\ Seen(outcomes')
      /\ outcomes' = Append(outcomes, kind)
      /\ UNCHANGED <<rpc, refused, forwardedTotal, failedTotal>>
  BY DEF Stamp, proxyVars
<1>2. /\ Failed(q) => lastErrorAt' = Len(outcomes') /\ lastSuccessAt' = lastSuccessAt
      /\ ~Failed(q) => lastSuccessAt' = Len(outcomes') /\ lastErrorAt' = lastErrorAt
  BY DEF Stamp
<1>3. kind \in {"good", "bad"} /\ (kind = "bad" <=> Failed(q))
  OBVIOUS
<1> HIDE DEF kind
<1>4. /\ outcomes' \in Seq({"good", "bad"}) /\ Len(outcomes) \in Nat
      /\ Len(outcomes') = Len(outcomes) + 1 /\ outcomes'[Len(outcomes')] = kind
      /\ \A n \in 1 .. Len(outcomes) : outcomes'[n] = outcomes[n]
      /\ DOMAIN outcomes = 1 .. Len(outcomes) /\ DOMAIN outcomes' = 1 .. Len(outcomes) + 1
  BY <1>1, <1>3, AppendProperties, LenProperties DEF RecordsInv, HealthTypes
<1>5. \A what : Happened(what)' <=> Happened(what) \/ what = kind
  BY <1>4 DEF Happened
<1>6. Counted' = Counted \ {q} /\ q \in Counted /\ \A r \in Requests : Failed(r)' <=> Failed(r)
  BY <1>1 DEF Counted, Failed, RecordsInv, HealthTypes
<1>7. page' \in [at : {"idle", "forwarded", "failed", "done"}, forwarded : Nat, failed : Nat,
                 status : Statuses, true : SUBSET Statuses, mixed : BOOLEAN]
  <2>1. StatusOf(outcomes') \in Statuses
    BY DEF StatusOf, Statuses
  <2> QED BY <1>1, <2>1 DEF Seen, RecordsInv, HealthTypes
<1>8. HealthTypes'
  BY <1>1, <1>4, <1>7 DEF RecordsInv, HealthTypes
<1>9. Counted \subseteq Requests
  BY DEF Counted
<1>10. RecordInv'
  BY <1>1, <1>3, <1>5, <1>6, <1>9 DEF RecordsInv, RecordInv
<1>11. StampInv'
  BY <1>2, <1>3, <1>4 DEF RecordsInv, StampInv
<1> QED BY <1>1, <1>8, <1>10, <1>11 DEF RecordsInv

\* A step that records something is seen by the page that is being made.
LEMMA PageSees ==
  ASSUME HealthInv, HealthTypes', Seen(outcomes'), failedTotal' >= failedTotal
  PROVE  PageInv' /\ HealthIsTrue'
<1>1. CASE Serving
  <2>1. page' = [page EXCEPT !.true = @ \union {StatusOf(outcomes')}, !.mixed = TRUE]
    BY <1>1 DEF Seen
  <2>2. /\ page'.at = page.at /\ page'.forwarded = page.forwarded /\ page'.failed = page.failed
        /\ page'.mixed /\ page'.true = page.true \union {StatusOf(outcomes')}
    BY <2>1 DEF HealthInv, RecordsInv, HealthTypes
  <2>3. failedTotal' = 0 => failedTotal = 0
    BY DEF HealthInv, RecordsInv, HealthTypes
  <2> QED BY <1>1, <2>2, <2>3 DEF HealthInv, PageInv, HealthIsTrue, Serving
<1>2. CASE ~Serving
  <2>1. page' = page
    BY <1>2 DEF Seen
  <2> QED BY <1>2, <2>1 DEF HealthInv, PageInv, HealthIsTrue, Serving
<1> QED BY <1>1, <1>2

\* What the counters and timestamps say when the page reads them.
LEMMA PageRead ==
  ASSUME HealthInv, serveHealth
  PROVE  HealthInv'
<1>1. UNCHANGED <<rpc, refused, counters>>
  BY DEF serveHealth, LoadForwarded, LoadFailed, ReadStamps, proxyVars
<1>2. UNCHANGED <<rec, forwardedTotal, failedTotal, lastSuccessAt, lastErrorAt, outcomes>>
  BY <1>1 DEF counters
<1>3. /\ RecordsInv /\ HealthTypes /\ RecordInv /\ StampInv
      /\ StatusOf(outcomes) \in Statuses
      /\ forwardedTotal \in Nat /\ failedTotal \in Nat
  BY StatusByOutcomes DEF HealthInv, RecordsInv, HealthTypes
<1>4. page' \in [at : {"idle", "forwarded", "failed", "done"}, forwarded : Nat, failed : Nat,
                 status : Statuses, true : SUBSET Statuses, mixed : BOOLEAN]
  <2>1. CASE LoadForwarded
    BY <1>3, <2>1 DEF LoadForwarded, Statuses
  <2>2. CASE LoadFailed
    BY <1>3, <2>2 DEF LoadFailed, HealthTypes
  <2>3. CASE ReadStamps
    <3>1. computeStatus(page.forwarded, page.failed) \in Statuses
      BY DEF computeStatus, Statuses
    <3> QED BY <1>3, <2>3, <3>1 DEF ReadStamps, HealthTypes
  <2> QED BY <2>1, <2>2, <2>3 DEF serveHealth
<1>5. RecordsInv'
  <2>1. HealthTypes'
    BY <1>1, <1>2, <1>3, <1>4 DEF HealthTypes
  <2>2. RecordInv' /\ StampInv'
    BY <1>1, <1>2, <1>3 DEF RecordInv, StampInv, Happened, Counted, Failed
  <2> QED BY <2>1, <2>2 DEF RecordsInv
<1>6. CASE LoadForwarded
  <2>1. /\ page'.at = "forwarded" /\ page'.forwarded = forwardedTotal
        /\ page'.true = {StatusOf(outcomes)}
        /\ page'.mixed = (\E r \in Requests : rec[r] = "counted")
    BY <1>6 DEF LoadForwarded
  <2>2. ~page'.mixed => Counted = {}
    BY <2>1 DEF Counted
  <2>3. forwardedTotal = 0 /\ failedTotal = 0 => StatusOf(outcomes) = "ok"
    BY <1>3, StatusByOutcomes DEF RecordInv
  <2>4. PageInv' /\ HealthIsTrue'
    BY <1>2, <2>1, <2>2, <2>3 DEF PageInv, HealthIsTrue, Serving, Counted
  <2> QED BY <1>5, <2>4 DEF HealthInv
<1>7. CASE LoadFailed
  <2>1. /\ page.at = "forwarded" /\ page'.at = "failed" /\ page'.failed = failedTotal
        /\ page'.forwarded = page.forwarded /\ page'.true = page.true
        /\ page'.mixed = page.mixed
    BY <1>3, <1>7 DEF LoadFailed, HealthTypes
  <2>2. PageInv' /\ HealthIsTrue'
    BY <1>2, <2>1 DEF HealthInv, PageInv, HealthIsTrue, Serving, Counted
  <2> QED BY <1>5, <2>2 DEF HealthInv
<1>8. CASE ReadStamps
  <2>1. /\ page.at = "failed" /\ page'.at = "done"
        /\ page'.status = computeStatus(page.forwarded, page.failed)
        /\ page'.true = page.true /\ page'.mixed = page.mixed
    BY <1>3, <1>8 DEF ReadStamps, HealthTypes
  <2>2. /\ StatusOf(outcomes) \in page.true /\ page.forwarded \in Nat /\ page.failed \in Nat
        /\ lastErrorAt \in Nat /\ lastSuccessAt \in Nat
        /\ page.forwarded = 0 /\ page.failed = 0 => "ok" \in page.true
    BY <1>3, <2>1 DEF HealthInv, PageInv, Serving, HealthTypes, StampInv
  <2>3. outcomes = <<>> => lastErrorAt = 0 /\ lastSuccessAt = 0
    BY <1>3 DEF StampInv
  <2>4. page'.status = "ok" => "ok" \in page.true
    <3>1. CASE page.forwarded = 0
      BY <2>1, <2>2, <3>1 DEF computeStatus
    <3>2. ASSUME page.forwarded # 0, page'.status = "ok" PROVE "ok" \in page.true
      <4>1. ~(lastErrorAt > lastSuccessAt)
        BY <2>1, <3>2 DEF computeStatus
      <4>2. outcomes # <<>> => outcomes[Len(outcomes)] # "bad"
        BY <1>3, <4>1 DEF StampInv
      <4> QED BY <1>3, <2>2, <4>2, StatusByOutcomes
    <3> QED BY <3>1, <3>2
  <2>5. ASSUME ~page.mixed PROVE page'.status = StatusOf(outcomes)
    <3>1. Counted = {} /\ page.forwarded = forwardedTotal /\ page.failed = failedTotal
      BY <2>1, <2>5 DEF HealthInv, PageInv, Serving
    <3>2. (forwardedTotal > 0 <=> Happened("good")) /\ (failedTotal > 0 <=> Happened("bad"))
      BY <1>3, <3>1 DEF RecordInv
    <3>3. CASE outcomes = <<>>
      <4>1. forwardedTotal = 0 /\ failedTotal = 0
        BY <1>3, <3>2, <3>3, StatusByOutcomes
      <4> QED BY <1>3, <2>1, <3>1, <3>3, <4>1, StatusByOutcomes DEF computeStatus
    <3>4. CASE outcomes # <<>> /\ ~Happened("good")
      <4>1. forwardedTotal = 0 /\ failedTotal # 0
        BY <1>3, <3>2, <3>4, StatusByOutcomes
      <4> QED BY <1>3, <2>1, <3>1, <3>4, <4>1, StatusByOutcomes DEF computeStatus
    <3>5. CASE outcomes # <<>> /\ Happened("good")
      <4>1. forwardedTotal # 0
        BY <1>3, <3>2, <3>5
      <4>2. lastErrorAt > lastSuccessAt <=> outcomes[Len(outcomes)] = "bad"
        BY <1>3, <3>5 DEF StampInv
      <4> QED BY <1>3, <2>1, <3>1, <3>5, <4>1, <4>2, StatusByOutcomes DEF computeStatus
    <3> QED BY <3>3, <3>4, <3>5
  <2>6. PageInv' /\ HealthIsTrue'
    BY <2>1, <2>2, <2>4, <2>5 DEF PageInv, HealthIsTrue, Serving
  <2> QED BY <1>5, <2>6 DEF HealthInv
<1> QED BY <1>6, <1>7, <1>8 DEF serveHealth

LEMMA HealthInvStep == HealthInv /\ HealthStep => HealthInv'
<1> SUFFICES ASSUME HealthInv, HealthStep PROVE HealthInv'
  OBVIOUS
<1>1. ASSUME NEW r \in Requests, Count(r) PROVE HealthInv'
  <2>1. RecordsInv' /\ Seen(outcomes') /\ failedTotal' >= failedTotal
    BY <1>1, RecordsCount DEF HealthInv
  <2>2. PageInv' /\ HealthIsTrue'
    BY <2>1, PageSees DEF RecordsInv
  <2> QED BY <2>1, <2>2 DEF HealthInv
<1>2. ASSUME NEW r \in Requests, Stamp(r) PROVE HealthInv'
  <2>1. RecordsInv' /\ Seen(outcomes') /\ failedTotal' = failedTotal /\ failedTotal \in Nat
    BY <1>2, RecordsStamp DEF HealthInv, RecordsInv, HealthTypes
  <2>2. PageInv' /\ HealthIsTrue'
    BY <2>1, PageSees DEF RecordsInv
  <2> QED BY <2>1, <2>2 DEF HealthInv
<1>3. ASSUME RecordsInv', UNCHANGED <<counters, page>> PROVE HealthInv'
  BY <1>3 DEF HealthInv, PageInv, HealthIsTrue, Serving, Counted, counters
<1>4. ASSUME NEW r \in Requests, Answered(r) \/ Recorded(r) PROVE HealthInv'
  BY <1>3, <1>4, RecordsStay DEF HealthInv
<1>5. CASE serveHealth
  BY <1>5, PageRead
<1>6. CASE UNCHANGED <<rpc, refused, counters, page>>
  <2>1. HealthTypes' /\ RecordInv' /\ StampInv'
    BY <1>6 DEF HealthInv, RecordsInv, HealthTypes, RecordInv, StampInv, Happened, Counted,
                Failed, counters
  <2> QED BY <1>3, <1>6, <2>1 DEF RecordsInv
<1> QED BY <1>1, <1>2, <1>4, <1>5, <1>6 DEF HealthStep

LEMMA HealthInvInit == HealthInit => HealthInv
<1> SUFFICES ASSUME HealthInit PROVE HealthInv
  OBVIOUS
<1>1. /\ rpc = [r \in Requests |-> "new"] /\ refused = {}
      /\ rec = [r \in Requests |-> "none"] /\ forwardedTotal = 0 /\ failedTotal = 0
      /\ lastSuccessAt = 0 /\ lastErrorAt = 0 /\ outcomes = <<>>
      /\ page = [at |-> "idle", forwarded |-> 0, failed |-> 0, status |-> "ok",
                 true |-> {}, mixed |-> FALSE]
  BY DEF HealthInit, ProxyInit
<1>2. outcomes \in Seq({"good", "bad"}) /\ Len(outcomes) = 0 /\ DOMAIN outcomes = {}
  BY <1>1, EmptySeq
<1>3. HealthTypes
  BY <1>1, <1>2 DEF HealthTypes, Statuses
<1>4. RecordInv /\ StampInv
  BY <1>1, <1>2 DEF RecordInv, StampInv, Happened, Counted
<1> QED BY <1>1, <1>3, <1>4 DEF HealthInv, RecordsInv, PageInv, HealthIsTrue, Serving

\* The health page never says "ok" of a proxy that was not ok while it was
\* read, and blames it wrongly only when a request was being recorded, in the
\* proxy by itself and in the one under test (health.go:58-66, 93-104).
THEOREM PageIsTrue == HealthSpec \/ SelfSpec => []HealthIsTrue
<1>1. HealthInv => HealthIsTrue
  BY DEF HealthInv
<1>2. HealthInv /\ [HealthNext]_healthVars => HealthInv'
  BY HealthInvStep, StepOfHealth
<1>3. HealthInv /\ [SelfNext]_selfVars => HealthInv'
  BY HealthInvStep, StepOfHealth
<1>4. SelfInit => HealthInit
  BY DEF SelfInit
<1> QED BY <1>1, <1>2, <1>3, <1>4, HealthInvInit, PTL DEF HealthSpec, SelfSpec

\* Keeping its record of outcomes and serving its health page the proxy is
\* still the proxy of ProxyCapture: it starts as that one does, and each of its
\* steps is one of that or a stutter (handler.go, health.go:28-66).
THEOREM HealthKeepsProxy == HealthSpec => ProxyInit /\ [][ProxyNext]_proxyVars
<1>1. HealthInit => ProxyInit
  BY DEF HealthInit
<1>2. [HealthNext]_healthVars => [ProxyNext]_proxyVars
  BY DEF HealthNext, healthVars, Count, Stamp, Answered, Recorded, serveHealth, LoadForwarded,
         LoadFailed, ReadStamps, ProxyNext, RequestStep
<1> QED BY <1>1, <1>2, PTL DEF HealthSpec

=============================================================================
