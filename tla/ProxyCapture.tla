---------------------------- MODULE ProxyCapture ----------------------------
(***************************************************************************)
(* The way of a captured event inside one life of `marc proxy`             *)
(* (src/internal/proxy): a request's goroutine relays the upstream's       *)
(* answer and then offers an event to a bounded channel, one writer        *)
(* goroutine appends what it receives to the capture file, and Run ends    *)
(* them all when the process is told to stop or cannot listen.             *)
(*                                                                         *)
(* An event is named by its request.  What AppendEvent does to the file is *)
(* module CaptureFile; here an append succeeds or fails.  Requests that    *)
(* capture nothing by design (the health page, unknown paths) are left out.*)
(***************************************************************************)
EXTENDS Naturals, Sequences, FiniteSets

CONSTANTS
  Requests,   \* the requests of this life
  ChanCap,    \* EventChanCap
  None        \* the writer holds no event

ASSUME ChanCapAssumption == ChanCap \in Nat \ {0}
ASSUME NoneAssumption == None \notin Requests

VARIABLES
  rpc,        \* where each request is
  cut,        \* requests whose exchange the cancelled context ended
  eventCh,    \* the events in the channel
  accepted,   \* history: the events the channel took, in order
  dropped,    \* requests whose event never came to the channel
  wpc,        \* where the writer is
  inHand,     \* the event the writer appends
  handled,    \* history: events appended or given up, in order
  main,       \* where Run is
  ctxDone,    \* SIGINT or SIGTERM came
  serveErr,   \* the server's accept loop failed
  stopped     \* how Run came out of its select, and then out of Shutdown

proxyVars == <<rpc, cut, eventCh, accepted, dropped, wpc, inHand,
               handled, main, ctxDone, serveErr, stopped>>
chanVars == <<eventCh, accepted, dropped>>
writerVars == <<wpc, inHand, handled>>
mainVars == <<main, ctxDone, serveErr, stopped>>

InFlight == {"upstream", "relay", "send"}
Alive == main # "exited"

\* close(eventCh) is what Run does last before it waits for the writer.
Closed == main \in {"wait", "exited"}

ProxyInit ==
  /\ rpc = [r \in Requests |-> "new"] /\ cut = {}
  /\ eventCh = <<>> /\ accepted = <<>> /\ dropped = {}
  /\ wpc = "select" /\ inHand = None /\ handled = <<>>
  /\ main = "serve" /\ ctxDone = FALSE /\ serveErr = FALSE /\ stopped = "no"

----------------------------------------------------------------------------
(* A request *)

Goes(r, from, to) ==
  /\ Alive /\ rpc[r] = from
  /\ rpc' = [rpc EXCEPT ![r] = to]

\* Reading the request counts as "upstream".  A failed accept loop leaves the
\* connections that are kept alive open, Shutdown does not.
Arrive(r) ==
  /\ stopped \in {"no", "error"}
  /\ Goes(r, "new", "upstream")
  /\ UNCHANGED <<cut, chanVars, writerVars, mainVars>>

\* The body cannot be read, the upstream cannot be reached or the client left.
UpstreamFails(r) ==
  /\ Goes(r, "upstream", "done")
  /\ UNCHANGED <<cut, chanVars, writerVars, mainVars>>

UpstreamResponds(r) ==
  /\ Goes(r, "upstream", "relay")
  /\ UNCHANGED <<cut, chanVars, writerVars, mainVars>>

\* The body is relayed to its end, or to an error: both go on to the event.
RelayEnds(r) ==
  /\ Goes(r, "relay", "send")
  /\ UNCHANGED <<cut, chanVars, writerVars, mainVars>>

\* Every request's context descends from the one the signal cancels: the
\* exchange with the upstream fails wherever it stands.
ContextCancels(r) ==
  /\ ctxDone
  /\ \/ Goes(r, "upstream", "done")
     \/ Goes(r, "relay", "send")
  /\ cut' = cut \union {r}
  /\ UNCHANGED <<chanVars, writerVars, mainVars>>

Send_NoLimit(r) ==
  /\ Goes(r, "send", IF Closed THEN "panicked" ELSE "done")
  /\ eventCh' = IF Closed THEN eventCh ELSE Append(eventCh, r)
  /\ accepted' = IF Closed THEN accepted ELSE Append(accepted, r)
  /\ UNCHANGED <<dropped, cut, writerVars, mainVars>>

Send_DropsOldest(r) ==
  /\ Goes(r, "send", "done")
  /\ eventCh' = Append(IF Len(eventCh) < ChanCap THEN eventCh ELSE Tail(eventCh), r)
  /\ accepted' = Append(accepted, r)
  /\ UNCHANGED <<dropped, cut, writerVars, mainVars>>

\* sendEvent: the request is over for its client and must not wait here.
\* A closed channel panics, also in a select with a default.
Send(r) ==
  /\ \/ /\ Closed
        /\ Goes(r, "send", "panicked")
        /\ UNCHANGED chanVars
     \/ /\ ~Closed /\ Len(eventCh) < ChanCap
        /\ Goes(r, "send", "done")
        /\ eventCh' = Append(eventCh, r)
        /\ accepted' = Append(accepted, r)
        /\ UNCHANGED dropped
     \/ /\ ~Closed /\ Len(eventCh) >= ChanCap
        /\ Goes(r, "send", "done")
        /\ dropped' = dropped \union {r}
        /\ UNCHANGED <<eventCh, accepted>>
  /\ UNCHANGED <<cut, writerVars, mainVars>>

\* buildCaptureEvent finds no random bytes for an id: no event is sent.
BuildFails(r) ==
  /\ Goes(r, "send", "done")
  /\ dropped' = dropped \union {r}
  /\ UNCHANGED <<eventCh, accepted, cut, writerVars, mainVars>>

RequestStep(r) ==
  Arrive(r) \/ UpstreamFails(r) \/ UpstreamResponds(r) \/ RelayEnds(r)
    \/ ContextCancels(r) \/ BuildFails(r) \/ Send(r)

----------------------------------------------------------------------------
(* The writer *)

Receive ==
  /\ Alive /\ wpc = "select" /\ eventCh # <<>>
  /\ inHand' = Head(eventCh) /\ eventCh' = Tail(eventCh)
  /\ wpc' = "append"
  /\ UNCHANGED <<rpc, cut, accepted, dropped, handled, mainVars>>

\* AppendEvent returns; an error is logged and the event given up.
AppendReturns ==
  /\ Alive /\ wpc = "append"
  /\ handled' = Append(handled, inHand)
  /\ inHand' = None /\ wpc' = "select"
  /\ UNCHANGED <<rpc, cut, chanVars, mainVars>>

WriterEnds_OnCancel ==
  /\ Alive /\ wpc = "select"
  /\ \/ Closed /\ eventCh = <<>>
     \/ ctxDone
  /\ wpc' = "done"
  /\ UNCHANGED <<rpc, cut, chanVars, inHand, handled, mainVars>>

\* A receive from a closed channel fails only once it is empty.  The branch
\* of the cancelled context does nothing, and the loop selects again.
WriterEnds ==
  /\ Alive /\ wpc = "select"
  /\ Closed /\ eventCh = <<>>
  /\ wpc' = "done"
  /\ UNCHANGED <<rpc, cut, chanVars, inHand, handled, mainVars>>

WriterStep == Receive \/ AppendReturns \/ WriterEnds

----------------------------------------------------------------------------
(* Run *)

Signal ==
  /\ Alive /\ ~ctxDone
  /\ ctxDone' = TRUE
  /\ UNCHANGED <<rpc, cut, chanVars, writerVars, main, serveErr, stopped>>

ServeFails ==
  /\ main = "serve" /\ ~serveErr
  /\ serveErr' = TRUE
  /\ UNCHANGED <<rpc, cut, chanVars, writerVars, main, ctxDone, stopped>>

StartShutdown_ClosesOnly ==
  /\ main = "serve" /\ ctxDone
  /\ main' = "close" /\ stopped' = "asked"
  /\ UNCHANGED <<rpc, cut, chanVars, writerVars, ctxDone, serveErr>>

StartShutdown ==
  /\ main = "serve" /\ ctxDone
  /\ main' = "shutdown" /\ stopped' = "asked"
  /\ UNCHANGED <<rpc, cut, chanVars, writerVars, ctxDone, serveErr>>

\* The other branch of Run's select: no Shutdown, whatever is in flight.
ServeErrorSeen ==
  /\ main = "serve" /\ serveErr
  /\ main' = "wait" /\ stopped' = "error"
  /\ UNCHANGED <<rpc, cut, chanVars, writerVars, ctxDone, serveErr>>

ShutdownReturns_Forever ==
  /\ main = "shutdown"
  /\ \A r \in Requests : rpc[r] \notin InFlight
  /\ main' = "close" /\ stopped' = "drained"
  /\ UNCHANGED <<rpc, cut, chanVars, writerVars, ctxDone, serveErr>>

\* Shutdown waits for the requests in flight, or for its 30 seconds.
ShutdownReturns ==
  /\ main = "shutdown"
  /\ main' = "close"
  /\ \/ (\A r \in Requests : rpc[r] \notin InFlight) /\ stopped' = "drained"
     \/ stopped' = "timeout"
  /\ UNCHANGED <<rpc, cut, chanVars, writerVars, ctxDone, serveErr>>

CloseChannel ==
  /\ main = "close"
  /\ main' = "wait"
  /\ UNCHANGED <<rpc, cut, chanVars, writerVars, ctxDone, serveErr, stopped>>

\* <-writerDone; the process ends, and with it the handlers still running.
Exit ==
  /\ main = "wait" /\ wpc = "done"
  /\ main' = "exited"
  /\ UNCHANGED <<rpc, cut, chanVars, writerVars, ctxDone, serveErr, stopped>>

RunStep == StartShutdown \/ ServeErrorSeen \/ ShutdownReturns \/ CloseChannel \/ Exit

ProxyNext ==
  (\E r \in Requests : RequestStep(r)) \/ WriterStep \/ RunStep
    \/ Signal \/ ServeFails

\* Goroutines that can run are run.  Nothing is assumed of clients and
\* upstreams: an exchange may last for ever.
ProxyFairness == WF_proxyVars(WriterStep) /\ WF_proxyVars(RunStep)

ProxySpec == ProxyInit /\ [][ProxyNext]_proxyVars /\ ProxyFairness

----------------------------------------------------------------------------
(* Properties *)

\* The types; only the writer's "append" holds an event, and the channel has
\* its bound (proxy.go:134-139).
ProxyTypeOK ==
  /\ rpc \in [Requests -> InFlight \union {"new", "done", "panicked"}]
  /\ cut \subseteq Requests /\ dropped \subseteq Requests
  /\ eventCh \in Seq(Requests) /\ Len(eventCh) <= ChanCap
  /\ accepted \in Seq(Requests) /\ handled \in Seq(Requests)
  /\ wpc \in {"select", "append", "done"}
  /\ inHand \in Requests \union {None} /\ (inHand # None <=> wpc = "append")
  /\ main \in {"serve", "shutdown", "close", "wait", "exited"}
  /\ ctxDone \in BOOLEAN /\ serveErr \in BOOLEAN
  /\ stopped \in {"no", "asked", "drained", "timeout", "error"}

\* An event is taken once, at the end of its request, and its way through
\* channel and writer neither loses, repeats nor reorders it
\* (proxy.go:222-232, writer.go:26-47).
InHand == IF inHand = None THEN <<>> ELSE <<inHand>>
EventsInOrder ==
  /\ accepted = handled \o InHand \o eventCh
  /\ \A i, j \in DOMAIN accepted : accepted[i] = accepted[j] => i = j
  /\ \A i \in DOMAIN accepted :
       rpc[accepted[i]] = "done" /\ accepted[i] \notin dropped

\* The process does not end before every event the channel took has been
\* offered to the capture file, however it came to end (proxy.go:194-213).
NothingLeftBehind == main = "exited" => handled = accepted

\* A request runs into the closed channel only after the grace time, or when
\* the listener failed and Run did not wait for anyone (proxy.go:191-212).
PanicsExplained ==
  (\E r \in Requests : rpc[r] = "panicked") => stopped \in {"timeout", "error"}

\* Told to stop, the process stops, with requests that never end and a
\* writer that lags behind (proxy.go:203-216, writer.go:42-44).
ShutdownTerminates == ctxDone ~> main = "exited"

=============================================================================
