---------------------------- MODULE ProxyHealth ----------------------------
(***************************************************************************)
(* The proxy with its health page (src/internal/proxy/health.go, and the   *)
(* calls of recordSuccess and recordFailure in handler.go).                *)
(*                                                                         *)
(* A request records how it went in two steps, an atomic counter and then  *)
(* a timestamp under a lock, before its event is sent.  The page reads the *)
(* two counters and the timestamps in three steps.  A timestamp is the     *)
(* number of timestamps given before it: they are taken under the lock.    *)
(***************************************************************************)
EXTENDS ProxyCapture

VARIABLES
  refused,        \* requests the upstream answered with a status out of 2xx
  rec,            \* how far each request is with its record
  forwardedTotal, failedTotal,
  lastSuccessAt, lastErrorAt,
  outcomes,       \* history: the outcomes in the order of their timestamps
  page            \* the health request being served, or the last one

counters == <<rec, forwardedTotal, failedTotal, lastSuccessAt, lastErrorAt, outcomes>>
healthVars == <<proxyVars, refused, counters, page>>

Statuses == {"ok", "degraded", "failed"}

\* What the page should say of a history (health.go:87-92).
StatusOf(h) ==
  IF h = <<>> THEN "ok"
  ELSE IF "good" \notin {h[n] : n \in DOMAIN h} THEN "failed"
  ELSE IF h[Len(h)] = "bad" THEN "degraded" ELSE "ok"

HealthInit ==
  /\ ProxyInit
  /\ refused = {}
  /\ rec = [r \in Requests |-> "none"]
  /\ forwardedTotal = 0 /\ failedTotal = 0
  /\ lastSuccessAt = 0 /\ lastErrorAt = 0 /\ outcomes = <<>>
  /\ page = [at |-> "idle", forwarded |-> 0, failed |-> 0, status |-> "ok",
             true |-> {}, mixed |-> FALSE]

----------------------------------------------------------------------------
(* recordSuccess and recordFailure *)

Serving == page.at \notin {"idle", "done"}
\* History: what held, and whether anything moved, while the page was read.
Seen(h) == page' = IF Serving
                   THEN [page EXCEPT !.true = @ \cup {StatusOf(h)}, !.mixed = TRUE]
                   ELSE page

\* Without an answer of the upstream a request has failed where it stands;
\* with one, its status decides, however the relay ended.
Failed(r) == rpc[r] = "upstream" \/ r \in refused

Count(r) ==
  /\ Alive /\ rpc[r] \in {"upstream", "send"} /\ rec[r] = "none"
  /\ rec' = [rec EXCEPT ![r] = "counted"]
  /\ IF Failed(r)
     THEN failedTotal' = failedTotal + 1 /\ UNCHANGED forwardedTotal
     ELSE forwardedTotal' = forwardedTotal + 1 /\ UNCHANGED failedTotal
  /\ Seen(outcomes)
  /\ UNCHANGED <<proxyVars, refused, lastSuccessAt, lastErrorAt, outcomes>>

Stamp(r) ==
  /\ Alive /\ rec[r] = "counted"
  /\ rec' = [rec EXCEPT ![r] = "stamped"]
  /\ outcomes' = Append(outcomes, IF Failed(r) THEN "bad" ELSE "good")
  /\ IF Failed(r)
     THEN lastErrorAt' = Len(outcomes') /\ UNCHANGED lastSuccessAt
     ELSE lastSuccessAt' = Len(outcomes') /\ UNCHANGED lastErrorAt
  /\ Seen(outcomes')
  /\ UNCHANGED <<proxyVars, refused, forwardedTotal, failedTotal>>

\* The steps of ProxyCapture in their order with the record.
Answered(r) ==
  /\ rec[r] = "none" /\ UpstreamResponds(r)
  /\ refused' \in {refused, refused \cup {r}}
  /\ UNCHANGED <<counters, page>>

Recorded(r) ==
  /\ \/ rec[r] = "stamped" /\ (UpstreamFails(r) \/ BuildFails(r) \/ Send(r))
     \/ Arrive(r) \/ RelayEnds(r)
     \/ (rpc[r] = "upstream" => rec[r] = "stamped") /\ ContextCancels(r)
  /\ UNCHANGED <<refused, counters, page>>

----------------------------------------------------------------------------
(* serveHealth *)

LoadForwarded ==
  /\ Alive /\ stopped \in {"no", "error"} /\ ~Serving
  /\ page' = [at |-> "forwarded", forwarded |-> forwardedTotal, failed |-> 0,
              status |-> "ok", true |-> {StatusOf(outcomes)},
              mixed |-> \E r \in Requests : rec[r] = "counted"]
  /\ UNCHANGED <<proxyVars, refused, counters>>

LoadFailed ==
  /\ Alive /\ page.at = "forwarded"
  /\ page' = [page EXCEPT !.at = "failed", !.failed = failedTotal]
  /\ UNCHANGED <<proxyVars, refused, counters>>

computeStatus_NoTrafficLast(forwarded, failed) ==
  IF lastErrorAt > lastSuccessAt THEN "degraded"
  ELSE IF forwarded = 0 /\ failed # 0 THEN "failed" ELSE "ok"

computeStatus(forwarded, failed) ==
  IF forwarded = 0 THEN (IF failed = 0 THEN "ok" ELSE "failed")
  ELSE IF lastErrorAt > lastSuccessAt THEN "degraded" ELSE "ok"

\* The timestamps are read together, under the lock.
ReadStamps ==
  /\ Alive /\ page.at = "failed"
  /\ page' = [page EXCEPT !.at = "done",
                          !.status = computeStatus(page.forwarded, page.failed)]
  /\ UNCHANGED <<proxyVars, refused, counters>>

serveHealth == LoadForwarded \/ LoadFailed \/ ReadStamps

----------------------------------------------------------------------------
HealthNext ==
  \/ \E r \in Requests : Count(r) \/ Stamp(r) \/ Answered(r) \/ Recorded(r)
  \/ serveHealth
  \/ (WriterStep \/ RunStep \/ Signal \/ ServeFails)
       /\ UNCHANGED <<refused, counters, page>>

HealthSpec == HealthInit /\ [][HealthNext]_healthVars

\* The page never says "ok" of a proxy that was not ok at any moment while the
\* page was read, and it says "degraded" or "failed" wrongly only when a
\* request was being recorded meanwhile (health.go:58-66, 93-104).
HealthIsTrue ==
  page.at = "done" =>
    page.status \in page.true \/ (page.status # "ok" /\ page.mixed)

=============================================================================
