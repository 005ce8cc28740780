------------------------------ MODULE SelfTest ------------------------------
(***************************************************************************)
(* `marc proxy --self-test` (src/internal/selftest/selftest.go): it starts *)
(* a proxy of its own on a port of its own, with a capture file of its     *)
(* own, sends a request through it and judges what came out.               *)
(*                                                                         *)
(* The proxy is that of ProxyHealth, run in the same process: it lives     *)
(* between the tester's setup and its end.  With the Claude CLI the        *)
(* requests are the CLI's, of /v1/messages and others; with an API key or  *)
(* an upstream override there is one, the tester's.                        *)
(***************************************************************************)
EXTENDS ProxyHealth

CONSTANT Msgs   \* the requests for /v1/messages
ASSUME MsgsAssumption == Msgs \subseteq Requests

VARIABLES
  tester,      \* where the self-test is
  useClaude,   \* the CLI sends the requests
  file,        \* the lines of the test's capture file
  unended,     \* its last line has no end yet
  captured,    \* the lines the tester read of it
  flaws,       \* what it finds wrong in each of them, or "none"
  failedStep   \* FailedStep, or "none"

testerVars == <<tester, useClaude, file, unended, captured, flaws, failedStep>>
selfVars == <<healthVars, testerVars>>

SelfInit ==
  /\ HealthInit
  /\ tester = "setup" /\ useClaude \in BOOLEAN
  /\ file = <<>> /\ unended = FALSE
  /\ captured = <<>> /\ flaws = <<>> /\ failedStep = "none"

\* A line is the event of a request, or a part of one, or two run together.
Torn == None

\* The file after one more write of a line, or of a part of it.
Written(line) ==
  IF unended THEN [file EXCEPT ![Len(file)] = Torn] ELSE Append(file, line)

Members(s) == {s[n] : n \in DOMAIN s}

\* The client has the whole answer once the body is relayed, whatever the
\* handler still does; the upstream's status was 2xx.
Good(r) ==
  /\ r \in Msgs \ refused
  /\ \/ rpc[r] \in {"relay", "send", "panicked"}
     \/ r \in dropped \cup Members(accepted)

----------------------------------------------------------------------------
(* The tester *)

At(from) == tester = from /\ UNCHANGED <<healthVars, useClaude, file, unended>>

Goto(from, to) == At(from) /\ tester' = to /\ UNCHANGED <<captured, flaws, failedStep>>

\* cancel, then at most some seconds for the proxy to stop; Run's own context
\* may have been cancelled before.
Judge(step) ==
  /\ failedStep' = step /\ tester' = "teardown"
  /\ ctxDone' = TRUE
  /\ UNCHANGED <<rpc, cut, chanVars, writerVars, main, serveErr, stopped,
                 refused, counters, page, useClaude, file, unended>>

\* The CLI is not installed, or there is no directory or no port: nothing was
\* started.
Setup ==
  /\ At("setup") /\ UNCHANGED <<captured, flaws>>
  /\ \/ tester' = "health" /\ UNCHANGED failedStep
     \/ tester' = "ended" /\ failedStep' = "setup"

\* The poll of /_marc/health sees "ok", or its time is up.
HealthOK == page.at = "done" /\ page.status = "ok" /\ Goto("health", "request")
HealthTimesOut == tester = "health" /\ Judge("health") /\ UNCHANGED <<captured, flaws>>

\* The CLI exits 0, or the answer to the tester's request is a completion.
RequestSucceeds == (\E m \in Requests : Good(m)) /\ Goto("request", "capture")

\* The CLI or the request fails, or it is answered badly, or too late.
RequestFails == tester = "request" /\ Judge("request") /\ UNCHANGED <<captured, flaws>>

\* What may stand in a line: the headers of a request are the CLI's, the
\* bodies anyone's, and a key is given only without the CLI.
Content(line) ==
  IF line = Torn THEN {"corrupt"}
  ELSE {"none", "headerKey", IF useClaude THEN "internal" ELSE "apiKey"}

\* The poll of the capture file stops at the first read that is not empty,
\* which may see an append half done.  Only the CLI may have sent more than
\* one request.
ReadCapture ==
  /\ tester = "capture"
  /\ captured' \in {file} \cup
       (IF wpc = "append" THEN {Written(line) : line \in {inHand, Torn}} ELSE {})
  /\ captured' # <<>>
  /\ flaws' \in [DOMAIN captured' -> UNION {Content(captured'[n]) : n \in DOMAIN captured'}]
  /\ \A n \in DOMAIN captured' : flaws'[n] \in Content(captured'[n])
  /\ IF ~useClaude /\ Len(captured') # 1
     THEN Judge("capture")
     ELSE At("capture") /\ tester' = "verify" /\ UNCHANGED failedStep

CaptureTimesOut ==
  /\ tester = "capture" /\ file = <<>>
  /\ Judge("capture") /\ UNCHANGED <<captured, flaws>>

\* Every line is looked at, and one of them must be an event of /v1/messages
\* without an error.
Succeeded(line) == line \in Msgs \ refused

Verify_AnyEvent ==
  /\ tester = "verify"
  /\ Judge(IF \A n \in DOMAIN captured : flaws[n] = "none" THEN "none" ELSE "auth")
  /\ UNCHANGED <<captured, flaws>>

Verify ==
  /\ tester = "verify"
  /\ Judge(IF /\ \A n \in DOMAIN captured : flaws[n] = "none"
              /\ \E n \in DOMAIN captured : Succeeded(captured[n])
           THEN "none" ELSE "auth")
  /\ UNCHANGED <<captured, flaws>>

\* The proxy has stopped, or is left to the end of the process.
Ends == Goto("teardown", "ended")

TesterStep ==
  \/ Setup \/ HealthOK \/ HealthTimesOut \/ RequestSucceeds \/ RequestFails
  \/ ReadCapture \/ CaptureTimesOut \/ Verify \/ Ends

----------------------------------------------------------------------------
(* The proxy under test *)

MaySend_Retries(r) == tester = "request" /\ (useClaude \/ r \in Msgs)

\* The tester sends one request; the CLI what it likes, until it exits.
MaySend(r) ==
  /\ tester = "request"
  /\ \/ useClaude
     \/ r \in Msgs /\ \A q \in Requests : rpc[q] = "new"

Running == tester \notin {"setup", "ended"}

\* AppendEvent may fail, before it wrote anything or half way, and the event is
\* then only logged.
AppendInTest ==
  /\ Running /\ AppendReturns
  /\ \/ UNCHANGED <<file, unended>>
     \/ file' = Written(inHand) /\ unended' = FALSE
     \/ \E line \in {inHand, Torn} : file' = Written(line) /\ unended' = TRUE
  /\ UNCHANGED <<refused, counters, page, tester, useClaude, captured, flaws, failedStep>>

ProxyInTest ==
  /\ Running
  /\ \/ \E r \in Requests :
          \/ Count(r) \/ Stamp(r) \/ Answered(r)
          \/ (rpc[r] = "new" => MaySend(r)) /\ Recorded(r)
     \/ serveHealth
     \/ (Receive \/ WriterEnds \/ RunStep \/ Signal \/ ServeFails)
          /\ UNCHANGED <<refused, counters, page>>
  /\ UNCHANGED testerVars

SelfNext == TesterStep \/ ProxyInTest \/ AppendInTest

SelfSpec == SelfInit /\ [][SelfNext]_selfVars

----------------------------------------------------------------------------
(* Properties *)

\* A test that passes has seen the whole way: a completion of /v1/messages
\* came back to the client, and its event is among the lines that were read,
\* without an error; all of them are events, none is internal, and none shows
\* a header or the key (selftest.go:387-427; install's gate stands on it,
\* verify.go:39-52).
PassIsProven ==
  tester \in {"teardown", "ended"} /\ failedStep = "none" =>
    /\ \E m \in Requests : Good(m) /\ m \in Members(captured)
    /\ \A n \in DOMAIN captured : flaws[n] = "none"

\* After an exchange that succeeded, the tester's own request fails only if no
\* line at all came into the file in time, or if the one line that did is half
\* an event or shows a header or the key.  With the CLI a line can also be
\* internal, and the read can come before the event of the exchange is there
\* (selftest.go:364-427).
FailureIsExplained ==
  failedStep \in {"capture", "auth"} =>
    \/ captured = <<>>
    \/ \E n \in DOMAIN captured : flaws[n] # "none" /\ (flaws[n] = "internal" => useClaude)
    \/ useClaude /\ \A n \in DOMAIN captured : ~Succeeded(captured[n])

=============================================================================
