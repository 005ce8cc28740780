----------------------------- MODULE ModelCall -----------------------------
(***************************************************************************)
(* The processor of module Processor with the inside of its two calls per  *)
(* event: the model's client (src/internal/minimax/client.go,              *)
(* ollama/client.go, passthrough/client.go) and the row it writes          *)
(* (process/event_builder.go).                                             *)
(*                                                                         *)
(* The provider is a setting.  Each client is a restriction of MiniMax's:  *)
(* Ollama's makes one attempt, the passthrough one always answers.  The    *)
(* waits between attempts, and the spacing of calls, take no steps.        *)
(***************************************************************************)
EXTENDS Processor

CONSTANTS
  BadIds,       \* the events whose id is not a UUID
  MaxAttempts   \* maxAttempts of minimax/client.go

ASSUME CallAssumption == BadIds \subseteq Events /\ MaxAttempts \in Nat \ {0}

VARIABLES
  attempt,   \* the attempt of the call for the current event, from 1
  table      \* the rows, as the merges leave them

callVars == <<procVars, attempt, table>>

CallInit == ProcInit /\ attempt = 1 /\ table = {}

----------------------------------------------------------------------------
Retry_CountsFromOne ==
  /\ ppc = "denoise" /\ attempt < MaxAttempts
  /\ attempt' = IF attempt = 1 THEN 2 ELSE 1
  /\ UNCHANGED <<procVars, table>>

\* do: a transient status (500, 502, 503, 504, 529) is tried again after a
\* wait, but not for ever.
Retry ==
  /\ ppc = "denoise" /\ attempt < MaxAttempts
  /\ attempt' = attempt + 1
  /\ UNCHANGED <<procVars, table>>

\* The text of the answer holds a JSON object with what is asked for.
Answers == Denoise /\ attempt' = 1 /\ UNCHANGED table

\* It does not (ErrUnparseableModelOutput), or it is too late.
AnswerUnusable == DenoisePoison /\ attempt' = 1 /\ UNCHANGED table

\* Any other status, an error in the envelope of a 200, a connection that
\* fails and a transient status at the last attempt end the batch: Fault.
CallFails ==
  /\ ppc = "denoise" /\ Fault
  /\ attempt' = 1
  /\ UNCHANGED table

\* buildEvent keeps a UUID and replaces anything else by a fresh one, and
\* ClickHouse merges the rows of one id.
Rows(e) == {r \in table : r.event = e}

RowOf_FreshId(e) == [event |-> e, id |-> Cardinality(Rows(e)) + 1]

RowOf(e) == [event |-> e, id |-> IF e \in BadIds THEN Cardinality(Rows(e)) + 1 ELSE 0]

InsertRow ==
  /\ Insert
  /\ table' = table \cup {RowOf(Head(lines))}
  /\ UNCHANGED attempt

\* An insert that reports an error may have taken effect.
InsertFails ==
  /\ ppc = "insert" /\ Fault
  /\ table' \in {table, table \cup {RowOf(Head(lines))}}
  /\ rows' = {r.event : r \in table'}
  /\ UNCHANGED attempt

OtherFault == ppc \notin {"denoise", "insert"} /\ Fault /\ UNCHANGED <<attempt, table>>

CallKill == ProcKill /\ attempt' = 1 /\ UNCHANGED table

OtherStep ==
  /\ \/ Discover \/ EndTick \/ ListMachine \/ EndMachine \/ NextObject
     \/ Download \/ SkipCorrupt \/ SkipLine \/ LineTooLong \/ EndOfFile
     \/ CopyToArchive \/ RemoveRaw \/ AdvanceCursor
  /\ UNCHANGED <<attempt, table>>

CallStep == OtherStep \/ Retry \/ Answers \/ AnswerUnusable \/ InsertRow

CallNext ==
  \/ CallStep
  \/ CallFails \/ InsertFails \/ OtherFault \/ CallKill
  \/ (DownloadCut \/ \E m \in Machines : Upload(m)) /\ UNCHANGED <<attempt, table>>

\* The daemon is one goroutine that goes on while it can.
CallSpec == CallInit /\ [][CallNext]_callVars /\ WF_callVars(CallStep)

----------------------------------------------------------------------------
\* The lines of an event, in whatever objects it came.
Appearances(e) ==
  UNION {{<<o, n>> : n \in {i \in DOMAIN o.lines : o.lines[i] = e}} : o \in uploads}

\* An event with a proper id has one row however often its object is done
\* again.  One without has a row for each time a line of it was read: only
\* failures and kills make the daemon read an object again, and a line it can
\* never read, which adds a row in every tick (event_builder.go:80-88,
\* process.go:502-504, 609-614).
StoredOnce ==
  /\ rows = {r.event : r \in table}
  /\ \A e \in Events :
       \/ Cardinality(Rows(e)) <= (IF e \in BadIds
            THEN Cardinality(Appearances(e)) * (1 + faults + kills) ELSE 1)
       \/ e \in BadIds /\ \E a \in Appearances(e) : Stuck(a[1])

=============================================================================
