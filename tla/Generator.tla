----------------------------- MODULE Generator -----------------------------
(***************************************************************************)
(* The question generator (src/internal/generate/generate.go, Run): one    *)
(* cycle reads the decision-bearing events after its cursor, has a model   *)
(* make questions of them, inserts those as ready and moves the cursor.    *)
(*                                                                         *)
(* A cycle is a process started by a timer, by cron or by hand; nothing    *)
(* keeps two from overlapping, and each call it makes to ClickHouse, the   *)
(* model or SQLite is a step of its own here.  Capture times have units    *)
(* finer than a second, of which the cursor keeps whole seconds only       *)
(* (RFC3339 in db.go).  Questions stand in the order they were inserted.   *)
(* Events older than a month, which the query leaves out, are not modelled.*)
(* Which event a question names as its seed is stored and read by nobody,  *)
(* so a question is its text and its status here.                          *)
(***************************************************************************)
EXTENDS Naturals, Sequences, FiniteSets

CONSTANTS
  Runs,          \* the processes that may run a cycle
  Events,        \* the events with a decision
  Captured,      \* when each was captured, in the units of captured_at
  Second,        \* how many units make a second
  Limit,         \* events_per_generation
  Texts,         \* the questions a model may ask
  MaxReady,      \* max_ready_queue
  MaxQuestions,  \* bound: questions ever made
  MaxGenFaults   \* bound: failed calls, failed cycles and kills

ASSUME CapturedAssumption == Captured \in [Events -> Nat] /\ Second \in Nat \ {0}
ASSUME GenFiniteAssumption == IsFiniteSet(Runs) /\ IsFiniteSet(Events)
ASSUME GenBoundsAssumption ==
  /\ Limit \in Nat \ {0} /\ MaxReady \in Nat \ {0}
  /\ MaxQuestions \in Nat /\ MaxGenFaults \in Nat

VARIABLES
  stored,     \* the events in ClickHouse
  late,       \* those that came when the generator was past their time
  genCursor,  \* question_gen_cursor.last_event_ts
  covered,    \* the events of all cycles that moved the cursor
  questions,  \* pending_questions: what each asks, and its status
  planned,    \* questions the model made so far, those the filter kept
  longest,    \* the most of them in one answer of the model
  gpc,        \* where each run is in its cycle
  since,      \* the cursor each run read
  batch,      \* the events each run got from ClickHouse
  survivors,  \* the questions each run has left to insert, in their order
  genFaults

genVars == <<stored, late, genCursor, covered, questions, planned, longest,
             gpc, since, batch, survivors, genFaults>>

\* A question that was skipped or discarded is answered here.
Statuses == {"ready", "sent", "answered"}
Question == [text : Texts, status : Statuses]
New(x) == [text |-> x, status |-> "ready"]

Ready == {q \in DOMAIN questions : questions[q].status = "ready"}
WholeSecond(t) == t - (t % Second)
Newest(B) == {e \in B : \A f \in B : Captured[f] <= Captured[e]}

GenInit ==
  /\ stored = {} /\ late = {} /\ covered = {}
  /\ genCursor = 0
  /\ questions = <<>> /\ planned = 0 /\ longest = 0
  /\ gpc = [r \in Runs |-> "idle"]
  /\ since = [r \in Runs |-> 0]
  /\ batch = [r \in Runs |-> {}]
  /\ survivors = [r \in Runs |-> <<>>]
  /\ genFaults = 0

\* The processor stores an event, in any order of capture times.  It is late
\* if the cursor, or a cycle under way, has passed its time.
Arrive(e) ==
  /\ e \notin stored
  /\ stored' = stored \cup {e}
  /\ late' = IF \/ Captured[e] <= genCursor
                \/ \E r \in Runs : \/ Captured[e] <= since[r]
                                  \/ \E f \in batch[r] : Captured[e] <= Captured[f]
             THEN late \cup {e} ELSE late
  /\ UNCHANGED <<genCursor, covered, questions, planned, longest,
                 gpc, since, batch, survivors, genFaults>>

----------------------------------------------------------------------------
\* The cycle is over: nothing of the process is left.
Ends(r) ==
  /\ gpc' = [gpc EXCEPT ![r] = "idle"]
  /\ since' = [since EXCEPT ![r] = 0]
  /\ batch' = [batch EXCEPT ![r] = {}]
  /\ survivors' = [survivors EXCEPT ![r] = <<>>]

ReadCursor(r) ==
  /\ gpc[r] = "idle"
  /\ since' = [since EXCEPT ![r] = genCursor]
  /\ gpc' = [gpc EXCEPT ![r] = "query"]
  /\ UNCHANGED <<stored, late, genCursor, covered, questions, planned, longest,
                 batch, survivors, genFaults>>

After(t) == {e \in stored : Captured[e] > t}

QueryEvents_NewestFirst(r) ==
  /\ gpc[r] = "query"
  /\ After(since[r]) # {}
  /\ \E B \in SUBSET After(since[r]) :
       /\ Cardinality(B) = Limit \/ (B = After(since[r]) /\ Cardinality(B) < Limit)
       /\ \A e \in B, f \in After(since[r]) \ B : Captured[e] >= Captured[f]
       /\ batch' = [batch EXCEPT ![r] = B]
  /\ gpc' = [gpc EXCEPT ![r] = "count"]
  /\ UNCHANGED <<stored, late, genCursor, covered, questions, planned, longest,
                 since, survivors, genFaults>>

\* The oldest events after the cursor, at most Limit of them.
QueryEvents(r) ==
  /\ gpc[r] = "query"
  /\ After(since[r]) # {}
  /\ \E B \in SUBSET After(since[r]) :
       /\ Cardinality(B) = Limit \/ (B = After(since[r]) /\ Cardinality(B) < Limit)
       /\ \A e \in B, f \in After(since[r]) \ B : Captured[e] <= Captured[f]
       /\ batch' = [batch EXCEPT ![r] = B]
  /\ gpc' = [gpc EXCEPT ![r] = "count"]
  /\ UNCHANGED <<stored, late, genCursor, covered, questions, planned, longest,
                 since, survivors, genFaults>>

NothingNew(r) ==
  /\ gpc[r] = "query"
  /\ After(since[r]) = {}
  /\ Ends(r)
  /\ UNCHANGED <<stored, late, genCursor, covered, questions, planned, longest, genFaults>>

CountReady_Beyond(r) ==
  /\ gpc[r] = "count"
  /\ gpc' = [gpc EXCEPT ![r] = IF Cardinality(Ready) > MaxReady THEN "insert" ELSE "model"]
  /\ UNCHANGED <<stored, late, genCursor, covered, questions, planned, longest,
                 since, batch, survivors, genFaults>>

CountReady_Skips(r) ==
  /\ gpc[r] = "count"
  /\ IF Cardinality(Ready) >= MaxReady THEN Ends(r)
     ELSE /\ gpc' = [gpc EXCEPT ![r] = "model"]
          /\ UNCHANGED <<since, batch, survivors>>
  /\ UNCHANGED <<stored, late, genCursor, covered, questions, planned, longest, genFaults>>

\* Backpressure: with a full queue no question is made, but the cursor moves.
CountReady(r) ==
  /\ gpc[r] = "count"
  /\ gpc' = [gpc EXCEPT ![r] =
               IF Cardinality(Ready) >= MaxReady THEN "insert" ELSE "model"]
  /\ UNCHANGED <<stored, late, genCursor, covered, questions, planned, longest,
                 since, batch, survivors, genFaults>>

\* The model answers with an array of questions, as many as it likes whatever
\* the batch holds, and the filter keeps some.
Generate(r) ==
  /\ gpc[r] = "model"
  /\ \E n \in 0 .. MaxQuestions - planned :
       /\ \E kept \in [1 .. n -> Texts] : survivors' = [survivors EXCEPT ![r] = kept]
       /\ planned' = planned + n
       /\ longest' = IF n > longest THEN n ELSE longest
  /\ gpc' = [gpc EXCEPT ![r] = "insert"]
  /\ UNCHANGED <<stored, late, genCursor, covered, questions, since, batch, genFaults>>

InsertQuestion(r) ==
  /\ gpc[r] = "insert" /\ survivors[r] # <<>>
  /\ questions' = Append(questions, New(Head(survivors[r])))
  /\ survivors' = [survivors EXCEPT ![r] = Tail(@)]
  /\ UNCHANGED <<stored, late, genCursor, covered, planned, longest,
                 gpc, since, batch, genFaults>>

AdvanceGenCursor_DropsRest(r) ==
  /\ gpc[r] = "insert"
  /\ \E e \in Newest(batch[r]) : genCursor' = WholeSecond(Captured[e])
  /\ covered' = covered \cup batch[r]
  /\ Ends(r)
  /\ UNCHANGED <<stored, late, questions, planned, longest, genFaults>>

\* UpdateQuestionGenCursor writes the newest capture time of the batch, in
\* whole seconds, whatever the cursor is by now.
AdvanceGenCursor(r) ==
  /\ gpc[r] = "insert" /\ survivors[r] = <<>>
  /\ \E e \in Newest(batch[r]) : genCursor' = WholeSecond(Captured[e])
  /\ covered' = covered \cup batch[r]
  /\ Ends(r)
  /\ UNCHANGED <<stored, late, questions, planned, longest, genFaults>>

----------------------------------------------------------------------------
GenFault == genFaults < MaxGenFaults /\ genFaults' = genFaults + 1

\* The count fails: the cycle goes on without backpressure.
CountFails(r) ==
  /\ gpc[r] = "count"
  /\ GenFault
  /\ gpc' = [gpc EXCEPT ![r] = "model"]
  /\ UNCHANGED <<stored, late, genCursor, covered, questions, planned, longest,
                 since, batch, survivors>>

\* An insert fails: the question is dropped and the cycle goes on.
InsertFails(r) ==
  /\ gpc[r] = "insert" /\ survivors[r] # <<>>
  /\ GenFault
  /\ survivors' = [survivors EXCEPT ![r] = Tail(@)]
  /\ UNCHANGED <<stored, late, genCursor, covered, questions, planned, longest,
                 gpc, since, batch>>

\* The query, the model or the cursor's update fails, or the process dies.
CycleFails(r) ==
  /\ gpc[r] # "idle"
  /\ GenFault
  /\ Ends(r)
  /\ UNCHANGED <<stored, late, genCursor, covered, questions, planned, longest>>

CycleStep(r) ==
  \/ ReadCursor(r) \/ QueryEvents(r) \/ NothingNew(r) \/ CountReady(r)
  \/ Generate(r) \/ InsertQuestion(r) \/ AdvanceGenCursor(r)

Generating ==
  \/ \E e \in Events : Arrive(e)
  \/ \E r \in Runs : CycleStep(r) \/ CountFails(r) \/ InsertFails(r) \/ CycleFails(r)

\* What the delivery of questions (module QuestionQueue) is to the generator:
\* questions take another status, and none becomes ready.
Deliver ==
  /\ \E q \in DOMAIN questions, s \in Statuses \ {"ready"} :
       questions' = [questions EXCEPT ![q].status = s]
  /\ UNCHANGED <<stored, late, genCursor, covered, planned, longest,
                 gpc, since, batch, survivors, genFaults>>

GenNext == Generating \/ Deliver
GenSpec == GenInit /\ [][GenNext]_genVars

\* The timer starts the cycles again and again.
GenFairSpec == GenSpec /\ \A r \in Runs : WF_genVars(CycleStep(r))

----------------------------------------------------------------------------
\* The types, and that a cycle past its query has events to take the newest of
\* (generate.go:166-180).
GenTypeOK ==
  /\ stored \subseteq Events /\ late \subseteq stored /\ covered \subseteq stored
  /\ genCursor \in Nat
  /\ questions \in Seq(Question)
  /\ planned \in 0 .. MaxQuestions /\ longest \in 0 .. planned
  /\ gpc \in [Runs -> {"idle", "query", "count", "model", "insert"}]
  /\ since \in [Runs -> Nat]
  /\ batch \in [Runs -> SUBSET stored]
  /\ survivors \in [Runs -> Seq(Texts)]
  /\ genFaults \in 0 .. MaxGenFaults
  /\ \A r \in Runs : batch[r] # {} <=> gpc[r] \in {"count", "model", "insert"}
  /\ \A r \in Runs : survivors[r] # <<>> => gpc[r] = "insert"

\* A question that the filter kept is in the queue, or about to be inserted, or
\* was lost with a call that failed, as many at a time as one answer held: the
\* cursor moves on without it (generate.go:428-434, 436-445).
Inserting == UNION {{<<r, i>> : i \in 1 .. Len(survivors[r])} : r \in Runs}
QuestionsLostToFaults ==
  planned <= Len(questions) + Cardinality(Inserting) + longest * genFaults

\* The ready queue passes its limit by no more than one answer of the model for
\* each overlapping run, and for each count that failed: the count is made
\* before the answer, which may hold any number (generate.go:183-215).
ReadyBounded ==
  Cardinality(Ready) < MaxReady + longest * (Cardinality(Runs) + genFaults)

\* An event has the time of one that was looked at: the limit may cut between
\* the two.
Tied(e) == \E f \in covered : Captured[f] = Captured[e]

\* No event is passed over but those that came late, whatever runs overlap and
\* set the cursor back or forth (generate.go:149-159, 171-181).
PassedIsSeenOrLate ==
  \A e \in stored : Captured[e] <= genCursor => e \in covered \cup late \/ Tied(e)

\* Less than a batch of events in each second.
SparseSeconds ==
  \A e \in Events :
    Cardinality({f \in Events : WholeSecond(Captured[f]) = WholeSecond(Captured[e])}) < Limit

\* Every event is looked at in the end, a full queue or not: the cursor gets
\* past everything (generate.go:188-192), provided no second is so full of
\* events that the cursor stays in it.
EveryDecisionSeen ==
  SparseSeconds =>
    \A e \in Events : e \in stored ~> e \in covered \cup late \/ Tied(e)

----------------------------------------------------------------------------
\* What generate.go:145-146 says of the query, "Include milliseconds in the
\* literal so we don't re-emit the last second's events either": a cycle gets
\* no event that an earlier cycle is done with.
NothingReEmitted ==
  \A r \in Runs : gpc[r] = "count" => batch[r] \cap covered = {}

=============================================================================
