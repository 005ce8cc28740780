--------------------------- MODULE QuestionQueue ---------------------------
(***************************************************************************)
(* The delivery of the questions the generator made                        *)
(* (src/scripts/marc-bot-tick.py): a tick of cron picks the oldest ready   *)
(* question, sends it to Telegram and marks it as sent.  Ticks overlap     *)
(* when one waits for Telegram or for the database, and a user may answer  *)
(* as soon as the message is there.  The handler of the answers is not in  *)
(* this repository: CHANGELOG.md says what it does to the database.        *)
(***************************************************************************)
EXTENDS Generator

CONSTANTS
  Ticks,          \* the processes that may run a tick
  Refused,        \* the questions that Telegram refuses to send
  None,           \* no question
  MaxTickFaults   \* bound: failed requests and kills of ticks

ASSUME QueueAssumption ==
  /\ IsFiniteSet(Ticks) /\ None \notin Nat
  /\ Refused \subseteq Texts /\ MaxTickFaults \in Nat

VARIABLES
  tpc,        \* where each tick is
  picked,     \* the question it has read, or None
  messages,   \* how many messages Telegram has, of each question
  answers,    \* how many answers were recorded, of each question
  tickFaults

tickVars == <<tpc, picked, messages, answers, tickFaults>>
queueVars == <<genVars, tickVars>>

QueueInit ==
  /\ GenInit
  /\ tpc = [t \in Ticks |-> "idle"]
  /\ picked = [t \in Ticks |-> None]
  /\ messages = [q \in 1 .. MaxQuestions |-> 0]
  /\ answers = [q \in 1 .. MaxQuestions |-> 0]
  /\ tickFaults = 0

\* The rest of the database, and of the generator, is left alone.
OnlyQuestions ==
  UNCHANGED <<stored, late, genCursor, covered, planned, longest,
              gpc, since, batch, survivors, genFaults>>

TickEnds(t) ==
  /\ tpc' = [tpc EXCEPT ![t] = "idle"]
  /\ picked' = [picked EXCEPT ![t] = None]

----------------------------------------------------------------------------
PickOldest_Unanswered(t) ==
  /\ tpc[t] = "idle"
  /\ \E q \in DOMAIN questions :
       /\ questions[q].status \in {"ready", "sent"}
       /\ picked' = [picked EXCEPT ![t] = q]
  /\ tpc' = [tpc EXCEPT ![t] = "send"]
  /\ UNCHANGED <<genVars, messages, answers, tickFaults>>

PickOldest_Unchecked(t) ==
  /\ tpc[t] = "idle"
  /\ picked' = [picked EXCEPT ![t] = IF Ready = {} THEN None ELSE CHOOSE q \in Ready : TRUE]
  /\ tpc' = [tpc EXCEPT ![t] = "send"]
  /\ UNCHANGED <<genVars, messages, answers, tickFaults>>

PickOldest_NewestFirst(t) ==
  /\ tpc[t] = "idle"
  /\ \E q \in Ready :
       /\ \A p \in Ready : q >= p
       /\ picked' = [picked EXCEPT ![t] = q]
  /\ tpc' = [tpc EXCEPT ![t] = "send"]
  /\ UNCHANGED <<genVars, messages, answers, tickFaults>>

\* The first ready row; with none the tick ends as it began.
PickOldest(t) ==
  /\ tpc[t] = "idle"
  /\ \E q \in Ready :
       /\ \A p \in Ready : q <= p
       /\ picked' = [picked EXCEPT ![t] = q]
  /\ tpc' = [tpc EXCEPT ![t] = "send"]
  /\ UNCHANGED <<genVars, messages, answers, tickFaults>>

\* Telegram has the message.
Delivered(q) == messages' = [messages EXCEPT ![q] = @ + 1]

SendQuestion(t) ==
  /\ tpc[t] = "send"
  /\ questions[picked[t]].text \notin Refused
  /\ Delivered(picked[t])
  /\ tpc' = [tpc EXCEPT ![t] = "mark"]
  /\ UNCHANGED <<genVars, picked, answers, tickFaults>>

\* Telegram says no, and will say no again: the row stays ready.
SendRefused(t) ==
  /\ tpc[t] = "send"
  /\ questions[picked[t]].text \in Refused
  /\ TickEnds(t)
  /\ UNCHANGED <<genVars, messages, answers, tickFaults>>

MarkSent_TriesAgain(t) ==
  /\ tpc[t] = "mark"
  /\ questions' = [questions EXCEPT ![picked[t]].status = "sent"]
  /\ UNCHANGED <<tpc, picked, messages, answers, tickFaults>> /\ OnlyQuestions

\* The row is sent now, whatever it was.
MarkSent(t) ==
  /\ tpc[t] = "mark"
  /\ questions' = [questions EXCEPT ![picked[t]].status = "sent"]
  /\ TickEnds(t)
  /\ UNCHANGED <<messages, answers, tickFaults>> /\ OnlyQuestions

TickFails_Requeues(t) ==
  /\ tpc[t] = "mark"
  /\ tickFaults < MaxTickFaults
  /\ tickFaults' = tickFaults + 1
  /\ questions' = [questions EXCEPT ![picked[t]].status = "ready"]
  /\ TickEnds(t)
  /\ UNCHANGED <<messages, answers>> /\ OnlyQuestions

\* The request times out (the message may have got through), the update of
\* the row fails, or the process dies.
TickFails(t) ==
  /\ tpc[t] # "idle"
  /\ tickFaults < MaxTickFaults
  /\ tickFaults' = tickFaults + 1
  /\ TickEnds(t)
  /\ \/ tpc[t] = "send" /\ questions[picked[t]].text \notin Refused /\ Delivered(picked[t])
     \/ UNCHANGED messages
  /\ UNCHANGED <<genVars, answers>>

\* The user answers a message; the handler records it unless the question has
\* an answer already.
Answer(q) ==
  /\ messages[q] > 0
  /\ questions[q].status \in {"ready", "sent"}
  /\ questions' = [questions EXCEPT ![q].status = "answered"]
  /\ answers' = [answers EXCEPT ![q] = @ + 1]
  /\ UNCHANGED <<tpc, picked, messages, tickFaults>> /\ OnlyQuestions

TickStep(t) ==
  PickOldest(t) \/ SendQuestion(t) \/ SendRefused(t) \/ MarkSent(t)

QueueNext ==
  \/ Generating /\ UNCHANGED tickVars
  \/ \E t \in Ticks : TickStep(t) \/ TickFails(t)
  \/ \E q \in DOMAIN questions : Answer(q)

QueueSpec == QueueInit /\ [][QueueNext]_queueVars

\* The timers start cycles and ticks again and again.
QueueFairSpec ==
  /\ QueueSpec
  /\ \A r \in Runs : WF_queueVars(CycleStep(r) /\ UNCHANGED tickVars)
  /\ \A t \in Ticks : WF_queueVars(TickStep(t))

----------------------------------------------------------------------------
\* The types, and that a tick under way holds a row that exists
\* (marc-bot-tick.py:186-195).
QueueTypeOK ==
  /\ GenTypeOK
  /\ tpc \in [Ticks -> {"idle", "send", "mark"}]
  /\ picked \in [Ticks -> (1 .. MaxQuestions) \cup {None}]
  /\ messages \in [1 .. MaxQuestions -> Nat]
  /\ answers \in [1 .. MaxQuestions -> Nat]
  /\ tickFaults \in 0 .. MaxTickFaults
  /\ \A t \in Ticks : tpc[t] # "idle" => picked[t] \in DOMAIN questions

\* A question is sent again only by a tick that overlaps or after a tick that
\* failed (marc-bot-tick.py:186-194).
MessagesExplained ==
  \A q \in DOMAIN questions :
    messages[q] <= Cardinality(Ticks) + tickFaults

\* An answer is recorded again only after a tick marked the question as sent
\* behind the user's back, and each message does so once at most
\* (marc-bot-tick.py:108-120).
AnswersExplained ==
  \A q \in DOMAIN questions : answers[q] <= 1 + messages[q]

\* To the generator the ticks and the user only ever take questions out of the
\* ready queue (generate.go:183-192).
ImplementsGenerator == GenSpec

\* A question is sent in the end, unless it waits behind one that Telegram
\* refuses (marc-bot-tick.py:190-193).
EveryQuestionSent ==
  \A q \in 1 .. MaxQuestions :
    q \in Ready ~> \/ q \notin Ready
                   \/ \E p \in Ready : p <= q /\ questions[p].text \in Refused

=============================================================================
