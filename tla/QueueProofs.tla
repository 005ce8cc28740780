----------------------------- MODULE QueueProofs -----------------------------
(***************************************************************************)
(* What any number of overlapping ticks do to a question.                  *)
(*                                                                         *)
(* A tick holds a row that exists, so that to the generator a tick only    *)
(* ever takes questions out of its queue.  How often a question is sent    *)
(* and answered follows from counting the ticks that hold it: a message is *)
(* paid for by a tick that has still to mark the row, by one that found it *)
(* ready before it was marked, or by a tick that failed.                   *)
(***************************************************************************)
EXTENDS QuestionQueue, GeneratorProofs

USE QueueAssumption, GenBoundsAssumption, GenFiniteAssumption

TickTypes ==
  /\ tpc \in [Ticks -> {"idle", "send", "mark"}]
  /\ picked \in [Ticks -> Nat \cup {None}]
  /\ messages \in [1 .. MaxQuestions -> Nat]
  /\ answers \in [1 .. MaxQuestions -> Nat]
  /\ tickFaults \in Nat

Picked ==
  \A t \in Ticks :
    /\ tpc[t] # "idle" => picked[t] \in DOMAIN questions
    /\ tpc[t] = "idle" => picked[t] = None

HoldInv == LostInv /\ TickTypes /\ Picked

\* The questions are the first numbers.
LEMMA QuestionNumbers ==
  ASSUME LostInv
  PROVE  /\ DOMAIN questions = 1 .. Len(questions) /\ Len(questions) \in Nat
         /\ DOMAIN questions \subseteq 1 .. MaxQuestions
<1>1. DOMAIN questions = 1 .. Len(questions) /\ Len(questions) \in Nat /\ planned \in Nat
  BY LenProperties DEF LostInv, GenTypes
<1>2. Cardinality(Inserting) \in Nat
  BY InsertingIsPairs, PairsAreFinite DEF LostInv, GenTypes
<1>3. Len(questions) <= MaxQuestions
  BY <1>1, <1>2 DEF LostInv
<1> QED BY <1>1, <1>3

\* Every step of the queue is one of the generator's environment or its own.
LEMMA QueueStepOfGenerator ==
  ASSUME HoldInv, [QueueNext]_queueVars
  PROVE  [GenNext]_genVars
<1>1. CASE Generating
  BY <1>1 DEF GenNext
<1>2. ASSUME NEW t \in Ticks, TickStep(t) \/ TickFails(t), ~MarkSent(t)
      PROVE  UNCHANGED genVars
  BY <1>2 DEF TickStep, PickOldest, SendQuestion, SendRefused, TickFails
<1>3. ASSUME NEW t \in Ticks, MarkSent(t) PROVE GenNext
  <2>1. picked[t] \in DOMAIN questions /\ "sent" \in Statuses \ {"ready"}
    BY <1>3 DEF MarkSent, HoldInv, Picked, Statuses
  <2>2. Deliver
    BY <1>3, <2>1 DEF MarkSent, OnlyQuestions, Deliver
  <2> QED BY <2>2 DEF GenNext
<1>4. ASSUME NEW q \in DOMAIN questions, Answer(q) PROVE GenNext
  <2>1. "answered" \in Statuses \ {"ready"}
    BY DEF Statuses
  <2>2. Deliver
    BY <1>4, <2>1 DEF Answer, OnlyQuestions, Deliver
  <2> QED BY <2>2 DEF GenNext
<1>5. CASE UNCHANGED queueVars
  BY <1>5 DEF queueVars
<1> QED BY <1>1, <1>2, <1>3, <1>4, <1>5 DEF QueueNext

\* What a step makes of the questions: one more that is ready, or one with
\* another status.
LEMMA QuestionsStep ==
  ASSUME LostInv, Generating, GenTypes'
  PROVE  \/ questions' = questions
         \/ \E x \in Texts : questions' = Append(questions, New(x))
<1>1. ASSUME NEW r \in Runs, InsertQuestion(r)
      PROVE  \E x \in Texts : questions' = Append(questions, New(x))
  BY <1>1, Headed DEF InsertQuestion, LostInv
<1>2. ASSUME NEW r \in Runs, CycleStep(r), ~InsertQuestion(r) PROVE questions' = questions
  BY <1>2 DEF CycleStep, ReadCursor, QueryEvents, NothingNew, CountReady, Generate,
              AdvanceGenCursor
<1>3. ASSUME NEW r \in Runs, CountFails(r) \/ InsertFails(r) \/ CycleFails(r)
      PROVE  questions' = questions
  BY <1>3 DEF CountFails, InsertFails, CycleFails
<1> QED BY <1>1, <1>2, <1>3 DEF Generating, Arrive

LEMMA AppendedQuestion ==
  ASSUME LostInv, NEW x \in Texts, questions' = Append(questions, New(x))
  PROVE  /\ DOMAIN questions' = DOMAIN questions \cup {Len(questions) + 1}
         /\ Len(questions) + 1 \notin DOMAIN questions
         /\ \A q \in DOMAIN questions : questions'[q] = questions[q]
         /\ questions'[Len(questions) + 1].status = "ready"
<1>1. New(x) \in Question /\ questions \in Seq(Question) /\ New(x).status = "ready"
  BY DEF New, Question, Statuses, LostInv, GenTypes
<1>2. /\ questions' \in Seq(Question) /\ Len(questions') = Len(questions) + 1
      /\ \A i \in 1 .. Len(questions) : questions'[i] = questions[i]
      /\ questions'[Len(questions) + 1] = New(x)
  BY <1>1, AppendProperties
<1>3. Len(questions) \in Nat /\ DOMAIN questions = 1 .. Len(questions)
      /\ DOMAIN questions' = 1 .. Len(questions')
  BY <1>1, <1>2, LenProperties
<1> QED BY <1>1, <1>2, <1>3

LEMMA MarkedQuestion ==
  ASSUME NEW q \in DOMAIN questions, NEW s, LostInv,
         questions' = [questions EXCEPT ![q].status = s]
  PROVE  /\ DOMAIN questions' = DOMAIN questions
         /\ questions'[q].status = s
         /\ \A p \in DOMAIN questions : p # q => questions'[p] = questions[p]
<1>1. questions[q] \in Question
  BY ElementOfSeq, QuestionNumbers DEF LostInv, GenTypes
<1> QED BY <1>1 DEF Question

----------------------------------------------------------------------------
LEMMA HoldInvStep == HoldInv /\ [QueueNext]_queueVars => HoldInv'
<1> SUFFICES ASSUME HoldInv, [QueueNext]_queueVars PROVE HoldInv'
  OBVIOUS
<1>1. LostInv /\ LostInv' /\ GenTypes'
  BY QueueStepOfGenerator, LostInvStep DEF HoldInv, LostInv
<1>2. DOMAIN questions \subseteq 1 .. MaxQuestions
  BY <1>1, QuestionNumbers
<1>3. CASE Generating /\ UNCHANGED tickVars
  <2>1. DOMAIN questions \subseteq DOMAIN questions'
    BY <1>1, <1>3, QuestionsStep, AppendedQuestion
  <2> QED BY <1>1, <1>3, <2>1 DEF HoldInv, TickTypes, Picked, tickVars
<1>4. ASSUME NEW t \in Ticks, PickOldest(t) PROVE HoldInv'
  <2>1. PICK q \in DOMAIN questions : picked' = [picked EXCEPT ![t] = q]
    BY <1>4 DEF PickOldest, Ready
  <2>2. q \in Nat
    BY <1>2, <2>1
  <2>3. tpc' = [tpc EXCEPT ![t] = "send"] /\ UNCHANGED <<questions, messages, answers, tickFaults>>
    BY <1>4 DEF PickOldest, genVars
  <2> QED BY <1>1, <2>1, <2>2, <2>3 DEF HoldInv, TickTypes, Picked
<1>5. ASSUME NEW t \in Ticks, SendQuestion(t) \/ SendRefused(t) \/ TickFails(t) PROVE HoldInv'
  <2>1. /\ UNCHANGED <<questions, answers>> /\ tickFaults' \in {tickFaults, tickFaults + 1}
        /\ \/ messages' = messages
           \/ tpc[t] = "send" /\ messages' = [messages EXCEPT ![picked[t]] = @ + 1]
        /\ \/ tpc[t] = "send" /\ tpc' = [tpc EXCEPT ![t] = "mark"] /\ picked' = picked
           \/ tpc' = [tpc EXCEPT ![t] = "idle"] /\ picked' = [picked EXCEPT ![t] = None]
    BY <1>5 DEF SendQuestion, SendRefused, TickFails, Delivered, TickEnds, genVars
  <2>2. messages' \in [1 .. MaxQuestions -> Nat] /\ tickFaults' \in Nat
    <3>1. tpc[t] = "send" => picked[t] \in 1 .. MaxQuestions
      BY <1>2 DEF HoldInv, Picked
    <3> QED BY <2>1, <3>1 DEF HoldInv, TickTypes
  <2>3. tpc' \in [Ticks -> {"idle", "send", "mark"}] /\ picked' \in [Ticks -> Nat \cup {None}]
    BY <2>1 DEF HoldInv, TickTypes
  <2>4. Picked'
    BY <2>1 DEF HoldInv, TickTypes, Picked
  <2> QED BY <1>1, <2>1, <2>2, <2>3, <2>4 DEF HoldInv, TickTypes
<1>6. ASSUME NEW t \in Ticks, MarkSent(t) PROVE HoldInv'
  <2>1. /\ questions' = [questions EXCEPT ![picked[t]].status = "sent"]
        /\ tpc' = [tpc EXCEPT ![t] = "idle"] /\ picked' = [picked EXCEPT ![t] = None]
        /\ UNCHANGED <<messages, answers, tickFaults>>
    BY <1>6 DEF MarkSent, TickEnds
  <2>2. DOMAIN questions' = DOMAIN questions
    BY <2>1
  <2> QED BY <1>1, <2>1, <2>2 DEF HoldInv, TickTypes, Picked
<1>7. ASSUME NEW q \in DOMAIN questions, Answer(q) PROVE HoldInv'
  <2>1. /\ questions' = [questions EXCEPT ![q].status = "answered"]
        /\ answers' = [answers EXCEPT ![q] = @ + 1]
        /\ UNCHANGED <<tpc, picked, messages, tickFaults>>
    BY <1>7 DEF Answer
  <2>2. DOMAIN questions' = DOMAIN questions
    BY <2>1
  <2>3. answers' \in [1 .. MaxQuestions -> Nat]
    BY <1>2, <2>1 DEF HoldInv, TickTypes
  <2> QED BY <1>1, <2>1, <2>2, <2>3 DEF HoldInv, TickTypes, Picked
<1>8. CASE UNCHANGED queueVars
  BY <1>1, <1>8 DEF HoldInv, TickTypes, Picked, queueVars, tickVars, genVars
<1> QED BY <1>3, <1>4, <1>5, <1>6, <1>7, <1>8 DEF QueueNext, TickStep

LEMMA HoldInvInit == QueueInit => HoldInv
<1>1. QueueInit => LostInv
  BY LostInvInit DEF QueueInit
<1> QED BY <1>1 DEF QueueInit, HoldInv, TickTypes, Picked

\* Whatever ticks and users do, the generator sees its questions leave the
\* ready queue and nothing else (generate.go:183-192).
THEOREM QueueImplementsGenerator == QueueSpec => ImplementsGenerator
<1>1. QueueInit => GenInit
  BY DEF QueueInit
<1>2. HoldInv /\ [QueueNext]_queueVars => [GenNext]_genVars
  BY QueueStepOfGenerator
<1> QED BY <1>1, <1>2, HoldInvInit, HoldInvStep, PTL DEF QueueSpec, GenSpec, ImplementsGenerator

TickFaultsBounded == tickFaults \in 0 .. MaxTickFaults

\* The queue is well typed, and a tick under way holds a row that exists
\* (marc-bot-tick.py:186-195).
THEOREM QueueTypeCorrect == QueueSpec => []QueueTypeOK
<1>1. QueueInit => TickFaultsBounded
  BY DEF QueueInit, TickFaultsBounded
<1>2. TickFaultsBounded /\ [QueueNext]_queueVars => TickFaultsBounded'
  <2> SUFFICES ASSUME TickFaultsBounded, [QueueNext]_queueVars PROVE TickFaultsBounded'
    OBVIOUS
  <2>1. \/ tickFaults' = tickFaults
        \/ tickFaults < MaxTickFaults /\ tickFaults' = tickFaults + 1
    BY DEF QueueNext, TickStep, PickOldest, SendQuestion, SendRefused, MarkSent, TickFails,
           Answer, tickVars, queueVars
  <2> QED BY <2>1 DEF TickFaultsBounded
<1>3. HoldInv /\ TickFaultsBounded /\ GenTypeOK => QueueTypeOK
  <2> SUFFICES ASSUME HoldInv, TickFaultsBounded, GenTypeOK PROVE QueueTypeOK
    OBVIOUS
  <2>1. ASSUME NEW t \in Ticks PROVE picked[t] \in (1 .. MaxQuestions) \cup {None}
    BY QuestionNumbers DEF HoldInv, TickTypes, Picked
  <2> QED BY <2>1 DEF QueueTypeOK, HoldInv, TickTypes, Picked, TickFaultsBounded
<1>4. QueueSpec => []GenTypeOK
  BY QueueImplementsGenerator, GenTypeCorrect, PTL DEF ImplementsGenerator
<1> QED BY <1>1, <1>2, <1>3, <1>4, HoldInvInit, HoldInvStep, PTL DEF QueueSpec

----------------------------------------------------------------------------
(* The ticks that hold a question *)

Holding(q, at) == {t \in Ticks : tpc[t] = at /\ picked[t] = q}
Held(q, at) == Cardinality(Holding(q, at))

LEMMA HeldIsCounted ==
  ASSUME NEW q
  PROVE  /\ Held(q, "send") \in Nat /\ Held(q, "mark") \in Nat /\ Cardinality(Ticks) \in Nat
         /\ Held(q, "send") + Held(q, "mark") <= Cardinality(Ticks)
<1>1. \A at : IsFiniteSet(Holding(q, at)) /\ Held(q, at) \in Nat
  <2> TAKE at
  <2>1. Holding(q, at) \in SUBSET Ticks
    BY DEF Holding
  <2> QED BY <2>1, FS_Subset, FS_CardinalityType DEF Held
<1>2. Holding(q, "send") \cap Holding(q, "mark") = {}
  BY DEF Holding
<1>3. Holding(q, "send") \cup Holding(q, "mark") \in SUBSET Ticks
  BY DEF Holding
<1>4. Cardinality(Holding(q, "send") \cup Holding(q, "mark")) =
        Held(q, "send") + Held(q, "mark") - Cardinality(Holding(q, "send") \cap Holding(q, "mark"))
  BY <1>1, FS_Union DEF Held
<1>5. Cardinality(Holding(q, "send") \cap Holding(q, "mark")) = 0
  BY <1>2, FS_EmptySet
<1>6. /\ Cardinality(Holding(q, "send") \cup Holding(q, "mark")) <= Cardinality(Ticks)
      /\ Cardinality(Ticks) \in Nat
  BY <1>3, FS_Subset, FS_CardinalityType
<1> QED BY <1>1, <1>4, <1>5, <1>6

\* What the step of one tick adds to a count, and takes from it.
LEMMA HeldByStep ==
  ASSUME NEW t \in Ticks, NEW q, NEW at,
         \A u \in Ticks : u # t => tpc'[u] = tpc[u] /\ picked'[u] = picked[u]
  PROVE  Held(q, at)' = Held(q, at) + (IF tpc'[t] = at /\ picked'[t] = q THEN 1 ELSE 0)
                                    - (IF tpc[t] = at /\ picked[t] = q THEN 1 ELSE 0)
<1>1. IsFiniteSet(Holding(q, at)) /\ Cardinality(Holding(q, at)) \in Nat
  <2>1. Holding(q, at) \in SUBSET Ticks
    BY DEF Holding
  <2> QED BY <2>1, FS_Subset, FS_CardinalityType
<1>2. t \in Holding(q, at) <=> tpc[t] = at /\ picked[t] = q
  BY DEF Holding
<1>3. CASE tpc'[t] = at /\ picked'[t] = q
  <2>1. Holding(q, at)' = Holding(q, at) \cup {t}
    BY <1>3 DEF Holding
  <2>2. Held(q, at)' = IF t \in Holding(q, at) THEN Held(q, at) ELSE Held(q, at) + 1
    BY <1>1, <2>1, FS_AddElement DEF Held
  <2> QED BY <1>1, <1>2, <1>3, <2>2 DEF Held
<1>4. CASE ~(tpc'[t] = at /\ picked'[t] = q)
  <2>1. Holding(q, at)' = Holding(q, at) \ {t}
    BY <1>4 DEF Holding
  <2>2. Held(q, at)' = IF t \in Holding(q, at) THEN Held(q, at) - 1 ELSE Held(q, at)
    BY <1>1, <2>1, FS_RemoveElement DEF Held
  <2> QED BY <1>1, <1>2, <1>4, <2>2 DEF Held
<1> QED BY <1>3, <1>4

\* The ticks after the step of one of them.
TickMoves(t, to, p) ==
  /\ tpc'[t] = to /\ picked'[t] = p
  /\ \A u \in Ticks : u # t => tpc'[u] = tpc[u] /\ picked'[u] = picked[u]

Was(t, q, at) == IF tpc[t] = at /\ picked[t] = q THEN 1 ELSE 0

LEMMA CountsByStep ==
  ASSUME NEW t \in Ticks, NEW to, NEW p, NEW q, NEW at, TickMoves(t, to, p)
  PROVE  Held(q, at)' = IF to = at /\ p = q THEN Held(q, at) + 1 - Was(t, q, at)
                                            ELSE Held(q, at) - Was(t, q, at)
<1>1. Held(q, at)' = Held(q, at) + (IF tpc'[t] = at /\ picked'[t] = q THEN 1 ELSE 0)
                                 - (IF tpc[t] = at /\ picked[t] = q THEN 1 ELSE 0)
  BY HeldByStep DEF TickMoves
<1>2. Held(q, at) \in Nat
  <2>1. Holding(q, at) \in SUBSET Ticks
    BY DEF Holding
  <2> QED BY <2>1, FS_Subset, FS_CardinalityType DEF Held
<1>3. tpc'[t] = to /\ picked'[t] = p
  BY DEF TickMoves
<1> QED BY <1>1, <1>2, <1>3 DEF Was

\* A tick that ends lets go of its question.
LEMMA CountsOnEnd ==
  ASSUME NEW t \in Ticks, NEW q, TickMoves(t, "idle", None)
  PROVE  /\ Held(q, "mark")' = Held(q, "mark") - Was(t, q, "mark")
         /\ Held(q, "send")' = Held(q, "send") - Was(t, q, "send")
<1>1. "idle" # "mark" /\ "idle" # "send"
  OBVIOUS
<1>2. Held(q, "mark")' = IF "idle" = "mark" /\ None = q THEN Held(q, "mark") + 1 - Was(t, q, "mark")
                                            ELSE Held(q, "mark") - Was(t, q, "mark")
  BY CountsByStep
<1>3. Held(q, "send")' = IF "idle" = "send" /\ None = q THEN Held(q, "send") + 1 - Was(t, q, "send")
                                            ELSE Held(q, "send") - Was(t, q, "send")
  BY CountsByStep
<1> QED BY <1>1, <1>2, <1>3

LEMMA MovesByExcept ==
  ASSUME TickTypes, NEW t \in Ticks, NEW to, NEW p,
         tpc' = [tpc EXCEPT ![t] = to], picked' = [picked EXCEPT ![t] = p]
  PROVE  TickMoves(t, to, p)
  BY DEF TickMoves, TickTypes

LEMMA HeldStays ==
  ASSUME UNCHANGED <<tpc, picked>>, NEW q, NEW at
  PROVE  Held(q, at)' = Held(q, at)
  BY DEF Held, Holding

----------------------------------------------------------------------------
(* Messages and answers *)

Answered(q) == q \in DOMAIN questions /\ questions[q].status = "answered"

\* An answer is paid for by a message, but for the first of each question; a
\* tick that has still to mark the row may let another one in.
AnswerInv ==
  \A q \in 1 .. MaxQuestions :
    answers[q] + Held(q, "mark") + (IF Answered(q) THEN 0 ELSE 1) <= 1 + messages[q]

\* As long as a row is ready, each message is that of a tick that has still to
\* mark it or has failed; afterwards only the ticks that hold it send it again.
MessageInv ==
  \A q \in 1 .. MaxQuestions :
    /\ q \notin DOMAIN questions => messages[q] = 0
    /\ q \in Ready => messages[q] <= Held(q, "mark") + tickFaults
    /\ q \in DOMAIN questions \ Ready =>
         messages[q] + Held(q, "send") <= Cardinality(Ticks) + tickFaults

\* A step that leaves the ticks alone.
LEMMA CountsOfOthers ==
  ASSUME HoldInv, AnswerInv, MessageInv, Generating, UNCHANGED tickVars, GenTypes'
  PROVE  AnswerInv' /\ MessageInv'
<1>1. LostInv /\ UNCHANGED <<messages, answers, tickFaults>>
      /\ \A q, at : Held(q, at)' = Held(q, at)
  BY HeldStays DEF HoldInv, tickVars
<1>2. CASE questions' = questions
  <2>1. Ready' = Ready /\ \A q : Answered(q)' <=> Answered(q)
    BY <1>2 DEF Ready, Answered
  <2> QED BY <1>1, <1>2, <2>1 DEF AnswerInv, MessageInv
<1>3. ASSUME NEW x \in Texts, questions' = Append(questions, New(x))
      PROVE  AnswerInv' /\ MessageInv'
  <2>1. /\ DOMAIN questions' = DOMAIN questions \cup {Len(questions) + 1}
        /\ Len(questions) + 1 \notin DOMAIN questions
        /\ \A q \in DOMAIN questions : questions'[q] = questions[q]
        /\ questions'[Len(questions) + 1].status = "ready"
    BY <1>1, <1>3, AppendedQuestion
  <2>2. /\ \A q : Answered(q)' <=> Answered(q)
        /\ Ready' = Ready \cup {Len(questions) + 1}
    BY <2>1 DEF Answered, Ready
  <2>3. AnswerInv'
    BY <1>1, <2>2 DEF AnswerInv
  <2>4. ASSUME NEW q \in 1 .. MaxQuestions
        PROVE  /\ q \notin DOMAIN questions' => messages[q] = 0
               /\ q \in Ready' => messages[q] <= Held(q, "mark") + tickFaults
               /\ q \in DOMAIN questions' \ Ready' =>
                    messages[q] + Held(q, "send") <= Cardinality(Ticks) + tickFaults
    <3>1. Held(q, "mark") \in Nat /\ tickFaults \in Nat
      BY HeldIsCounted DEF HoldInv, TickTypes
    <3> QED BY <2>1, <2>2, <3>1 DEF MessageInv
  <2> QED BY <1>1, <2>3, <2>4 DEF MessageInv
<1> QED BY <1>1, <1>2, <1>3, QuestionsStep

\* The user answers: the row is not ready any more.
LEMMA CountsOnAnswer ==
  ASSUME HoldInv, AnswerInv, MessageInv, NEW a \in DOMAIN questions, Answer(a)
  PROVE  AnswerInv' /\ MessageInv'
<1>1. /\ questions' = [questions EXCEPT ![a].status = "answered"]
      /\ answers' = [answers EXCEPT ![a] = @ + 1] /\ questions[a].status \in {"ready", "sent"}
      /\ UNCHANGED <<tpc, picked, messages, tickFaults>>
  BY DEF Answer
<1>2. LostInv /\ a \in 1 .. MaxQuestions /\ \A q, at : Held(q, at)' = Held(q, at)
  BY <1>1, QuestionNumbers, HeldStays DEF HoldInv
<1>3. /\ DOMAIN questions' = DOMAIN questions /\ questions'[a].status = "answered"
      /\ \A q \in DOMAIN questions : q # a => questions'[q] = questions[q]
  BY <1>1, <1>2, MarkedQuestion
<1>4. /\ Answered(a)' /\ ~Answered(a) /\ \A q : q # a => (Answered(q)' <=> Answered(q))
      /\ Ready' = Ready \ {a}
  BY <1>1, <1>3 DEF Answered, Ready
<1>5. ASSUME NEW q \in 1 .. MaxQuestions
      PROVE  /\ Held(q, "send") \in Nat /\ Held(q, "mark") \in Nat /\ Cardinality(Ticks) \in Nat
             /\ Held(q, "send") + Held(q, "mark") <= Cardinality(Ticks)
             /\ messages[q] \in Nat /\ answers[q] \in Nat /\ tickFaults \in Nat
  BY HeldIsCounted DEF HoldInv, TickTypes
<1>6. ASSUME NEW q \in 1 .. MaxQuestions
      PROVE  answers'[q] + Held(q, "mark") + (IF Answered(q)' THEN 0 ELSE 1) <= 1 + messages[q]
  <2>1. answers'[q] = IF q = a THEN answers[q] + 1 ELSE answers[q]
    BY <1>1, <1>2 DEF HoldInv, TickTypes
  <2>2. answers[q] + Held(q, "mark") + (IF Answered(q) THEN 0 ELSE 1) <= 1 + messages[q]
    BY DEF AnswerInv
  <2> QED BY <1>4, <1>5, <2>1, <2>2
<1>7. AnswerInv'
  BY <1>1, <1>2, <1>6 DEF AnswerInv
<1>8. ASSUME NEW q \in 1 .. MaxQuestions
      PROVE  /\ q \notin DOMAIN questions => messages[q] = 0
             /\ q \in Ready' => messages[q] <= Held(q, "mark") + tickFaults
             /\ q \in DOMAIN questions \ Ready' =>
                  messages[q] + Held(q, "send") <= Cardinality(Ticks) + tickFaults
  BY <1>4, <1>5 DEF MessageInv
<1> QED BY <1>1, <1>2, <1>3, <1>7, <1>8 DEF MessageInv

\* A tick takes up a ready row, sends it, fails or gives it up: the rows stay
\* what they are.
LEMMA CountsOnTick ==
  ASSUME HoldInv, AnswerInv, MessageInv, NEW t \in Ticks,
         PickOldest(t) \/ SendQuestion(t) \/ SendRefused(t) \/ TickFails(t)
  PROVE  AnswerInv' /\ MessageInv'
<1>1. UNCHANGED <<questions, answers>> /\ Ready' = Ready
      /\ \A q : Answered(q)' <=> Answered(q)
  BY DEF PickOldest, SendQuestion, SendRefused, TickFails, genVars, Ready, Answered
<1>2. ASSUME NEW q \in 1 .. MaxQuestions
      PROVE  /\ Held(q, "send") \in Nat /\ Held(q, "mark") \in Nat /\ Cardinality(Ticks) \in Nat
             /\ messages[q] \in Nat /\ answers[q] \in Nat /\ tickFaults \in Nat
  BY HeldIsCounted DEF HoldInv, TickTypes
<1>3. \A q \in Ready : q \in DOMAIN questions
  BY DEF Ready
<1>4. TickTypes
  BY DEF HoldInv
<1>5. ASSUME NEW q \in 1 .. MaxQuestions
      PROVE  /\ answers[q] + Held(q, "mark")' + (IF Answered(q) THEN 0 ELSE 1) <= 1 + messages'[q]
             /\ q \notin DOMAIN questions => messages'[q] = 0
             /\ q \in Ready => messages'[q] <= Held(q, "mark")' + tickFaults'
             /\ q \in DOMAIN questions \ Ready =>
                  messages'[q] + Held(q, "send")' <= Cardinality(Ticks) + tickFaults'
  <2>0. /\ answers[q] + Held(q, "mark") + (IF Answered(q) THEN 0 ELSE 1) <= 1 + messages[q]
        /\ q \notin DOMAIN questions => messages[q] = 0
        /\ q \in Ready => messages[q] <= Held(q, "mark") + tickFaults
        /\ q \in DOMAIN questions \ Ready =>
             messages[q] + Held(q, "send") <= Cardinality(Ticks) + tickFaults
    BY DEF AnswerInv, MessageInv
  <2>1. CASE PickOldest(t)
    <3>1. PICK p \in Ready : picked' = [picked EXCEPT ![t] = p]
      BY <2>1 DEF PickOldest
    <3>2. tpc[t] = "idle" /\ tpc' = [tpc EXCEPT ![t] = "send"] /\ UNCHANGED <<messages, tickFaults>>
      BY <2>1 DEF PickOldest
    <3>3. /\ Held(q, "mark")' = Held(q, "mark")
          /\ Held(q, "send")' = Held(q, "send") + (IF p = q THEN 1 ELSE 0)
      <4>1. TickMoves(t, "send", p)
        BY <1>4, <3>1, <3>2, MovesByExcept
      <4>2. Held(q, "mark")' = IF "send" = "mark" /\ p = q
                               THEN Held(q, "mark") + 1 - Was(t, q, "mark")
                               ELSE Held(q, "mark") - Was(t, q, "mark")
        BY <4>1, CountsByStep
      <4>3. Held(q, "send")' = IF "send" = "send" /\ p = q
                               THEN Held(q, "send") + 1 - Was(t, q, "send")
                               ELSE Held(q, "send") - Was(t, q, "send")
        BY <4>1, CountsByStep
      <4>4. "send" # "mark" /\ Was(t, q, "mark") = 0 /\ Was(t, q, "send") = 0
        BY <3>2 DEF Was
      <4> QED BY <1>2, <4>2, <4>3, <4>4
    <3> QED BY <1>2, <2>0, <3>1, <3>2, <3>3
  <2>2. CASE SendQuestion(t)
    <3>1. /\ tpc[t] = "send" /\ tpc' = [tpc EXCEPT ![t] = "mark"] /\ UNCHANGED tickFaults
          /\ picked' = [picked EXCEPT ![t] = picked[t]]
          /\ messages' = [messages EXCEPT ![picked[t]] = @ + 1]
      BY <1>4, <2>2 DEF SendQuestion, Delivered, TickTypes
    <3>2. picked[t] \in DOMAIN questions
      BY <3>1 DEF HoldInv, Picked
    <3>3. /\ Held(q, "mark")' = Held(q, "mark") + (IF picked[t] = q THEN 1 ELSE 0)
          /\ Held(q, "send")' = Held(q, "send") - (IF picked[t] = q THEN 1 ELSE 0)
      <4>1. TickMoves(t, "mark", picked[t])
        BY <1>4, <3>1, MovesByExcept
      <4>2. Held(q, "mark")' = IF "mark" = "mark" /\ picked[t] = q
                               THEN Held(q, "mark") + 1 - Was(t, q, "mark")
                               ELSE Held(q, "mark") - Was(t, q, "mark")
        BY <4>1, CountsByStep
      <4>3. Held(q, "send")' = IF "mark" = "send" /\ picked[t] = q
                               THEN Held(q, "send") + 1 - Was(t, q, "send")
                               ELSE Held(q, "send") - Was(t, q, "send")
        BY <4>1, CountsByStep
      <4>4. /\ "send" # "mark" /\ Was(t, q, "mark") = 0
            /\ Was(t, q, "send") = IF picked[t] = q THEN 1 ELSE 0
        BY <3>1 DEF Was
      <4> QED BY <1>2, <4>2, <4>3, <4>4
    <3>4. messages'[q] = messages[q] + (IF picked[t] = q THEN 1 ELSE 0)
      BY <1>2, <1>4, <3>1 DEF TickTypes
    <3> QED BY <1>2, <2>0, <3>1, <3>2, <3>3, <3>4
  <2>3. CASE SendRefused(t)
    <3>1. /\ tpc[t] = "send" /\ tpc' = [tpc EXCEPT ![t] = "idle"]
          /\ picked' = [picked EXCEPT ![t] = None] /\ UNCHANGED <<messages, tickFaults>>
      BY <2>3 DEF SendRefused, TickEnds
    <3>2. /\ Held(q, "mark")' = Held(q, "mark")
          /\ Held(q, "send")' = Held(q, "send") - (IF picked[t] = q THEN 1 ELSE 0)
      <4>1. TickMoves(t, "idle", None)
        BY <1>4, <3>1, MovesByExcept
      <4>2. /\ Held(q, "mark")' = Held(q, "mark") - Was(t, q, "mark")
            /\ Held(q, "send")' = Held(q, "send") - Was(t, q, "send")
        BY <4>1, CountsOnEnd
      <4>3. /\ Was(t, q, "mark") = 0
            /\ Was(t, q, "send") = IF picked[t] = q THEN 1 ELSE 0
        BY <3>1 DEF Was
      <4> QED BY <1>2, <4>2, <4>3
    <3> QED BY <1>2, <2>0, <3>1, <3>2
  <2>4. CASE TickFails(t)
    <3>1. /\ tpc' = [tpc EXCEPT ![t] = "idle"] /\ picked' = [picked EXCEPT ![t] = None]
          /\ tickFaults' = tickFaults + 1
          /\ \/ messages' = messages
             \/ tpc[t] = "send" /\ messages' = [messages EXCEPT ![picked[t]] = @ + 1]
      BY <2>4 DEF TickFails, TickEnds, Delivered
    <3>2. /\ Held(q, "mark")' =
               Held(q, "mark") - (IF tpc[t] = "mark" /\ picked[t] = q THEN 1 ELSE 0)
          /\ Held(q, "send")' =
               Held(q, "send") - (IF tpc[t] = "send" /\ picked[t] = q THEN 1 ELSE 0)
      <4>1. TickMoves(t, "idle", None)
        BY <1>4, <3>1, MovesByExcept
      <4> QED BY <4>1, CountsOnEnd DEF Was
    <3>3. \/ messages'[q] = messages[q]
          \/ tpc[t] = "send" /\ picked[t] = q /\ messages'[q] = messages[q] + 1
      BY <1>4, <3>1 DEF TickTypes
    <3>4. tpc[t] = "send" => picked[t] \in DOMAIN questions
      BY DEF HoldInv, Picked
    <3> QED BY <1>2, <2>0, <3>1, <3>2, <3>3, <3>4
  <2> QED BY <2>1, <2>2, <2>3, <2>4
<1> QED BY <1>1, <1>5 DEF AnswerInv, MessageInv

\* The row is marked: what was sent of it so far was sent by ticks that hold it
\* still, or that failed.
LEMMA CountsOnMark ==
  ASSUME HoldInv, AnswerInv, MessageInv, NEW t \in Ticks, MarkSent(t)
  PROVE  AnswerInv' /\ MessageInv'
<1>1. /\ questions' = [questions EXCEPT ![picked[t]].status = "sent"]
      /\ tpc[t] = "mark" /\ tpc' = [tpc EXCEPT ![t] = "idle"]
      /\ picked' = [picked EXCEPT ![t] = None]
      /\ UNCHANGED <<messages, answers, tickFaults>>
  BY DEF MarkSent, TickEnds
<1>2. picked[t] \in DOMAIN questions /\ LostInv /\ TickTypes
  BY <1>1 DEF HoldInv, Picked
<1>3. /\ DOMAIN questions' = DOMAIN questions /\ questions'[picked[t]].status = "sent"
      /\ \A q \in DOMAIN questions : q # picked[t] => questions'[q] = questions[q]
  BY <1>1, <1>2, MarkedQuestion
<1>4. /\ Ready' = Ready \ {picked[t]}
      /\ \A q : q # picked[t] => (Answered(q)' <=> Answered(q))
  BY <1>2, <1>3 DEF Ready, Answered
<1>5. ASSUME NEW q \in 1 .. MaxQuestions
      PROVE  /\ Held(q, "send") \in Nat /\ Held(q, "mark") \in Nat /\ Cardinality(Ticks) \in Nat
             /\ Held(q, "send") + Held(q, "mark") <= Cardinality(Ticks)
             /\ messages[q] \in Nat /\ answers[q] \in Nat /\ tickFaults \in Nat
             /\ Held(q, "mark")' = Held(q, "mark") - (IF picked[t] = q THEN 1 ELSE 0)
             /\ Held(q, "send")' = Held(q, "send")
  <2>1. /\ Held(q, "mark")' = Held(q, "mark") - (IF picked[t] = q THEN 1 ELSE 0)
        /\ Held(q, "send")' = Held(q, "send")
    <3>1. TickMoves(t, "idle", None)
      BY <1>1, <1>2, MovesByExcept
    <3>2. /\ Held(q, "mark")' = Held(q, "mark") - Was(t, q, "mark")
          /\ Held(q, "send")' = Held(q, "send") - Was(t, q, "send")
      BY <3>1, CountsOnEnd
    <3>3. /\ Was(t, q, "send") = 0
          /\ Was(t, q, "mark") = IF picked[t] = q THEN 1 ELSE 0
      BY <1>1 DEF Was
    <3> QED BY <3>2, <3>3, HeldIsCounted
  <2> QED BY <1>2, <2>1, HeldIsCounted DEF TickTypes
<1>6. ASSUME NEW q \in 1 .. MaxQuestions
      PROVE  /\ answers[q] + Held(q, "mark")' + (IF Answered(q)' THEN 0 ELSE 1) <= 1 + messages[q]
             /\ q \notin DOMAIN questions => messages[q] = 0
             /\ q \in Ready' => messages[q] <= Held(q, "mark")' + tickFaults
             /\ q \in DOMAIN questions \ Ready' =>
                  messages[q] + Held(q, "send")' <= Cardinality(Ticks) + tickFaults
  <2>0. /\ answers[q] + Held(q, "mark") + (IF Answered(q) THEN 0 ELSE 1) <= 1 + messages[q]
        /\ q \notin DOMAIN questions => messages[q] = 0
        /\ q \in Ready => messages[q] <= Held(q, "mark") + tickFaults
        /\ q \in DOMAIN questions \ Ready =>
             messages[q] + Held(q, "send") <= Cardinality(Ticks) + tickFaults
    BY DEF AnswerInv, MessageInv
  <2>1. CASE q = picked[t]
    BY <1>4, <1>5, <2>0, <2>1
  <2>2. CASE q # picked[t]
    BY <1>4, <1>5, <2>0, <2>2
  <2> QED BY <2>1, <2>2
<1> QED BY <1>1, <1>3, <1>6 DEF AnswerInv, MessageInv

CountInv == HoldInv /\ AnswerInv /\ MessageInv

LEMMA CountInvStep == CountInv /\ [QueueNext]_queueVars => CountInv'
<1> SUFFICES ASSUME CountInv, [QueueNext]_queueVars PROVE CountInv'
  OBVIOUS
<1>1. HoldInv /\ AnswerInv /\ MessageInv /\ HoldInv'
  BY HoldInvStep DEF CountInv
<1>2. GenTypes'
  BY <1>1 DEF HoldInv, LostInv
<1>3. CASE UNCHANGED queueVars
  <2>1. UNCHANGED <<questions, tpc, picked, messages, answers, tickFaults>>
    BY <1>3 DEF queueVars, tickVars, genVars
  <2>2. \A q, at : Held(q, at)' = Held(q, at)
    BY <2>1, HeldStays
  <2>3. Ready' = Ready /\ \A q : Answered(q)' <=> Answered(q)
    BY <2>1 DEF Ready, Answered
  <2> QED BY <1>1, <2>1, <2>2, <2>3 DEF CountInv, AnswerInv, MessageInv
<1> QED BY <1>1, <1>2, <1>3, CountsOfOthers, CountsOnAnswer, CountsOnTick, CountsOnMark
        DEF CountInv, QueueNext, TickStep

LEMMA CountInvHolds == QueueSpec => []CountInv
<1>1. QueueInit => CountInv
  <2> SUFFICES ASSUME QueueInit PROVE CountInv
    OBVIOUS
  <2>1. HoldInv
    BY HoldInvInit
  <2>2. \A q \in 1 .. MaxQuestions : Held(q, "mark") = 0
    <3>1. \A q : Holding(q, "mark") = {}
      BY DEF QueueInit, Holding
    <3> QED BY <3>1, FS_EmptySet DEF Held
  <2>3. DOMAIN questions = {} /\ Ready = {}
    BY EmptySeq DEF QueueInit, GenInit, Ready
  <2> QED BY <2>1, <2>2, <2>3 DEF QueueInit, CountInv, AnswerInv, MessageInv, Answered
<1> QED BY <1>1, CountInvStep, PTL DEF QueueSpec

\* A question is sent again only by a tick that overlaps or after one that
\* failed (marc-bot-tick.py:186-194).
THEOREM RepeatsAreExplained == QueueSpec => []MessagesExplained
<1>1. CountInv => MessagesExplained
  <2> SUFFICES ASSUME CountInv, NEW q \in DOMAIN questions
               PROVE  messages[q] <= Cardinality(Ticks) + tickFaults
    BY DEF MessagesExplained
  <2>1. q \in 1 .. MaxQuestions
    BY QuestionNumbers DEF CountInv, HoldInv
  <2>2. /\ Held(q, "send") \in Nat /\ Held(q, "mark") \in Nat /\ Cardinality(Ticks) \in Nat
        /\ Held(q, "send") + Held(q, "mark") <= Cardinality(Ticks)
        /\ messages[q] \in Nat /\ tickFaults \in Nat
    BY <2>1, HeldIsCounted DEF CountInv, HoldInv, TickTypes
  <2> QED BY <2>1, <2>2 DEF CountInv, MessageInv
<1> QED BY <1>1, CountInvHolds, PTL

\* An answer is recorded again only for another message, whatever ticks mark
\* behind the user's back (marc-bot-tick.py:108-120).
THEOREM AnswersAreExplained == QueueSpec => []AnswersExplained
<1>1. CountInv => AnswersExplained
  <2> SUFFICES ASSUME CountInv, NEW q \in DOMAIN questions
               PROVE  answers[q] <= 1 + messages[q]
    BY DEF AnswersExplained
  <2>1. q \in 1 .. MaxQuestions
    BY QuestionNumbers DEF CountInv, HoldInv
  <2>2. Held(q, "mark") \in Nat /\ messages[q] \in Nat /\ answers[q] \in Nat
    BY <2>1, HeldIsCounted DEF CountInv, HoldInv, TickTypes
  <2> QED BY <2>1, <2>2 DEF CountInv, AnswerInv
<1> QED BY <1>1, CountInvHolds, PTL

\* What the generator promises by itself holds beside any ticks and users
\* (generate.go:136-215, 428-445).
THEOREM GeneratorKeepsItsWord ==
  QueueSpec => [](PassedIsSeenOrLate /\ QuestionsLostToFaults /\ ReadyBounded)
<1>1. QueueSpec => GenSpec
  BY QueueImplementsGenerator DEF ImplementsGenerator
<1> QED BY <1>1, NothingPassedOver, QuestionsAreKept, QueueIsBounded, PTL

=============================================================================
