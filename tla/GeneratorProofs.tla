--------------------------- MODULE GeneratorProofs ---------------------------
(***************************************************************************)
(* What any number of overlapping runs of the generator do to the events   *)
(* and the questions.                                                      *)
(*                                                                         *)
(* PassedIsSeenOrLate says something of the cursor as it is now, while     *)
(* each run works with the cursor it read; SeenInv says the same of what   *)
(* each run has read.  QuestionsLostToFaults is inductive once a run is    *)
(* known to hold no more questions than the longest answer had, whose      *)
(* length no step makes smaller.  ReadyBounded counts the ready questions  *)
(* with those that runs will still insert (ReadyInv).                      *)
(***************************************************************************)
EXTENDS Generator, FiniteSetTheorems, SequenceTheorems, TLAPS

USE CapturedAssumption, GenBoundsAssumption, GenFiniteAssumption

\* What the proofs need of the types.
GenTypes ==
  /\ stored \subseteq Events /\ genCursor \in Nat
  /\ questions \in Seq(Question) /\ planned \in Nat /\ longest \in Nat /\ genFaults \in Nat
  /\ gpc \in [Runs -> {"idle", "query", "count", "model", "insert"}]
  /\ since \in [Runs -> Nat]
  /\ batch \in [Runs -> SUBSET Events] /\ survivors \in [Runs -> Seq(Texts)]

LEMMA WholeSecondIsBefore ==
  ASSUME NEW t \in Nat PROVE WholeSecond(t) \in Nat /\ WholeSecond(t) <= t
<1>1. t % Second \in 0 .. Second - 1 /\ Second \in Nat \ {0}
  OBVIOUS
<1>2. t % Second <= t
  <2>1. CASE t < Second
    BY <2>1
  <2>2. CASE t >= Second
    BY <1>1, <2>2
  <2> QED BY <1>1, <2>1, <2>2
<1> QED BY <1>1, <1>2 DEF WholeSecond

LEMMA GenTypesInit == GenInit => GenTypes
<1>1. <<>> \in Seq(Question) /\ <<>> \in Seq(Texts)
  BY EmptySeq
<1> QED BY <1>1 DEF GenInit, GenTypes

\* The answer of the model becomes what a run has to insert.
LEMMA ModelAnswers ==
  ASSUME GenTypes, NEW r \in Runs, Generate(r)
  PROVE  \E n \in Nat :
           /\ survivors'[r] \in Seq(Texts) /\ Len(survivors'[r]) = n
           /\ survivors' = [survivors EXCEPT ![r] = survivors'[r]]
           /\ planned' = planned + n /\ planned' <= MaxQuestions
           /\ longest' = IF n > longest THEN n ELSE longest
<1>1. PICK n \in 0 .. MaxQuestions - planned :
        /\ \E kept \in [1 .. n -> Texts] : survivors' = [survivors EXCEPT ![r] = kept]
        /\ planned' = planned + n
        /\ longest' = IF n > longest THEN n ELSE longest
  BY DEF Generate
<1>2. PICK kept \in [1 .. n -> Texts] : survivors' = [survivors EXCEPT ![r] = kept]
  BY <1>1
<1>3. n \in Nat /\ planned + n <= MaxQuestions
  BY <1>1 DEF GenTypes
<1>4. kept \in Seq(Texts) /\ Len(kept) = n
  BY <1>2, <1>3
<1>5. survivors'[r] = kept
  BY <1>2 DEF GenTypes
<1> QED BY <1>1, <1>2, <1>3, <1>4, <1>5

\* A run puts the first of its questions into the queue, or fails to.
LEMMA Headed ==
  ASSUME GenTypes, NEW r \in Runs, survivors[r] # <<>>
  PROVE  /\ Head(survivors[r]) \in Texts /\ Tail(survivors[r]) \in Seq(Texts)
         /\ Len(survivors[r]) \in Nat \ {0}
         /\ Len(Tail(survivors[r])) = Len(survivors[r]) - 1
  BY HeadTailProperties, EmptySeq, LenProperties DEF GenTypes

LEMMA GenTypesStep == GenTypes /\ [GenNext]_genVars => GenTypes'
<1> SUFFICES ASSUME GenTypes, [GenNext]_genVars PROVE GenTypes'
  OBVIOUS
<1> USE DEF GenTypes
<1>e. <<>> \in Seq(Texts)
  BY EmptySeq
<1>1. ASSUME NEW e \in Events, Arrive(e) PROVE GenTypes'
  BY <1>1 DEF Arrive
<1>2. ASSUME NEW r \in Runs, CycleStep(r) PROVE GenTypes'
  <2>1. CASE ReadCursor(r) \/ NothingNew(r)
    <3>1. CASE ReadCursor(r)
      BY <3>1 DEF ReadCursor
    <3>2. CASE NothingNew(r)
      BY <1>e, <3>2 DEF NothingNew, Ends
    <3> QED BY <2>1, <3>1, <3>2
  <2>6. CASE CountReady(r)
    <3>1. \E to \in {"insert", "model"} : gpc' = [gpc EXCEPT ![r] = to]
      BY <2>6 DEF CountReady
    <3>2. UNCHANGED <<stored, genCursor, questions, planned, longest,
                    since, batch, survivors, genFaults>>
      BY <2>6 DEF CountReady
    <3> QED BY <3>1, <3>2
  <2>2. CASE QueryEvents(r)
    BY <2>2 DEF QueryEvents, After
  <2>3. CASE Generate(r)
    <3>1. PICK n \in Nat : /\ survivors'[r] \in Seq(Texts)
                           /\ survivors' = [survivors EXCEPT ![r] = survivors'[r]]
                           /\ planned' = planned + n
                           /\ longest' = IF n > longest THEN n ELSE longest
      BY <2>3, ModelAnswers
    <3>2. survivors' \in [Runs -> Seq(Texts)]
      BY <3>1
    <3>4. planned' \in Nat /\ longest' \in Nat
      BY <3>1
    <3>3. /\ UNCHANGED <<stored, genCursor, questions, since, batch, genFaults>>
          /\ gpc' = [gpc EXCEPT ![r] = "insert"]
      BY <2>3 DEF Generate
    <3> QED BY <3>2, <3>3, <3>4
  <2>4. CASE InsertQuestion(r)
    <3>1. /\ questions' = Append(questions, New(Head(survivors[r])))
          /\ survivors' = [survivors EXCEPT ![r] = Tail(@)]
          /\ Head(survivors[r]) \in Texts /\ Tail(survivors[r]) \in Seq(Texts)
      BY <2>4, Headed DEF InsertQuestion
    <3>2. New(Head(survivors[r])) \in Question
      BY <3>1 DEF New, Question, Statuses
    <3>3. questions' \in Seq(Question)
      BY <3>1, <3>2, AppendProperties
    <3> QED BY <2>4, <3>1, <3>3 DEF InsertQuestion
  <2>5. CASE AdvanceGenCursor(r)
    <3>1. PICK e \in batch[r] : genCursor' = WholeSecond(Captured[e])
      BY <2>5 DEF AdvanceGenCursor, Newest
    <3>2. genCursor' \in Nat
      BY <3>1, WholeSecondIsBefore
    <3> QED BY <1>e, <2>5, <3>2 DEF AdvanceGenCursor, Ends
  <2> QED BY <1>2, <2>1, <2>2, <2>3, <2>4, <2>5, <2>6 DEF CycleStep
<1>3. ASSUME NEW r \in Runs, CountFails(r) \/ InsertFails(r) \/ CycleFails(r) PROVE GenTypes'
  <2>1. genFaults' = genFaults + 1 /\ UNCHANGED <<stored, genCursor, questions, planned, longest>>
    BY <1>3 DEF CountFails, InsertFails, CycleFails, GenFault
  <2>2. CASE CountFails(r)
    BY <2>1, <2>2 DEF CountFails
  <2>3. CASE InsertFails(r)
    BY <2>1, <2>3, Headed DEF InsertFails
  <2>4. CASE CycleFails(r)
    BY <1>e, <2>1, <2>4 DEF CycleFails, Ends
  <2> QED BY <1>3, <2>2, <2>3, <2>4
<1>4. CASE Deliver
  <2>1. PICK q \in DOMAIN questions, s \in Statuses : questions' = [questions EXCEPT ![q].status = s]
    BY <1>4 DEF Deliver
  <2>2. q \in 1 .. Len(questions) /\ questions[q] \in Question
    BY <2>1, ElementOfSeq, LenProperties
  <2>3. questions' \in Seq(Question)
    <3>1. [questions[q] EXCEPT !.status = s] \in Question
      BY <2>2 DEF Question
    <3> QED BY <2>1, <2>2, <3>1, ExceptSeq
  <2> QED BY <1>4, <2>3 DEF Deliver
<1>5. CASE UNCHANGED genVars
  BY <1>5 DEF genVars
<1> QED BY <1>1, <1>2, <1>3, <1>4, <1>5 DEF GenNext, Generating

----------------------------------------------------------------------------
(* The events *)

Explained(e) == e \in covered \cup late \/ Tied(e)

\* What the cursor, and what each run has read, passes over is explained, or
\* is in the run's hands.
SeenInv ==
  /\ GenTypes
  /\ PassedIsSeenOrLate
  /\ \A r \in Runs, e \in stored : Captured[e] <= since[r] => Explained(e)
  /\ \A r \in Runs : \A e \in stored, f \in batch[r] :
       Captured[e] <= Captured[f] =>
         Explained(e) \/ \E g \in batch[r] : Captured[g] = Captured[e]

LEMMA ExplainedStays ==
  ASSUME covered \subseteq covered', late \subseteq late', NEW e, Explained(e)
  PROVE  Explained(e)'
  BY DEF Explained, Tied

\* A step that leaves the events and the cursor alone, and every run with the
\* cursor and the batch it has, or with none.
LEMMA SeenWhenIdle ==
  ASSUME SeenInv, GenTypes', UNCHANGED <<stored, late, genCursor, covered>>,
         \A r \in Runs : since'[r] \in {since[r], genCursor, 0} /\ batch'[r] \in {batch[r], {}}
  PROVE  SeenInv'
<1>1. \A e : Explained(e)' <=> Explained(e)
  BY DEF Explained, Tied
<1>2. PassedIsSeenOrLate'
  BY DEF SeenInv, PassedIsSeenOrLate, Tied
<1>3. ASSUME NEW r \in Runs, NEW e \in stored, Captured[e] <= since'[r]
      PROVE  Explained(e)
  <2>1. genCursor \in Nat /\ Captured[e] \in Nat
    BY DEF SeenInv, GenTypes
  <2>2. CASE since'[r] = since[r]
    BY <1>3, <2>2 DEF SeenInv
  <2>3. CASE since'[r] \in {genCursor, 0}
    <3>1. Captured[e] <= genCursor
      BY <1>3, <2>1, <2>3
    <3> QED BY <3>1 DEF SeenInv, PassedIsSeenOrLate, Explained
  <2> QED BY <2>2, <2>3
<1>4. ASSUME NEW r \in Runs, NEW e \in stored, NEW f \in batch'[r], Captured[e] <= Captured[f]
      PROVE  Explained(e) \/ \E g \in batch'[r] : Captured[g] = Captured[e]
  <2>1. batch'[r] = batch[r]
    OBVIOUS
  <2> QED BY <1>4, <2>1 DEF SeenInv
<1> QED BY <1>1, <1>2, <1>3, <1>4 DEF SeenInv

LEMMA SeenOnArrival ==
  ASSUME SeenInv, GenTypes', NEW x \in Events, Arrive(x)
  PROVE  SeenInv'
<1>1. /\ stored' = stored \cup {x} /\ late \subseteq late' /\ covered' = covered
      /\ UNCHANGED <<genCursor, since, batch>>
  BY DEF Arrive
<1>2. \/ Captured[x] <= genCursor
      \/ \E r \in Runs : Captured[x] <= since[r] \/ \E f \in batch[r] : Captured[x] <= Captured[f]
      => Explained(x)'
  BY DEF Arrive, Explained
<1>3. \A e \in stored : Explained(e) => Explained(e)'
  BY <1>1, ExplainedStays
<1>4. PassedIsSeenOrLate'
  <2> SUFFICES ASSUME NEW e \in stored', Captured[e] <= genCursor PROVE Explained(e)'
    BY <1>1 DEF PassedIsSeenOrLate, Explained
  <2>1. CASE e = x
    BY <1>2, <2>1
  <2>2. CASE e \in stored
    BY <1>3, <2>2 DEF SeenInv, PassedIsSeenOrLate, Explained
  <2> QED BY <1>1, <2>1, <2>2
<1>5. ASSUME NEW r \in Runs, NEW e \in stored', Captured[e] <= since[r] PROVE Explained(e)'
  <2>1. CASE e = x
    BY <1>2, <1>5, <2>1
  <2>2. CASE e \in stored
    BY <1>3, <1>5, <2>2 DEF SeenInv
  <2> QED BY <1>1, <2>1, <2>2
<1>6. ASSUME NEW r \in Runs, NEW e \in stored', NEW f \in batch[r], Captured[e] <= Captured[f]
      PROVE  Explained(e)' \/ \E g \in batch[r] : Captured[g] = Captured[e]
  <2>1. CASE e = x
    BY <1>2, <1>6, <2>1
  <2>2. CASE e \in stored
    BY <1>3, <1>6, <2>2 DEF SeenInv
  <2> QED BY <1>1, <2>1, <2>2
<1> QED BY <1>1, <1>4, <1>5, <1>6 DEF SeenInv

\* The query takes the oldest events: what it leaves behind is as old as they
\* are only if it has the time of one of them.
LEMMA SeenOnQuery ==
  ASSUME SeenInv, GenTypes', NEW r \in Runs, QueryEvents(r)
  PROVE  SeenInv'
<1>1. PICK B \in SUBSET After(since[r]) :
        /\ \A e \in B, f \in After(since[r]) \ B : Captured[e] <= Captured[f]
        /\ batch' = [batch EXCEPT ![r] = B]
  BY DEF QueryEvents
<1>2. UNCHANGED <<stored, late, genCursor, covered, since>>
  BY DEF QueryEvents
<1>3. batch'[r] = B /\ \A q \in Runs : q # r => batch'[q] = batch[q]
  BY <1>1 DEF SeenInv, GenTypes
<1>4. \A e : Explained(e)' <=> Explained(e)
  BY <1>2 DEF Explained, Tied
<1>5. ASSUME NEW e \in stored, NEW f \in B, Captured[e] <= Captured[f]
      PROVE  Explained(e) \/ \E g \in B : Captured[g] = Captured[e]
  <2>1. Captured[e] \in Nat /\ Captured[f] \in Nat /\ since[r] \in Nat
    BY <1>1 DEF SeenInv, GenTypes, After
  <2>2. CASE Captured[e] <= since[r]
    BY <2>2 DEF SeenInv
  <2>3. CASE e \in B
    BY <2>3
  <2>4. CASE e \in After(since[r]) \ B
    <3>1. Captured[f] = Captured[e]
      BY <1>1, <1>5, <2>1, <2>4
    <3> QED BY <3>1
  <2> QED BY <2>1, <2>2, <2>3, <2>4 DEF After
<1>6. \A q \in Runs : \A e \in stored, f \in batch'[q] :
        Captured[e] <= Captured[f] =>
          Explained(e) \/ \E g \in batch'[q] : Captured[g] = Captured[e]
  BY <1>3, <1>5 DEF SeenInv
<1>7. PassedIsSeenOrLate'
  BY <1>2 DEF SeenInv, PassedIsSeenOrLate, Tied
<1> QED BY <1>2, <1>4, <1>6, <1>7 DEF SeenInv

LEMMA SeenOnAdvance ==
  ASSUME SeenInv, GenTypes', NEW r \in Runs, AdvanceGenCursor(r)
  PROVE  SeenInv'
<1>1. PICK n \in Newest(batch[r]) : genCursor' = WholeSecond(Captured[n])
  BY DEF AdvanceGenCursor
<1>2. /\ covered' = covered \cup batch[r] /\ UNCHANGED <<stored, late>>
      /\ since' = [since EXCEPT ![r] = 0] /\ batch' = [batch EXCEPT ![r] = {}]
  BY DEF AdvanceGenCursor, Ends
<1>3. n \in batch[r] /\ n \in Events /\ Captured[n] \in Nat /\ genCursor' \in Nat
      /\ genCursor' <= Captured[n]
  BY <1>1, WholeSecondIsBefore DEF Newest, SeenInv, GenTypes
<1>4. \A e \in stored : Explained(e) => Explained(e)'
  BY <1>2, ExplainedStays
<1>5. ASSUME NEW e \in stored, Captured[e] <= Captured[n] PROVE Explained(e)'
  <2>1. Explained(e) \/ \E g \in batch[r] : Captured[g] = Captured[e]
    BY <1>3, <1>5 DEF SeenInv
  <2> QED BY <1>2, <1>4, <2>1 DEF Explained, Tied
<1>6. \A e \in stored : Captured[e] \in Nat
  BY DEF SeenInv, GenTypes
<1>7. PassedIsSeenOrLate'
  BY <1>2, <1>3, <1>5, <1>6 DEF PassedIsSeenOrLate, Explained
<1>8. since'[r] = 0 /\ batch'[r] = {}
      /\ \A q \in Runs : q # r => since'[q] = since[q] /\ batch'[q] = batch[q]
  BY <1>2 DEF SeenInv, GenTypes
<1>9. ASSUME NEW q \in Runs, NEW e \in stored, Captured[e] <= since'[q] PROVE Explained(e)'
  <2>1. CASE q = r
    BY <1>3, <1>5, <1>6, <1>8, <1>9, <2>1
  <2>2. CASE q # r
    BY <1>4, <1>8, <1>9, <2>2 DEF SeenInv
  <2> QED BY <2>1, <2>2
<1>10. ASSUME NEW q \in Runs, NEW e \in stored, NEW f \in batch'[q], Captured[e] <= Captured[f]
       PROVE  Explained(e)' \/ \E g \in batch'[q] : Captured[g] = Captured[e]
  BY <1>4, <1>8, <1>10 DEF SeenInv
<1> QED BY <1>2, <1>7, <1>9, <1>10 DEF SeenInv

LEMMA SeenInvStep == SeenInv /\ [GenNext]_genVars => SeenInv'
<1> SUFFICES ASSUME SeenInv, [GenNext]_genVars PROVE SeenInv'
  OBVIOUS
<1>1. GenTypes /\ GenTypes'
  BY GenTypesStep DEF SeenInv
<1>2. ASSUME NEW r \in Runs, CycleStep(r), ~QueryEvents(r), ~AdvanceGenCursor(r)
      PROVE  SeenInv'
  <2>1. UNCHANGED <<stored, late, genCursor, covered>>
    BY <1>2 DEF CycleStep, ReadCursor, NothingNew, CountReady, Generate, InsertQuestion
  <2>2. \A q \in Runs : since'[q] \in {since[q], genCursor, 0} /\ batch'[q] \in {batch[q], {}}
    BY <1>1, <1>2 DEF CycleStep, ReadCursor, NothingNew, CountReady, Generate, InsertQuestion,
                      Ends, GenTypes
  <2> QED BY <1>1, <2>1, <2>2, SeenWhenIdle
<1>3. ASSUME NEW r \in Runs, CountFails(r) \/ InsertFails(r) \/ CycleFails(r) PROVE SeenInv'
  <2>1. UNCHANGED <<stored, late, genCursor, covered>>
    BY <1>3 DEF CountFails, InsertFails, CycleFails
  <2>2. \A q \in Runs : since'[q] \in {since[q], genCursor, 0} /\ batch'[q] \in {batch[q], {}}
    BY <1>1, <1>3 DEF CountFails, InsertFails, CycleFails, Ends, GenTypes
  <2> QED BY <1>1, <2>1, <2>2, SeenWhenIdle
<1>4. CASE Deliver \/ UNCHANGED genVars
  <2>1. UNCHANGED <<stored, late, genCursor, covered, since, batch>>
    BY <1>4 DEF Deliver, genVars
  <2> QED BY <1>1, <2>1, SeenWhenIdle
<1> QED BY <1>1, <1>2, <1>3, <1>4, SeenOnArrival, SeenOnQuery, SeenOnAdvance
        DEF GenNext, Generating

\* However many runs overlap and set the cursor back or forth, no event is
\* passed over that is neither looked at nor late (generate.go:149-181).
THEOREM NothingPassedOver == GenSpec => []PassedIsSeenOrLate
<1>1. GenInit => SeenInv
  <2>1. GenInit => GenTypes
    BY GenTypesInit
  <2> QED BY <2>1 DEF GenInit, SeenInv, PassedIsSeenOrLate
<1>2. SeenInv => PassedIsSeenOrLate
  BY DEF SeenInv
<1> QED BY <1>1, <1>2, SeenInvStep, PTL DEF GenSpec

----------------------------------------------------------------------------
(* The questions *)

\* What each run holds, and that no question is made out of nothing.
LostInv ==
  /\ GenTypes
  /\ \A r \in Runs : Len(survivors[r]) <= longest
  /\ \A r \in Runs : survivors[r] # <<>> => gpc[r] = "insert"
  /\ longest <= planned /\ planned <= MaxQuestions
  /\ Len(questions) + Cardinality(Inserting) <= planned
  /\ QuestionsLostToFaults

\* One pair for each question that a run holds, and those of the other runs.
Pairs(held) == UNION {{<<r, i>> : i \in 1 .. Len(held[r])} : r \in Runs}
Others(held, r) == {p \in Pairs(held) : p[1] # r}

LEMMA InsertingIsPairs == Inserting = Pairs(survivors) /\ Inserting' = Pairs(survivors')
  BY DEF Inserting, Pairs

LEMMA PairsAreFinite ==
  ASSUME NEW held \in [Runs -> Seq(Texts)], NEW m \in Nat, \A r \in Runs : Len(held[r]) <= m
  PROVE  /\ Pairs(held) \subseteq Runs \X (1 .. m) /\ IsFiniteSet(Pairs(held))
         /\ Cardinality(Pairs(held)) \in Nat
<1>1. Pairs(held) \subseteq Runs \X (1 .. m)
  <2>1. \A r \in Runs : Len(held[r]) \in Nat
    BY LenProperties
  <2> QED BY <2>1 DEF Pairs
<1>2. IsFiniteSet(1 .. m)
  BY FS_Interval
<1>3. IsFiniteSet(Runs \X (1 .. m))
  BY <1>2, FS_Product
<1> QED BY <1>1, <1>3, FS_Subset, FS_CardinalityType

LEMMA NumbersOf ==
  ASSUME NEW r, NEW n \in Nat
  PROVE  IsFiniteSet({r} \X (1 .. n)) /\ Cardinality({r} \X (1 .. n)) = n
<1>1. IsFiniteSet(1 .. n) /\ Cardinality(1 .. n) = n
  BY FS_Interval
<1>2. IsFiniteSet({r}) /\ Cardinality({r}) = 1
  BY FS_Singleton
<1>3. IsFiniteSet({r} \X (1 .. n)) /\ Cardinality({r} \X (1 .. n)) = 1 * n
  BY <1>1, <1>2, FS_Product
<1> QED BY <1>3

\* As many pairs of one run as it has questions.
LEMMA PairsOfOne ==
  ASSUME NEW held \in [Runs -> Seq(Texts)], NEW m \in Nat, \A r \in Runs : Len(held[r]) <= m,
         NEW r \in Runs
  PROVE  /\ Cardinality(Others(held, r)) \in Nat /\ Len(held[r]) \in Nat
         /\ Cardinality(Pairs(held)) = Cardinality(Others(held, r)) + Len(held[r])
<1> DEFINE own == {r} \X (1 .. Len(held[r]))
<1>1. Len(held[r]) \in Nat
  BY LenProperties
<1>2. IsFiniteSet(own) /\ Cardinality(own) = Len(held[r])
  BY <1>1, NumbersOf
<1>3. IsFiniteSet(Others(held, r)) /\ Cardinality(Others(held, r)) \in Nat
  <2>1. IsFiniteSet(Pairs(held)) /\ Others(held, r) \in SUBSET Pairs(held)
    BY PairsAreFinite DEF Others
  <2> QED BY <2>1, FS_Subset, FS_CardinalityType
<1>4. Pairs(held) = Others(held, r) \cup own /\ Others(held, r) \cap own = {}
  BY DEF Pairs, Others
<1> HIDE DEF own
<1>5. Cardinality(Others(held, r) \cup own) =
        Cardinality(Others(held, r)) + Cardinality(own) - Cardinality(Others(held, r) \cap own)
  BY <1>2, <1>3, FS_Union
<1>6. Cardinality(Others(held, r) \cap own) = 0
  BY <1>4, FS_EmptySet
<1> QED BY <1>1, <1>2, <1>3, <1>4, <1>5, <1>6

\* The questions of one run change, and those of the others do not.
LEMMA InsertingChanged ==
  ASSUME LostInv, GenTypes', NEW r \in Runs, longest <= longest',
         \A q \in Runs : q # r => survivors'[q] = survivors[q],
         Len(survivors'[r]) <= longest'
  PROVE  /\ Cardinality(Inserting) \in Nat /\ Cardinality(Inserting') \in Nat
         /\ Len(survivors[r]) \in Nat /\ Len(survivors'[r]) \in Nat
         /\ Cardinality(Inserting') + Len(survivors[r])
              = Cardinality(Inserting) + Len(survivors'[r])
         /\ \A q \in Runs : Len(survivors'[q]) <= longest'
<1>1. /\ survivors \in [Runs -> Seq(Texts)] /\ survivors' \in [Runs -> Seq(Texts)]
      /\ longest \in Nat /\ longest' \in Nat
  BY DEF LostInv, GenTypes
<1>2. \A q \in Runs : Len(survivors[q]) \in Nat /\ Len(survivors'[q]) \in Nat
  BY <1>1, LenProperties
<1>3. \A q \in Runs : Len(survivors[q]) <= longest' /\ Len(survivors'[q]) <= longest'
  <2> SUFFICES ASSUME NEW q \in Runs
               PROVE  Len(survivors[q]) <= longest' /\ Len(survivors'[q]) <= longest'
    OBVIOUS
  <2>1. Len(survivors[q]) <= longest
    BY DEF LostInv
  <2>2. Len(survivors[q]) <= longest'
    BY <1>1, <1>2, <2>1
  <2> QED BY <2>2
<1>4. Others(survivors', r) = Others(survivors, r)
  BY DEF Others, Pairs
<1>5. /\ Cardinality(Others(survivors, r)) \in Nat
      /\ Cardinality(Pairs(survivors)) = Cardinality(Others(survivors, r)) + Len(survivors[r])
  BY <1>1, <1>3, PairsOfOne
<1>6. Cardinality(Pairs(survivors')) = Cardinality(Others(survivors', r)) + Len(survivors'[r])
  BY <1>1, <1>3, PairsOfOne
<1>7. Inserting = Pairs(survivors) /\ Inserting' = Pairs(survivors')
  BY InsertingIsPairs
<1> QED BY <1>2, <1>3, <1>4, <1>5, <1>6, <1>7

\* Each failure may lose what one run holds, and no answer gets shorter.
LEMMA LongestOfFaults ==
  ASSUME NEW k \in Nat, NEW l \in Nat, l <= k, NEW n \in Nat
  PROVE  /\ l * n \in Nat /\ k * n \in Nat /\ l * n <= k * n
         /\ k * (n + 1) = k * n + k
<1>1. PICK d \in Nat : k = l + d
  <2>1. k - l \in Nat /\ k = l + (k - l)
    OBVIOUS
  <2> QED BY <2>1
<1>2. l * n \in Nat /\ d * n \in Nat
  OBVIOUS
<1>3. k * n = l * n + d * n
  BY <1>1
<1>4. k * (n + 1) = k * n + k
  OBVIOUS
<1> QED BY <1>2, <1>3, <1>4

LEMMA ProductIsNat == ASSUME NEW l \in Nat, NEW f \in Nat PROVE l * f \in Nat
  OBVIOUS

\* What a step does to the questions of run r: so many were made, went into the
\* queue, were lost with a failure.
Moves(r, made, queued, lost) ==
  /\ made \in Nat /\ queued \in Nat /\ lost \in Nat
  /\ planned' = planned + made /\ Len(questions') = Len(questions) + queued
  /\ Len(survivors'[r]) + queued + lost = Len(survivors[r]) + made
  /\ \/ lost = 0 /\ genFaults' = genFaults
     \/ lost <= longest /\ genFaults' = genFaults + 1

\* q questions are in the queue, i in the hands of runs, l is the longest answer,
\* f calls failed.
LEMMA Balance ==
  ASSUME NEW q \in Nat, NEW i \in Nat, NEW i2 \in Nat, NEW l \in Nat, NEW l2 \in Nat,
         NEW f \in Nat, NEW f2 \in Nat, NEW made \in Nat, NEW queued \in Nat, NEW lost \in Nat,
         l <= l2, i2 + queued + lost = i + made,
         (lost = 0 /\ f2 = f) \/ (lost <= l /\ f2 = f + 1)
  PROVE  q + i + l * f + made <= q + queued + i2 + l2 * f2
<1>1. /\ l * f \in Nat /\ l2 * f \in Nat /\ l * f <= l2 * f
      /\ l2 * (f + 1) = l2 * f + l2
  BY LongestOfFaults
<1>2. CASE lost = 0 /\ f2 = f
  BY <1>1, <1>2
<1>3. CASE lost <= l /\ f2 = f + 1
  <2>1. l2 * f2 = l2 * f + l2
    BY <1>1, <1>3
  <2> QED BY <1>1, <1>3, <2>1
<1> QED BY <1>2, <1>3

\* The account of a step of run r.
LEMMA LostWhenCounted ==
  ASSUME LostInv, GenTypes', NEW r \in Runs,
         \A q \in Runs : q # r => survivors'[q] = survivors[q] /\ gpc'[q] = gpc[q],
         longest <= longest', Len(survivors'[r]) <= longest', longest' <= planned',
         planned' <= MaxQuestions,
         survivors'[r] # <<>> => gpc'[r] = "insert",
         NEW made, NEW queued, NEW lost, Moves(r, made, queued, lost)
  PROVE  LostInv'
<1> DEFINE I == Cardinality(Inserting) J == Cardinality(Inserting')
           Q == Len(questions) H == Len(survivors[r]) G == Len(survivors'[r])
<1>1. /\ planned \in Nat /\ longest \in Nat /\ longest' \in Nat
      /\ genFaults \in Nat /\ genFaults' \in Nat /\ Q \in Nat
  BY LenProperties DEF LostInv, GenTypes
<1>2. /\ I \in Nat /\ J \in Nat /\ H \in Nat /\ G \in Nat /\ J + H = I + G
      /\ \A q \in Runs : Len(survivors'[q]) <= longest'
  BY InsertingChanged
<1>3. Q + I <= planned /\ planned <= Q + I + longest * genFaults
  BY DEF LostInv, QuestionsLostToFaults
<1>4. /\ made \in Nat /\ queued \in Nat /\ lost \in Nat
      /\ planned' = planned + made /\ Len(questions') = Q + queued
      /\ G + queued + lost = H + made
      /\ (lost = 0 /\ genFaults' = genFaults) \/ (lost <= longest /\ genFaults' = genFaults + 1)
  BY DEF Moves
<1> HIDE DEF I, J, Q, H, G
<1>5. J + queued + lost = I + made
  BY <1>2, <1>4
<1>6. (Q + queued) + J <= planned + made
  BY <1>1, <1>2, <1>3, <1>4, <1>5
<1>7. Q + I + longest * genFaults + made <= Q + queued + J + longest' * genFaults'
  <2> DEFINE l == longest k == longest' f == genFaults g == genFaults'
  <2>1. l \in Nat /\ k \in Nat /\ l <= k /\ f \in Nat /\ g \in Nat
        /\ ((lost = 0 /\ g = f) \/ (lost <= l /\ g = f + 1))
    BY <1>1, <1>4
  <2> HIDE DEF l, k, f, g
  <2>2. Q + I + l * f + made <= Q + queued + J + k * g
    BY <1>1, <1>2, <1>4, <1>5, <2>1, Balance
  <2> QED BY <2>2 DEF l, k, f, g
<1>8. longest * genFaults \in Nat /\ longest' * genFaults' \in Nat
  BY <1>1, ProductIsNat
<1>9. planned + made <= (Q + queued) + J + longest' * genFaults'
  <2> DEFINE a == longest * genFaults b == longest' * genFaults'
  <2>1. a \in Nat /\ b \in Nat
    BY <1>8
  <2>2. planned <= Q + I + a /\ Q + I + a + made <= Q + queued + J + b
    BY <1>3, <1>7
  <2> HIDE DEF a, b
  <2>3. planned + made <= (Q + queued) + J + b
    BY <1>1, <1>2, <1>4, <2>1, <2>2
  <2> QED BY <2>3 DEF b
<1>10. /\ Len(questions') + J <= planned'
       /\ planned' <= Len(questions') + J + longest' * genFaults'
  BY <1>4, <1>6, <1>9
<1>11. /\ Len(questions') + Cardinality(Inserting') <= planned'
       /\ QuestionsLostToFaults'
  BY <1>10 DEF QuestionsLostToFaults, J
<1>12. \A q \in Runs : survivors'[q] # <<>> => gpc'[q] = "insert"
  BY DEF LostInv
<1> QED BY <1>2, <1>11, <1>12 DEF LostInv

\* A step of run r that makes no question and moves none.
LEMMA LostWhenStill ==
  ASSUME LostInv, GenTypes', NEW r \in Runs,
         \A q \in Runs : q # r => gpc'[q] = gpc[q],
         survivors[r] # <<>> => gpc'[r] = "insert",
         UNCHANGED <<survivors, questions, planned, longest>>,
         genFaults' \in {genFaults, genFaults + 1}
  PROVE  LostInv'
<1>1. /\ planned \in Nat /\ longest \in Nat /\ Len(questions) \in Nat /\ Len(survivors[r]) \in Nat
      /\ Len(survivors[r]) <= longest /\ longest <= planned /\ planned <= MaxQuestions
  BY LenProperties DEF LostInv, GenTypes
<1>2. Moves(r, 0, 0, 0)
  BY <1>1 DEF Moves
<1>3. longest <= longest' /\ Len(survivors'[r]) <= longest' /\ longest' <= planned'
      /\ planned' <= MaxQuestions
  BY <1>1
<1> QED BY <1>2, <1>3, LostWhenCounted

\* A run ends where it stands: the questions it holds are lost.
LEMMA LostWhenEnding ==
  ASSUME LostInv, GenTypes', NEW r \in Runs, Ends(r),
         UNCHANGED <<planned, longest, questions>>,
         \/ survivors[r] = <<>> /\ genFaults' = genFaults
         \/ genFaults' = genFaults + 1
  PROVE  LostInv'
<1>1. /\ survivors'[r] = <<>>
      /\ \A q \in Runs : q # r => survivors'[q] = survivors[q] /\ gpc'[q] = gpc[q]
  BY DEF Ends, LostInv, GenTypes
<1>2. /\ planned \in Nat /\ longest \in Nat /\ Len(questions) \in Nat /\ Len(survivors[r]) \in Nat
      /\ Len(survivors[r]) <= longest /\ longest <= planned /\ planned <= MaxQuestions
      /\ Len(survivors'[r]) = 0 /\ (survivors[r] = <<>> => Len(survivors[r]) = 0)
  BY <1>1, LenProperties, EmptySeq DEF LostInv, GenTypes
<1>3. Moves(r, 0, 0, Len(survivors[r]))
  BY <1>2 DEF Moves
<1>4. longest <= longest' /\ Len(survivors'[r]) <= longest' /\ longest' <= planned'
      /\ planned' <= MaxQuestions
  BY <1>2
<1> QED BY <1>1, <1>3, <1>4, LostWhenCounted

\* The model makes questions for a run that holds none.
LEMMA LostOnGenerate ==
  ASSUME LostInv, GenTypes', NEW r \in Runs, Generate(r)
  PROVE  LostInv'
<1>1. PICK n \in Nat : /\ survivors'[r] \in Seq(Texts) /\ Len(survivors'[r]) = n
                       /\ survivors' = [survivors EXCEPT ![r] = survivors'[r]]
                       /\ planned' = planned + n /\ planned' <= MaxQuestions
                       /\ longest' = IF n > longest THEN n ELSE longest
  BY ModelAnswers DEF LostInv
<1>2. UNCHANGED <<questions, genFaults>> /\ gpc' = [gpc EXCEPT ![r] = "insert"]
      /\ gpc[r] = "model" /\ survivors[r] = <<>>
  BY DEF Generate, LostInv
<1>3. /\ gpc'[r] = "insert"
      /\ \A q \in Runs : q # r => survivors'[q] = survivors[q] /\ gpc'[q] = gpc[q]
  BY <1>1, <1>2 DEF LostInv, GenTypes
<1>4. /\ planned \in Nat /\ longest \in Nat /\ Len(questions) \in Nat /\ Len(survivors[r]) = 0
      /\ longest <= planned
  BY <1>2, LenProperties, EmptySeq DEF LostInv, GenTypes
<1>5. longest <= longest' /\ Len(survivors'[r]) <= longest' /\ longest' <= planned'
  BY <1>1, <1>4
<1>6. Moves(r, n, 0, 0)
  BY <1>1, <1>2, <1>4 DEF Moves
<1> QED BY <1>1, <1>3, <1>5, <1>6, LostWhenCounted

\* A question leaves the run's hands, into the queue or, with a failure, out of
\* the world.
LEMMA LostOnInsert ==
  ASSUME LostInv, GenTypes', NEW r \in Runs, InsertQuestion(r) \/ InsertFails(r)
  PROVE  LostInv'
<1>1. /\ survivors' = [survivors EXCEPT ![r] = Tail(@)] /\ survivors[r] # <<>>
      /\ UNCHANGED <<planned, longest, gpc>> /\ gpc[r] = "insert"
  BY DEF InsertQuestion, InsertFails
<1>2. /\ survivors'[r] = Tail(survivors[r])
      /\ \A q \in Runs : q # r => survivors'[q] = survivors[q]
  BY <1>1 DEF LostInv, GenTypes
<1>3. /\ Head(survivors[r]) \in Texts /\ Len(survivors[r]) \in Nat \ {0}
      /\ Len(survivors'[r]) = Len(survivors[r]) - 1
  BY <1>1, <1>2, Headed DEF LostInv
<1>4. /\ planned \in Nat /\ longest \in Nat /\ Len(questions) \in Nat
      /\ Len(survivors[r]) <= longest /\ longest <= planned /\ planned <= MaxQuestions
  BY LenProperties DEF LostInv, GenTypes
<1>5. longest <= longest' /\ Len(survivors'[r]) <= longest' /\ longest' <= planned'
      /\ planned' <= MaxQuestions /\ gpc'[r] = "insert"
  BY <1>1, <1>3, <1>4
<1>6. CASE InsertQuestion(r)
  <2>1. questions' = Append(questions, New(Head(survivors[r]))) /\ genFaults' = genFaults
    BY <1>6 DEF InsertQuestion
  <2>2. New(Head(survivors[r])) \in Question
    BY <1>3 DEF New, Question, Statuses
  <2>3. Len(questions') = Len(questions) + 1
    BY <2>1, <2>2, AppendProperties DEF LostInv, GenTypes
  <2>4. Moves(r, 0, 1, 0)
    BY <1>1, <1>3, <1>4, <2>1, <2>3 DEF Moves
  <2> QED BY <1>1, <1>2, <1>5, <2>4, LostWhenCounted
<1>7. CASE InsertFails(r)
  <2>1. questions' = questions /\ genFaults' = genFaults + 1
    BY <1>7 DEF InsertFails, GenFault
  <2>2. Moves(r, 0, 0, 1)
    BY <1>1, <1>3, <1>4, <2>1 DEF Moves
  <2> QED BY <1>1, <1>2, <1>5, <2>2, LostWhenCounted
<1> QED BY <1>6, <1>7

LEMMA LostInvStep == LostInv /\ [GenNext]_genVars => LostInv'
<1> SUFFICES ASSUME LostInv, [GenNext]_genVars PROVE LostInv'
  OBVIOUS
<1>1. GenTypes /\ GenTypes'
  BY GenTypesStep DEF LostInv
<1>2. \A r \in Runs : survivors[r] # <<>> => gpc[r] = "insert"
  BY DEF LostInv
<1>3. ASSUME UNCHANGED <<planned, longest, survivors, gpc, genFaults>>,
             Len(questions') = Len(questions)
      PROVE  LostInv'
  <2>1. Inserting' = Inserting
    BY <1>3 DEF Inserting
  <2> QED BY <1>1, <1>3, <2>1 DEF LostInv, QuestionsLostToFaults
<1>4. CASE (\E e \in Events : Arrive(e)) \/ UNCHANGED genVars
  <2>1. UNCHANGED <<questions, planned, longest, survivors, gpc, genFaults>>
    BY <1>4 DEF Arrive, genVars
  <2> QED BY <1>3, <2>1
<1>5. ASSUME NEW r \in Runs, CycleStep(r) PROVE LostInv'
  <2>1. CASE ReadCursor(r) \/ QueryEvents(r) \/ CountReady(r)
    <3>1. /\ gpc[r] # "insert" /\ \E to : gpc' = [gpc EXCEPT ![r] = to]
          /\ UNCHANGED <<questions, planned, longest, survivors, genFaults>>
      BY <2>1 DEF ReadCursor, QueryEvents, CountReady
    <3>2. survivors[r] = <<>> /\ \A q \in Runs : q # r => gpc'[q] = gpc[q]
      BY <1>1, <1>2, <3>1 DEF GenTypes
    <3> QED BY <1>1, <3>1, <3>2, LostWhenStill
  <2>2. CASE NothingNew(r)
    <3>1. gpc[r] = "query" /\ Ends(r) /\ UNCHANGED <<planned, longest, questions, genFaults>>
      BY <2>2 DEF NothingNew
    <3> QED BY <1>1, <1>2, <3>1, LostWhenEnding
  <2>3. CASE AdvanceGenCursor(r)
    <3>1. survivors[r] = <<>> /\ Ends(r) /\ UNCHANGED <<planned, longest, questions, genFaults>>
      BY <2>3 DEF AdvanceGenCursor
    <3> QED BY <1>1, <3>1, LostWhenEnding
  <2> QED BY <1>1, <1>5, <2>1, <2>2, <2>3, LostOnGenerate, LostOnInsert DEF CycleStep
<1>6. ASSUME NEW r \in Runs, CountFails(r) \/ InsertFails(r) \/ CycleFails(r) PROVE LostInv'
  <2>1. CASE CountFails(r)
    <3>1. /\ gpc[r] = "count" /\ gpc' = [gpc EXCEPT ![r] = "model"]
          /\ UNCHANGED <<questions, planned, longest, survivors>> /\ genFaults' = genFaults + 1
      BY <2>1 DEF CountFails, GenFault
    <3>2. survivors[r] = <<>> /\ \A q \in Runs : q # r => gpc'[q] = gpc[q]
      BY <1>1, <1>2, <3>1 DEF GenTypes
    <3> QED BY <1>1, <3>1, <3>2, LostWhenStill
  <2>2. CASE CycleFails(r)
    <3>1. Ends(r) /\ genFaults' = genFaults + 1 /\ UNCHANGED <<planned, longest, questions>>
      BY <2>2 DEF CycleFails, GenFault
    <3> QED BY <1>1, <3>1, LostWhenEnding
  <2> QED BY <1>1, <1>6, <2>1, <2>2, LostOnInsert
<1>7. CASE Deliver
  <2>1. PICK q \in DOMAIN questions, s \in Statuses : questions' = [questions EXCEPT ![q].status = s]
    BY <1>7 DEF Deliver
  <2>2. Len(questions') = Len(questions)
    <3>1. q \in 1 .. Len(questions) /\ questions[q] \in Question
      BY <1>1, <2>1, ElementOfSeq, LenProperties DEF GenTypes
    <3>2. [questions[q] EXCEPT !.status = s] \in Question
      BY <3>1 DEF Question
    <3> QED BY <1>1, <2>1, <3>1, <3>2, ExceptSeq DEF GenTypes
  <2>3. UNCHANGED <<planned, longest, survivors, gpc, genFaults>>
    BY <1>7 DEF Deliver
  <2> QED BY <1>3, <2>2, <2>3
<1> QED BY <1>4, <1>5, <1>6, <1>7 DEF GenNext, Generating

LEMMA LostInvInit == GenInit => LostInv
<1> SUFFICES ASSUME GenInit PROVE LostInv
  OBVIOUS
<1>1. GenTypes
  BY GenTypesInit
<1>2. Len(<<>>) = 0 /\ \A r \in Runs : survivors[r] = <<>>
  BY EmptySeq DEF GenInit
<1>3. Inserting = {} /\ Cardinality({}) = 0
  BY <1>2, FS_EmptySet DEF Inserting
<1> QED BY <1>1, <1>2, <1>3 DEF GenInit, LostInv, QuestionsLostToFaults

\* A question the filter kept is lost only with a call that failed, as many at a
\* time as the longest answer held, however many runs overlap and however many
\* questions each answer holds (generate.go:428-445).
THEOREM QuestionsAreKept == GenSpec => []QuestionsLostToFaults
<1>1. LostInv => QuestionsLostToFaults
  BY DEF LostInv
<1> QED BY <1>1, LostInvInit, LostInvStep, PTL DEF GenSpec

----------------------------------------------------------------------------
(* The ready queue *)

\* The runs whose answer is to come, and those that insert one.
Modelling == {r \in Runs : gpc[r] = "model"}
Filling == {r \in Runs : gpc[r] = "insert"}

LEMMA HandsAreRuns ==
  /\ Cardinality(Modelling) \in Nat /\ Cardinality(Filling) \in Nat
  /\ IsFiniteSet(Modelling) /\ IsFiniteSet(Filling) /\ Cardinality(Runs) \in Nat
  /\ Cardinality(Modelling) + Cardinality(Filling) <= Cardinality(Runs)
<1>1. Modelling \in SUBSET Runs /\ Filling \in SUBSET Runs
      /\ Modelling \cup Filling \in SUBSET Runs /\ Modelling \cap Filling = {}
  BY DEF Modelling, Filling
<1>2. /\ IsFiniteSet(Modelling) /\ IsFiniteSet(Filling)
      /\ Cardinality(Modelling \cup Filling) <= Cardinality(Runs)
  BY <1>1, FS_Subset
<1>3. /\ Cardinality(Modelling) \in Nat /\ Cardinality(Filling) \in Nat
      /\ Cardinality(Runs) \in Nat
  BY <1>2, FS_CardinalityType
<1>4. Cardinality(Modelling \cup Filling) =
        Cardinality(Modelling) + Cardinality(Filling) - Cardinality(Modelling \cap Filling)
  BY <1>2, FS_Union
<1>5. Cardinality(Modelling \cap Filling) = 0
  BY <1>1, FS_EmptySet
<1> QED BY <1>2, <1>3, <1>4, <1>5

\* The runs that insert hold no more than the longest answer each.
LEMMA InsertingBounded == LostInv => Cardinality(Inserting) <= longest * Cardinality(Filling)
<1> SUFFICES ASSUME LostInv PROVE Cardinality(Inserting) <= longest * Cardinality(Filling)
  OBVIOUS
<1>1. longest \in Nat /\ \A r \in Runs : Len(survivors[r]) \in Nat /\ Len(survivors[r]) <= longest
  BY LenProperties DEF LostInv, GenTypes
<1>2. Inserting \subseteq Filling \X (1 .. longest)
  <2> SUFFICES ASSUME NEW r \in Runs, NEW i \in 1 .. Len(survivors[r])
               PROVE  r \in Filling /\ i \in 1 .. longest
    BY DEF Inserting
  <2>1. survivors[r] # <<>>
    BY EmptySeq
  <2> QED BY <1>1, <2>1 DEF Filling, LostInv
<1>3. /\ IsFiniteSet(Filling \X (1 .. longest))
      /\ Cardinality(Filling \X (1 .. longest)) = Cardinality(Filling) * longest
  <2>1. IsFiniteSet(1 .. longest) /\ Cardinality(1 .. longest) = longest
    BY <1>1, FS_Interval
  <2> QED BY <2>1, HandsAreRuns, FS_Product
<1>4. Cardinality(Filling) * longest = longest * Cardinality(Filling)
  <2>1. Cardinality(Filling) \in Nat
    BY HandsAreRuns
  <2> QED BY <1>1, <2>1
<1>5. Cardinality(Inserting) <= Cardinality(Filling \X (1 .. longest))
  BY <1>2, <1>3, FS_Subset
<1> QED BY <1>3, <1>4, <1>5

\* Every question that is ready, or may become so by what is under way, finds
\* room: in the queue as it was counted, in an answer of its run or of a failure.
Room == MaxReady + longest * (Cardinality(Runs) + genFaults)

ReadyInv ==
  /\ LostInv
  /\ Cardinality(Ready) + Cardinality(Inserting) + longest * Cardinality(Modelling) < Room

\* The numbers that the invariant adds up.
LEMMA RoomIsCounted ==
  ASSUME LostInv
  PROVE  /\ Cardinality(Ready) \in Nat /\ IsFiniteSet(Ready) /\ longest \in Nat
         /\ Cardinality(Inserting) \in Nat /\ IsFiniteSet(Inserting)
         /\ longest * Cardinality(Modelling) \in Nat
         /\ longest * (Cardinality(Modelling) + 1) = longest * Cardinality(Modelling) + longest
         /\ Room \in Nat /\ Room >= MaxReady + longest * Cardinality(Runs)
         /\ longest * Cardinality(Runs) \in Nat
         /\ MaxReady + longest * (Cardinality(Runs) + (genFaults + 1)) = Room + longest
<1>1. Ready \in SUBSET (1 .. Len(questions)) /\ Len(questions) \in Nat /\ genFaults \in Nat
  BY LenProperties DEF Ready, LostInv, GenTypes
<1>2. IsFiniteSet(Ready) /\ Cardinality(Ready) \in Nat
  <2>1. IsFiniteSet(1 .. Len(questions))
    BY <1>1, FS_Interval
  <2>2. IsFiniteSet(Ready)
    BY <1>1, <2>1, FS_Subset
  <2> QED BY <2>2, FS_CardinalityType
<1>3. IsFiniteSet(Inserting) /\ Cardinality(Inserting) \in Nat
  BY InsertingIsPairs, PairsAreFinite DEF LostInv, GenTypes
<1>4. Cardinality(Modelling) \in Nat /\ Cardinality(Runs) \in Nat /\ longest \in Nat
  BY HandsAreRuns DEF LostInv, GenTypes
<1>5. /\ longest * Cardinality(Modelling) \in Nat
      /\ longest * (Cardinality(Modelling) + 1) = longest * Cardinality(Modelling) + longest
  BY <1>4, LongestOfFaults
<1>6. /\ longest * (Cardinality(Runs) + genFaults) \in Nat
      /\ longest * (Cardinality(Runs) + genFaults + 1)
           = longest * (Cardinality(Runs) + genFaults) + longest
  BY <1>1, <1>4, LongestOfFaults, Cardinality(Runs) + genFaults \in Nat
<1>7. /\ longest * Cardinality(Runs) \in Nat
      /\ longest * Cardinality(Runs) <= longest * (Cardinality(Runs) + genFaults)
  <2>1. /\ longest * Cardinality(Runs) \in Nat /\ longest * genFaults \in Nat
        /\ longest * (Cardinality(Runs) + genFaults)
             = longest * Cardinality(Runs) + longest * genFaults
    BY <1>1, <1>4
  <2> QED BY <2>1
<1>8. MaxReady \in Nat /\ (Cardinality(Runs) + genFaults) + 1 = Cardinality(Runs) + (genFaults + 1)
  BY <1>1, <1>4
<1> QED BY <1>2, <1>3, <1>4, <1>5, <1>6, <1>7, <1>8 DEF Room

\* A step that gives nothing new to the queue, to a run or to the model.
LEMMA ReadyWhenIdle ==
  ASSUME ReadyInv, LostInv', Ready' \subseteq Ready, Inserting' \subseteq Inserting,
         Modelling' \subseteq Modelling, longest' = longest,
         genFaults' \in {genFaults, genFaults + 1}
  PROVE  ReadyInv'
<1>1. /\ Cardinality(Ready') <= Cardinality(Ready)
      /\ Cardinality(Inserting') <= Cardinality(Inserting)
  BY RoomIsCounted, FS_Subset DEF ReadyInv
<1>2. longest * Cardinality(Modelling') <= longest * Cardinality(Modelling)
  <2>1. Cardinality(Modelling') <= Cardinality(Modelling) /\ Cardinality(Modelling') \in Nat
    BY HandsAreRuns, FS_Subset, FS_CardinalityType
  <2>2. Cardinality(Modelling) \in Nat /\ longest \in Nat
    BY HandsAreRuns DEF ReadyInv, LostInv, GenTypes
  <2> QED BY <2>1, <2>2
<1>3. Room' >= Room
  <2>1. CASE genFaults' = genFaults
    BY <2>1, RoomIsCounted DEF ReadyInv, Room
  <2>2. CASE genFaults' = genFaults + 1
    <3>1. Room' = MaxReady + longest * (Cardinality(Runs) + (genFaults + 1))
      BY <2>2 DEF Room
    <3> QED BY <3>1, RoomIsCounted DEF ReadyInv
  <2> QED BY <2>1, <2>2
<1>4. /\ Cardinality(Ready') \in Nat /\ Cardinality(Inserting') \in Nat
      /\ longest' * Cardinality(Modelling') \in Nat /\ Room' \in Nat
  <2>1. Cardinality(Ready') \in Nat /\ Cardinality(Inserting') \in Nat
    BY RoomIsCounted, FS_Subset, FS_CardinalityType DEF ReadyInv
  <2>2. Cardinality(Modelling') \in Nat
    BY HandsAreRuns, FS_Subset, FS_CardinalityType
  <2>3. longest' * Cardinality(Modelling') \in Nat
    BY <2>2, LongestOfFaults DEF LostInv, GenTypes
  <2>4. Room' \in Nat
    <3>1. /\ genFaults' \in Nat /\ Cardinality(Runs) \in Nat /\ MaxReady \in Nat
          /\ longest' \in Nat
      BY HandsAreRuns DEF LostInv, GenTypes
    <3>2. longest' * (Cardinality(Runs) + genFaults') \in Nat
      BY <3>1, LongestOfFaults, Cardinality(Runs) + genFaults' \in Nat
    <3> QED BY <3>1, <3>2 DEF Room
  <2> QED BY <2>1, <2>3, <2>4
<1>5. Cardinality(Ready) + Cardinality(Inserting) + longest * Cardinality(Modelling) < Room
  BY DEF ReadyInv
<1>6. Cardinality(Ready') + Cardinality(Inserting') + longest' * Cardinality(Modelling') < Room'
  BY <1>1, <1>2, <1>3, <1>4, <1>5, RoomIsCounted DEF ReadyInv
<1> QED BY <1>6 DEF ReadyInv

\* The count lets a run on: what is ready is below the limit, and what the runs
\* may still add is a batch of each.
LEMMA ReadyOnCount ==
  ASSUME ReadyInv, LostInv', NEW r \in Runs, CountReady(r)
  PROVE  ReadyInv'
<1>1. UNCHANGED <<questions, survivors, longest, genFaults>> /\ gpc[r] = "count"
  BY DEF CountReady
<1>2. Ready' = Ready /\ Inserting' = Inserting /\ Room' = Room
  BY <1>1 DEF Ready, Inserting, Room
<1>3. CASE Cardinality(Ready) >= MaxReady
  <2>1. gpc' = [gpc EXCEPT ![r] = "insert"]
    BY <1>3 DEF CountReady
  <2>2. Modelling' \subseteq Modelling
    BY <2>1 DEF Modelling, ReadyInv, LostInv, GenTypes
  <2> QED BY <1>1, <1>2, <2>2, ReadyWhenIdle
<1>4. CASE ~(Cardinality(Ready) >= MaxReady)
  <2>1. Cardinality(Ready) < MaxReady
    BY <1>4, RoomIsCounted DEF ReadyInv
  <2>2. Cardinality(Inserting') + longest * Cardinality(Modelling') <= longest * Cardinality(Runs)
    <3> DEFINE F == Cardinality(Filling') M == Cardinality(Modelling') N == Cardinality(Runs)
    <3>1. Cardinality(Inserting') <= longest * F
      <4>1. (LostInv => Cardinality(Inserting) <= longest * Cardinality(Filling))'
        BY InsertingBounded, PTL
      <4> QED BY <1>1, <4>1
    <3>2. F \in Nat /\ M \in Nat /\ N \in Nat /\ M + F <= N
      <4>1. (/\ Cardinality(Modelling) \in Nat /\ Cardinality(Filling) \in Nat
             /\ IsFiniteSet(Modelling) /\ IsFiniteSet(Filling) /\ Cardinality(Runs) \in Nat
             /\ Cardinality(Modelling) + Cardinality(Filling) <= Cardinality(Runs))'
        BY HandsAreRuns, PTL
      <4> QED BY <4>1
    <3> HIDE DEF F, M, N
    <3>3. longest * (M + F) = longest * M + longest * F /\ longest * (M + F) <= longest * N
          /\ longest * M \in Nat /\ longest * F \in Nat /\ longest * N \in Nat
      BY <3>2, RoomIsCounted DEF ReadyInv
    <3>4. Cardinality(Inserting') \in Nat
      BY <1>2, RoomIsCounted DEF ReadyInv
    <3>5. Cardinality(Inserting') + longest * M <= longest * N
      BY <3>1, <3>3, <3>4
    <3> QED BY <3>5 DEF M, N
  <2>3. longest * Cardinality(Modelling') \in Nat
    <3>1. Modelling' \in SUBSET Runs
      BY DEF Modelling
    <3>2. Cardinality(Modelling') \in Nat
      BY <3>1, FS_Subset, FS_CardinalityType
    <3> QED BY <3>2, RoomIsCounted, LongestOfFaults DEF ReadyInv
  <2> QED BY <1>1, <1>2, <2>1, <2>2, <2>3, RoomIsCounted DEF ReadyInv
<1> QED BY <1>3, <1>4

\* The count fails, which lets a run on and counts as a failure.
LEMMA ReadyOnCountFails ==
  ASSUME ReadyInv, LostInv', NEW r \in Runs, CountFails(r)
  PROVE  ReadyInv'
<1>1. /\ UNCHANGED <<questions, survivors, longest>> /\ genFaults' = genFaults + 1
      /\ gpc[r] = "count" /\ gpc' = [gpc EXCEPT ![r] = "model"]
  BY DEF CountFails, GenFault
<1>2. Ready' = Ready /\ Inserting' = Inserting
  BY <1>1 DEF Ready, Inserting
<1>3. Modelling' = Modelling \cup {r} /\ r \notin Modelling
  BY <1>1 DEF Modelling, ReadyInv, LostInv, GenTypes
<1>4. longest * Cardinality(Modelling') = longest * Cardinality(Modelling) + longest
  <2>1. Cardinality(Modelling') = Cardinality(Modelling) + 1
    BY <1>3, HandsAreRuns, FS_AddElement
  <2> QED BY <2>1, RoomIsCounted DEF ReadyInv
<1>5. Room' = Room + longest
  <2>1. Room' = MaxReady + longest * (Cardinality(Runs) + (genFaults + 1))
    BY <1>1 DEF Room
  <2> QED BY <2>1, RoomIsCounted DEF ReadyInv
<1>6. Cardinality(Ready) + Cardinality(Inserting) + longest * Cardinality(Modelling) < Room
  BY DEF ReadyInv
<1> QED BY <1>1, <1>2, <1>4, <1>5, <1>6, RoomIsCounted DEF ReadyInv

\* One of M answers to come is there, has n questions, and makes the longest k
\* instead of l.
LEMMA AnswerFits ==
  ASSUME NEW A \in Nat, NEW X \in Nat, NEW k \in Nat, NEW l \in Nat, NEW n \in Nat,
         NEW M \in Nat, NEW N \in Nat, l <= k, n <= k, M + 1 <= N,
         A + l * (M + 1) < X + l * N
  PROVE  A + n + k * M < X + k * N
<1>1. PICK e \in Nat : N = (M + 1) + e
  <2>1. N - (M + 1) \in Nat /\ N = (M + 1) + (N - (M + 1))
    OBVIOUS
  <2> QED BY <2>1
<1>2. l * (M + 1) \in Nat /\ l * e \in Nat /\ k * e \in Nat /\ l * e <= k * e
      /\ k * M \in Nat /\ k * (M + 1) = k * M + k
  BY LongestOfFaults, M + 1 \in Nat
<1>3. l * N = l * (M + 1) + l * e
  BY <1>1
<1>4. k * N = k * (M + 1) + k * e
  BY <1>1
<1>5. A < X + l * e
  BY <1>2, <1>3
<1> QED BY <1>2, <1>4, <1>5

\* The model answers one run.
LEMMA ReadyOnGenerate ==
  ASSUME ReadyInv, LostInv', NEW r \in Runs, Generate(r)
  PROVE  ReadyInv'
<1>1. PICK n \in Nat : /\ Len(survivors'[r]) = n
                       /\ survivors' = [survivors EXCEPT ![r] = survivors'[r]]
                       /\ longest' = IF n > longest THEN n ELSE longest
  BY ModelAnswers DEF ReadyInv, LostInv
<1>2. /\ UNCHANGED <<questions, genFaults>>
      /\ gpc[r] = "model" /\ gpc' = [gpc EXCEPT ![r] = "insert"] /\ survivors[r] = <<>>
  BY DEF Generate, ReadyInv, LostInv
<1>3. longest \in Nat /\ longest' \in Nat /\ longest <= longest' /\ n <= longest'
      /\ Len(survivors[r]) = 0 /\ \A q \in Runs : q # r => survivors'[q] = survivors[q]
  BY <1>1, <1>2, EmptySeq DEF ReadyInv, LostInv, GenTypes
<1>4. /\ Cardinality(Inserting') = Cardinality(Inserting) + n
      /\ Cardinality(Inserting) \in Nat
  <2>1. GenTypes'
    BY DEF LostInv
  <2>2. /\ Cardinality(Inserting) \in Nat /\ Cardinality(Inserting') \in Nat
        /\ Cardinality(Inserting') + Len(survivors[r])
             = Cardinality(Inserting) + Len(survivors'[r])
    BY <1>1, <1>3, <2>1, InsertingChanged DEF ReadyInv
  <2> QED BY <1>1, <1>3, <2>2
<1>5. /\ Cardinality(Modelling) = Cardinality(Modelling') + 1
      /\ Cardinality(Modelling') \in Nat /\ Cardinality(Modelling') + 1 <= Cardinality(Runs)
  <2>1. Modelling' = Modelling \ {r} /\ r \in Modelling
    BY <1>2 DEF Modelling, ReadyInv, LostInv, GenTypes
  <2>2. Cardinality(Modelling') = Cardinality(Modelling) - 1 /\ IsFiniteSet(Modelling')
    BY <2>1, HandsAreRuns, FS_RemoveElement
  <2>3. Cardinality(Modelling') \in Nat
    BY <2>2, FS_CardinalityType
  <2> QED BY <2>2, <2>3, HandsAreRuns
<1>6. Cardinality(Ready) + Cardinality(Inserting) + longest * (Cardinality(Modelling') + 1)
        < MaxReady + longest * (Cardinality(Runs) + genFaults)
  BY <1>5 DEF ReadyInv, Room
<1>7. /\ Cardinality(Ready) + Cardinality(Inserting) \in Nat /\ genFaults \in Nat
      /\ Cardinality(Runs) + genFaults \in Nat /\ Cardinality(Runs) \in Nat
      /\ Cardinality(Ready) \in Nat
  <2>1. Cardinality(Ready) \in Nat /\ Cardinality(Runs) \in Nat
    BY RoomIsCounted, HandsAreRuns DEF ReadyInv
  <2>2. genFaults \in Nat
    BY DEF ReadyInv, LostInv, GenTypes
  <2> QED BY <1>4, <2>1, <2>2
<1>8. Cardinality(Modelling') + 1 <= Cardinality(Runs) + genFaults
  BY <1>5, <1>7
<1>9. (Cardinality(Ready) + Cardinality(Inserting)) + n + longest' * Cardinality(Modelling')
        < MaxReady + longest' * (Cardinality(Runs) + genFaults)
  BY <1>3, <1>5, <1>6, <1>7, <1>8, AnswerFits
<1>10. Ready' = Ready /\ Room' = MaxReady + longest' * (Cardinality(Runs) + genFaults)
  BY <1>2 DEF Ready, Room
<1>11. Cardinality(Ready) + (Cardinality(Inserting) + n) + longest' * Cardinality(Modelling')
         < Room'
  <2>1. longest' * Cardinality(Modelling') \in Nat
    BY <1>3, <1>5, LongestOfFaults
  <2> QED BY <1>1, <1>4, <1>7, <1>9, <1>10, <2>1
<1> QED BY <1>4, <1>10, <1>11 DEF ReadyInv

\* A question leaves the run's hands.
LEMMA InsertingTail ==
  ASSUME LostInv, LostInv', NEW r \in Runs, survivors[r] # <<>>, longest' = longest,
         survivors' = [survivors EXCEPT ![r] = Tail(@)]
  PROVE  Cardinality(Inserting') = Cardinality(Inserting) - 1
<1>1. /\ survivors'[r] = Tail(survivors[r])
      /\ \A q \in Runs : q # r => survivors'[q] = survivors[q]
  BY DEF LostInv, GenTypes
<1>2. /\ Len(survivors[r]) \in Nat \ {0} /\ Len(survivors'[r]) = Len(survivors[r]) - 1
      /\ Len(survivors'[r]) <= longest' /\ longest <= longest' /\ GenTypes'
  BY <1>1, Headed DEF LostInv, GenTypes
<1>3. /\ Cardinality(Inserting) \in Nat /\ Cardinality(Inserting') \in Nat
      /\ Cardinality(Inserting') + Len(survivors[r])
           = Cardinality(Inserting) + Len(survivors'[r])
  BY <1>1, <1>2, InsertingChanged
<1> QED BY <1>2, <1>3

\* A question goes from a run's hands into the queue.
LEMMA ReadyOnInsert ==
  ASSUME ReadyInv, LostInv', NEW r \in Runs, InsertQuestion(r)
  PROVE  ReadyInv'
<1>1. PICK x \in Texts : questions' = Append(questions, New(x))
  BY Headed DEF InsertQuestion, ReadyInv, LostInv
<1>2. UNCHANGED <<gpc, longest, genFaults>>
  BY DEF InsertQuestion
<1>3. Cardinality(Inserting') = Cardinality(Inserting) - 1
  BY InsertingTail DEF InsertQuestion, ReadyInv, LostInv
<1>4. Ready' \subseteq Ready \cup {Len(questions) + 1}
  <2>1. New(x) \in Question /\ questions \in Seq(Question)
    BY <1>1 DEF New, Question, Statuses, ReadyInv, LostInv, GenTypes
  <2>2. /\ DOMAIN questions = 1 .. Len(questions) /\ Len(questions) \in Nat
        /\ DOMAIN questions' = 1 .. (Len(questions) + 1)
        /\ \A i \in 1 .. Len(questions) : questions'[i] = questions[i]
    BY <1>1, <2>1, AppendProperties, LenProperties
  <2> QED BY <2>2 DEF Ready
<1>5. Cardinality(Ready') <= Cardinality(Ready) + 1 /\ Cardinality(Ready') \in Nat
  <2>1. IsFiniteSet(Ready) /\ Cardinality(Ready) \in Nat
    BY RoomIsCounted DEF ReadyInv
  <2>2. /\ IsFiniteSet(Ready \cup {Len(questions) + 1})
        /\ Cardinality(Ready \cup {Len(questions) + 1}) <= Cardinality(Ready) + 1
        /\ Cardinality(Ready \cup {Len(questions) + 1}) \in Nat
    <3>1. /\ IsFiniteSet(Ready \cup {Len(questions) + 1})
          /\ Cardinality(Ready \cup {Len(questions) + 1}) =
               IF Len(questions) + 1 \in Ready THEN Cardinality(Ready) ELSE Cardinality(Ready) + 1
      BY <2>1, FS_AddElement
    <3> QED BY <2>1, <3>1
  <2>3. /\ Cardinality(Ready') <= Cardinality(Ready \cup {Len(questions) + 1})
        /\ Cardinality(Ready') \in Nat
    BY <1>4, <2>2, FS_Subset, FS_CardinalityType
  <2> QED BY <2>1, <2>2, <2>3
<1>6. Modelling' = Modelling /\ Room' = Room
  BY <1>2 DEF Modelling, Room
<1>7. Cardinality(Ready) + Cardinality(Inserting) + longest * Cardinality(Modelling) < Room
  BY DEF ReadyInv
<1>8. Cardinality(Ready') + Cardinality(Inserting') + longest' * Cardinality(Modelling') < Room'
  BY <1>2, <1>3, <1>5, <1>6, <1>7, RoomIsCounted DEF ReadyInv
<1> QED BY <1>8 DEF ReadyInv

LEMMA ReadyInvStep == ReadyInv /\ [GenNext]_genVars => ReadyInv'
<1> SUFFICES ASSUME ReadyInv, [GenNext]_genVars PROVE ReadyInv'
  OBVIOUS
<1>1. LostInv /\ LostInv' /\ GenTypes
  BY LostInvStep DEF ReadyInv, LostInv
<1>2. CASE (\E e \in Events : Arrive(e)) \/ UNCHANGED genVars
  <2>1. UNCHANGED <<questions, survivors, longest, gpc, genFaults>>
    BY <1>2 DEF Arrive, genVars
  <2> QED BY <1>1, <2>1, ReadyWhenIdle DEF Ready, Inserting, Modelling
<1>3. ASSUME NEW r \in Runs, Ends(r), questions' = questions, longest' = longest,
             genFaults' \in {genFaults, genFaults + 1}
      PROVE  ReadyInv'
  <2>1. Inserting' \subseteq Inserting /\ Modelling' \subseteq Modelling /\ Ready' = Ready
    <3>1. /\ survivors'[r] = <<>> /\ gpc'[r] = "idle"
          /\ \A q \in Runs : q # r => survivors'[q] = survivors[q] /\ gpc'[q] = gpc[q]
      BY <1>1, <1>3 DEF Ends, GenTypes
    <3>2. 1 .. Len(<<>>) = {}
      BY EmptySeq
    <3>3. Inserting' \subseteq Inserting
      BY <3>1, <3>2 DEF Inserting
    <3> QED BY <1>3, <3>1, <3>3 DEF Modelling, Ready
  <2> QED BY <1>1, <1>3, <2>1, ReadyWhenIdle
<1>4. ASSUME NEW r \in Runs, CycleStep(r) PROVE ReadyInv'
  <2>1. CASE ReadCursor(r) \/ QueryEvents(r)
    <3>1. /\ UNCHANGED <<questions, survivors, longest, genFaults>>
          /\ \E to \in {"query", "count"} : gpc' = [gpc EXCEPT ![r] = to]
      BY <2>1 DEF ReadCursor, QueryEvents
    <3>2. Inserting' = Inserting /\ Ready' = Ready /\ Modelling' \subseteq Modelling
      BY <1>1, <3>1 DEF Inserting, Ready, Modelling, GenTypes
    <3> QED BY <1>1, <3>1, <3>2, ReadyWhenIdle
  <2>2. CASE NothingNew(r) \/ AdvanceGenCursor(r)
    <3>1. Ends(r) /\ UNCHANGED <<questions, longest, genFaults>>
      BY <2>2 DEF NothingNew, AdvanceGenCursor
    <3> QED BY <1>3, <3>1
  <2> QED BY <1>1, <1>4, <2>1, <2>2, ReadyOnCount, ReadyOnGenerate, ReadyOnInsert DEF CycleStep
<1>5. ASSUME NEW r \in Runs, CountFails(r) \/ InsertFails(r) \/ CycleFails(r) PROVE ReadyInv'
  <2>1. CASE InsertFails(r)
    <3>1. /\ survivors' = [survivors EXCEPT ![r] = Tail(@)] /\ survivors[r] # <<>>
          /\ UNCHANGED <<questions, longest, gpc>> /\ genFaults' = genFaults + 1
      BY <2>1 DEF InsertFails, GenFault
    <3>2. /\ survivors'[r] = Tail(survivors[r])
          /\ \A q \in Runs : q # r => survivors'[q] = survivors[q]
          /\ Len(survivors[r]) \in Nat /\ Len(Tail(survivors[r])) = Len(survivors[r]) - 1
      BY <1>1, <3>1, Headed DEF GenTypes
    <3>3. Inserting' \subseteq Inserting /\ Ready' = Ready /\ Modelling' = Modelling
      BY <3>1, <3>2 DEF Inserting, Ready, Modelling
    <3> QED BY <1>1, <3>1, <3>3, ReadyWhenIdle
  <2>2. CASE CycleFails(r)
    BY <1>3, <2>2 DEF CycleFails, GenFault
  <2> QED BY <1>1, <1>5, <2>1, <2>2, ReadyOnCountFails
<1>6. CASE Deliver
  <2>1. PICK q \in DOMAIN questions, s \in Statuses \ {"ready"} :
               questions' = [questions EXCEPT ![q].status = s]
    BY <1>6 DEF Deliver
  <2>2. Ready' \subseteq Ready
    <3>1. q \in 1 .. Len(questions) /\ questions[q] \in Question
          /\ DOMAIN questions' = DOMAIN questions
      BY <1>1, <2>1, ElementOfSeq, LenProperties DEF GenTypes
    <3>2. questions'[q].status # "ready"
      BY <2>1, <3>1 DEF Question
    <3> QED BY <2>1, <3>1, <3>2 DEF Ready
  <2>3. UNCHANGED <<survivors, longest, gpc, genFaults>>
    BY <1>6 DEF Deliver
  <2> QED BY <1>1, <2>2, <2>3, ReadyWhenIdle DEF Inserting, Modelling
<1> QED BY <1>2, <1>4, <1>5, <1>6 DEF GenNext, Generating

LEMMA ReadyInvInit == GenInit => ReadyInv
<1> SUFFICES ASSUME GenInit PROVE ReadyInv
  OBVIOUS
<1>1. LostInv /\ Ready = {} /\ Inserting = {} /\ Modelling = {}
  <2>1. LostInv /\ Len(<<>>) = 0 /\ Ready = {} /\ Modelling = {}
    BY LostInvInit, EmptySeq DEF GenInit, Ready, Modelling
  <2> QED BY <2>1 DEF GenInit, Inserting
<1>2. Cardinality({}) = 0 /\ longest * 0 = 0
  BY FS_EmptySet DEF GenInit
<1>3. Room > 0
  <2>1. Room >= MaxReady + longest * Cardinality(Runs) /\ longest * Cardinality(Runs) \in Nat
        /\ Room \in Nat
    BY <1>1, RoomIsCounted
  <2>2. MaxReady \in Nat \ {0}
    OBVIOUS
  <2> QED BY <2>1, <2>2
<1> QED BY <1>1, <1>2, <1>3 DEF ReadyInv

\* The backpressure holds whatever runs overlap: the ready queue passes its limit
\* by one answer of each run and of each failed count at most, however many
\* questions the longest answer held (generate.go:183-215).
THEOREM QueueIsBounded == GenSpec => []ReadyBounded
<1>1. ReadyInv => ReadyBounded
  <2> SUFFICES ASSUME ReadyInv PROVE ReadyBounded
    OBVIOUS
  <2>1. Cardinality(Ready) + Cardinality(Inserting) + longest * Cardinality(Modelling) < Room
    BY DEF ReadyInv
  <2>2. Cardinality(Ready) < Room
    BY <2>1, RoomIsCounted DEF ReadyInv
  <2> QED BY <2>2 DEF ReadyBounded, Room
<1> QED BY <1>1, ReadyInvInit, ReadyInvStep, PTL DEF GenSpec

----------------------------------------------------------------------------
(* The types *)

GenTypeInv == LostInv /\ GenTypeOK

LEMMA GenTypeInvInit == GenInit => GenTypeInv
<1>1. 0 \in 0 .. MaxQuestions /\ 0 \in 0 .. MaxGenFaults
  OBVIOUS
<1> QED BY <1>1, LostInvInit DEF GenInit, GenTypeInv, GenTypeOK, LostInv, GenTypes

\* What LostInv says of the types already.
LEMMA GenTypesKnown ==
  ASSUME LostInv
  PROVE  /\ questions \in Seq(Question) /\ planned \in 0 .. MaxQuestions
         /\ longest \in 0 .. planned
         /\ survivors \in [Runs -> Seq(Texts)] /\ genCursor \in Nat
         /\ gpc \in [Runs -> {"idle", "query", "count", "model", "insert"}]
         /\ since \in [Runs -> Nat] /\ stored \subseteq Events
         /\ \A r \in Runs : survivors[r] # <<>> => gpc[r] = "insert"
  BY DEF LostInv, GenTypes

\* A step that leaves the batches of the runs, and where they are, as they were
\* but for one run, whose batch and place go together.
LEMMA GenTypeKept ==
  ASSUME GenTypeInv, LostInv', stored \subseteq stored', late' \subseteq stored',
         covered' \subseteq stored', genFaults' \in 0 .. MaxGenFaults, NEW r \in Runs,
         \A q \in Runs : q # r => batch'[q] = batch[q] /\ gpc'[q] = gpc[q],
         batch' \in [Runs -> SUBSET Events], batch'[r] \subseteq stored',
         batch'[r] # {} <=> gpc'[r] \in {"count", "model", "insert"}
  PROVE  GenTypeInv'
<1>1. \A q \in Runs : batch'[q] \subseteq stored'
  BY DEF GenTypeInv, GenTypeOK
<1>2. batch' \in [Runs -> SUBSET stored']
  BY <1>1
<1>3. \A q \in Runs : batch'[q] # {} <=> gpc'[q] \in {"count", "model", "insert"}
  BY DEF GenTypeInv, GenTypeOK
<1>4. /\ questions' \in Seq(Question) /\ planned' \in 0 .. MaxQuestions
      /\ longest' \in 0 .. planned'
      /\ survivors' \in [Runs -> Seq(Texts)] /\ genCursor' \in Nat
      /\ gpc' \in [Runs -> {"idle", "query", "count", "model", "insert"}]
      /\ since' \in [Runs -> Nat] /\ stored' \subseteq Events
      /\ \A q \in Runs : survivors'[q] # <<>> => gpc'[q] = "insert"
  BY DEF LostInv, GenTypes
<1> QED BY <1>2, <1>3, <1>4 DEF GenTypeInv, GenTypeOK

LEMMA GenTypeInvStep == GenTypeInv /\ [GenNext]_genVars => GenTypeInv'
<1> SUFFICES ASSUME GenTypeInv, [GenNext]_genVars PROVE GenTypeInv'
  OBVIOUS
<1>1. /\ LostInv' /\ GenTypes /\ GenTypes'
      /\ late \subseteq stored /\ covered \subseteq stored
      /\ batch \in [Runs -> SUBSET stored] /\ genFaults \in 0 .. MaxGenFaults
      /\ \A r \in Runs : batch[r] # {} <=> gpc[r] \in {"count", "model", "insert"}
  BY LostInvStep DEF GenTypeInv, GenTypeOK, LostInv
<1>2. CASE (\E e \in Events : Arrive(e)) \/ Deliver \/ UNCHANGED genVars
  <2>1. /\ stored \subseteq stored' /\ late' \subseteq stored'
        /\ UNCHANGED <<covered, batch, gpc, genFaults>>
    BY <1>1, <1>2 DEF Arrive, Deliver, genVars
  <2>2. /\ covered' \subseteq stored' /\ genFaults' \in 0 .. MaxGenFaults
        /\ batch' \in [Runs -> SUBSET stored']
        /\ \A r \in Runs : batch'[r] # {} <=> gpc'[r] \in {"count", "model", "insert"}
    BY <1>1, <2>1
  <2>3. /\ questions' \in Seq(Question) /\ planned' \in 0 .. MaxQuestions
        /\ longest' \in 0 .. planned'
        /\ survivors' \in [Runs -> Seq(Texts)] /\ genCursor' \in Nat
        /\ gpc' \in [Runs -> {"idle", "query", "count", "model", "insert"}]
        /\ since' \in [Runs -> Nat] /\ stored' \subseteq Events
        /\ \A r \in Runs : survivors'[r] # <<>> => gpc'[r] = "insert"
    BY <1>1 DEF LostInv, GenTypes
  <2> QED BY <1>1, <2>1, <2>2, <2>3 DEF GenTypeInv, GenTypeOK
<1>3. ASSUME NEW r \in Runs, Ends(r), UNCHANGED <<stored, late>>,
             covered' \in {covered, covered \cup batch[r]}, genFaults' \in 0 .. MaxGenFaults
      PROVE  GenTypeInv'
  <2>1. /\ batch'[r] = {} /\ gpc'[r] = "idle" /\ batch' \in [Runs -> SUBSET Events]
        /\ \A q \in Runs : q # r => batch'[q] = batch[q] /\ gpc'[q] = gpc[q]
    BY <1>1, <1>3 DEF Ends, GenTypes
  <2>2. covered' \subseteq stored'
    BY <1>1, <1>3
  <2> QED BY <1>1, <1>3, <2>1, <2>2, GenTypeKept
<1>4. ASSUME NEW r \in Runs, NEW to, UNCHANGED <<stored, late, covered, batch>>,
             gpc' = [gpc EXCEPT ![r] = to], genFaults' \in 0 .. MaxGenFaults,
             to \in {"count", "model", "insert"} <=> gpc[r] \in {"count", "model", "insert"}
      PROVE  GenTypeInv'
  <2>1. gpc'[r] = to /\ \A q \in Runs : q # r => gpc'[q] = gpc[q]
    BY <1>1, <1>4 DEF GenTypes
  <2>2. batch' \in [Runs -> SUBSET Events] /\ batch'[r] \subseteq stored'
    BY <1>1, <1>4 DEF GenTypes
  <2> QED BY <1>1, <1>4, <2>1, <2>2, GenTypeKept
<1>5. ASSUME NEW r \in Runs, CycleStep(r) PROVE GenTypeInv'
  <2>1. CASE ReadCursor(r)
    BY <1>1, <1>4, <2>1 DEF ReadCursor
  <2>2. CASE QueryEvents(r)
    <3>1. PICK B \in SUBSET After(since[r]) :
                 /\ Cardinality(B) = Limit \/ B = After(since[r])
                 /\ batch' = [batch EXCEPT ![r] = B]
      BY <2>2 DEF QueryEvents
    <3>2. B # {}
      <4>1. Cardinality({}) = 0 /\ Limit # 0
        BY FS_EmptySet
      <4> QED BY <2>2, <3>1, <4>1 DEF QueryEvents
    <3>3. /\ gpc' = [gpc EXCEPT ![r] = "count"]
          /\ UNCHANGED <<stored, late, covered, genFaults>>
      BY <2>2 DEF QueryEvents
    <3>4. /\ batch'[r] = B /\ gpc'[r] = "count" /\ B \subseteq stored
          /\ \A q \in Runs : q # r => batch'[q] = batch[q] /\ gpc'[q] = gpc[q]
      BY <1>1, <3>1, <3>3 DEF GenTypes, After
    <3>5. batch' \in [Runs -> SUBSET Events]
      BY <1>1 DEF GenTypes
    <3> QED BY <1>1, <3>2, <3>3, <3>4, <3>5, GenTypeKept
  <2>3. CASE NothingNew(r)
    BY <1>1, <1>3, <2>3 DEF NothingNew
  <2>4. CASE CountReady(r)
    <3>1. /\ \E to \in {"insert", "model"} : gpc' = [gpc EXCEPT ![r] = to]
          /\ UNCHANGED <<stored, late, covered, batch, genFaults>> /\ gpc[r] = "count"
      BY <2>4 DEF CountReady
    <3> QED BY <1>1, <1>4, <3>1
  <2>5. CASE Generate(r)
    BY <1>1, <1>4, <2>5 DEF Generate
  <2>6. CASE InsertQuestion(r)
    <3>1. UNCHANGED <<stored, late, covered, batch, gpc, genFaults>>
      BY <2>6 DEF InsertQuestion
    <3>2. batch' \in [Runs -> SUBSET Events] /\ batch'[r] \subseteq stored'
      BY <1>1, <3>1 DEF GenTypes
    <3> QED BY <1>1, <3>1, <3>2, GenTypeKept
  <2>7. CASE AdvanceGenCursor(r)
    BY <1>1, <1>3, <2>7 DEF AdvanceGenCursor
  <2> QED BY <1>5, <2>1, <2>2, <2>3, <2>4, <2>5, <2>6, <2>7 DEF CycleStep
<1>6. ASSUME NEW r \in Runs, CountFails(r) \/ InsertFails(r) \/ CycleFails(r) PROVE GenTypeInv'
  <2>1. genFaults' \in 0 .. MaxGenFaults
    BY <1>1, <1>6 DEF CountFails, InsertFails, CycleFails, GenFault
  <2>2. CASE CountFails(r)
    BY <1>4, <2>1, <2>2 DEF CountFails
  <2>3. CASE InsertFails(r)
    <3>1. UNCHANGED <<stored, late, covered, batch, gpc>>
      BY <2>3 DEF InsertFails
    <3>2. batch' \in [Runs -> SUBSET Events] /\ batch'[r] \subseteq stored'
      BY <1>1, <3>1 DEF GenTypes
    <3> QED BY <1>1, <2>1, <3>1, <3>2, GenTypeKept
  <2>4. CASE CycleFails(r)
    BY <1>3, <2>1, <2>4 DEF CycleFails
  <2> QED BY <1>6, <2>2, <2>3, <2>4
<1> QED BY <1>2, <1>5, <1>6 DEF GenNext, Generating

\* The generator is well typed, and past its query a cycle has events to take the
\* newest of (generate.go:166-180).
THEOREM GenTypeCorrect == GenSpec => []GenTypeOK
<1>1. GenTypeInv => GenTypeOK
  BY DEF GenTypeInv
<1> QED BY <1>1, GenTypeInvInit, GenTypeInvStep, PTL DEF GenSpec

=============================================================================
