--------------------------- MODULE QuoteStage_proofs ---------------------------
(***************************************************************************)
(* What module QuoteStage guarantees for every set of candidates, answers, *)
(* catalogs and deadlines.  The argument is about the timer queue: it      *)
(* holds one timer for each wait and no other; the candidates' are armed   *)
(* before the stage's, and none is due later than the candidate deadline.  *)
(* So a stage with as much time as a candidate outlives them all.          *)
(***************************************************************************)
EXTENDS QuoteStage, OrderLemmas

Owners == Candidates \cup {Stage}
Timer == [owner : Owners, due : Nat]

HasTimer(o) == \E i \in DOMAIN timers : timers[i].owner = o

(* The parts of the type invariant that the queue does not give.           *)
OutcomeTypes ==
  {Pending} \cup {Failure(f) : f \in FailureCodes} \cup Answers

TypedRest ==
  /\ now \in Nat /\ budget \in StageBudgets
  /\ request \in Requests /\ catalog \in Catalogs /\ asked \subseteq Candidates
  /\ source \in [Candidates -> {"NONE", "RUNNING", "SETTLED"}]
  /\ outcome \in [Candidates -> OutcomeTypes]
  /\ signalled \subseteq Candidates
  /\ stage \in {"STARTING", "COLLECTING", "COLLECTED", "TIMED_OUT", "REJECTED"}
  /\ selected \in Candidates \cup {NoProtocol}

(* One timer per owner; the stage's is the last and, given enough budget,  *)
(* the latest.                                                             *)
QueueInv ==
  /\ timers \in Seq(Timer)
  /\ \A i, j \in DOMAIN timers : timers[i].owner = timers[j].owner => i = j
  /\ \A i \in DOMAIN timers :
       IF timers[i].owner = Stage
       THEN /\ i = Len(timers)
            /\ budget >= CandidateDeadline =>
                 \A j \in DOMAIN timers : timers[j].due <= timers[i].due
       ELSE timers[i].due <= now + CandidateDeadline

(* EveryWaitHasADeadline in terms of the queue.                            *)
Waits ==
  /\ \A c \in Candidates :
       HasTimer(c) <=> source[c] = "RUNNING" /\ ~Committed(c)
  /\ HasTimer(Stage) <=> stage = "COLLECTING"
  /\ \A c \in Candidates :
       c \in signalled <=> outcome[c].code = "QUOTE_TIMEOUT"

(* Only the asked have a source or an outcome, and they have one of them;  *)
(* a source was asked about known assets, of an allowed candidate.         *)
AskedInv ==
  \A c \in Candidates :
    /\ IF c \in asked THEN Committed(c) \/ source[c] = "RUNNING"
                      ELSE source[c] = "NONE" /\ ~Committed(c)
    /\ source[c] # "NONE" => Accepted /\ SkipCode(c) = "KNOWN"

(* What is eligible was answered to the request of an allowed candidate    *)
(* for assets that the catalog knows.                                      *)
OutcomeInv ==
  \A c \in Candidates :
    outcome[c].code = "ELIGIBLE" =>
      /\ Accepted /\ SkipCode(c) = "KNOWN"
      /\ \E answer \in SourceAnswers(request) :
           /\ Classify(request, answer) = "ELIGIBLE"
           /\ outcome[c].answer = {answer}

(* The stages in their order: every candidate is asked before the race.    *)
StageInv ==
  /\ stage \in {"COLLECTING", "COLLECTED"} => Accepted /\ asked = Candidates
  /\ stage = "TIMED_OUT" => budget < CandidateDeadline
  /\ stage = "COLLECTED" => Collected /\ selected = Winner
  /\ stage # "COLLECTED" => selected = NoProtocol

IInv ==
  /\ TypedRest /\ QueueInv /\ Waits
  /\ AskedInv /\ OutcomeInv /\ StageInv

-----------------------------------------------------------------------------
(* What is left keeps its order: old maps the new places to the old ones.  *)
KeepsOrder(old, r, s, i) ==
  /\ \A k \in 1..(Len(s) - 1) : /\ old[k] \in 1..Len(s) /\ old[k] # i
                                /\ r[k] = s[old[k]]
  /\ \A j \in 1..Len(s) : j # i => \E k \in 1..(Len(s) - 1) : old[k] = j
  /\ \A k, l \in 1..(Len(s) - 1) : old[k] = old[l] => k = l
  /\ \A k \in 1..(Len(s) - 1) : old[k] = Len(s) => k = Len(s) - 1

LEMMA RemovingKeepsOrder ==
  ASSUME NEW S, NEW s \in Seq(S), NEW i \in DOMAIN s
  PROVE  \E old : KeepsOrder(old, RemoveAt(s, i), s, i)
<1> DEFINE n == Len(s)
           r == RemoveAt(s, i)
<1> DEFINE old == [k \in 1..(n - 1) |-> IF k < i THEN k ELSE k + 1]
<1>1. n \in Nat /\ i \in 1..n
  BY SeqFacts
<1>2. /\ r \in Seq(S) /\ Len(r) = n - 1 /\ DOMAIN r = 1..(n - 1)
      /\ \A k \in 1..(n - 1) : r[k] = IF k < i THEN s[k] ELSE s[k + 1]
  BY RemoveAtFacts
<1>3. old \in [1..(n - 1) -> 1..n]
  BY <1>1
<1>4. \A k \in 1..(n - 1) : r[k] = s[old[k]] /\ old[k] # i
  BY <1>1, <1>2
<1>5. \A j \in 1..n : j # i => \E k \in 1..(n - 1) : old[k] = j
  <2> SUFFICES ASSUME NEW j \in 1..n, j # i
               PROVE  \E k \in 1..(n - 1) : old[k] = j
    OBVIOUS
  <2>1. CASE j < i
    <3>1. j \in 1..(n - 1) /\ old[j] = j
      BY <2>1, <1>1
    <3> QED BY <3>1
  <2>2. CASE ~(j < i)
    <3>1. j - 1 \in 1..(n - 1) /\ old[j - 1] = j
      BY <2>2, <1>1
    <3> QED BY <3>1
  <2> QED BY <2>1, <2>2
<1>6. \A k, l \in 1..(n - 1) : old[k] = old[l] => k = l
  BY <1>1
<1>7. \A k \in 1..(n - 1) : old[k] = n => k = n - 1
  BY <1>1
<1> HIDE DEF old
<1>8. KeepsOrder(old, r, s, i)
  BY <1>3, <1>4, <1>5, <1>6, <1>7 DEF KeepsOrder
<1> QED BY <1>8

-----------------------------------------------------------------------------
(* The timer queue.                                                        *)
LEMMA Owned ==
  \A o : HasTimer(o) <=> \E t \in Range(timers) : t.owner = o
BY DEF HasTimer, Range

(* Clearing the timer of an owner that has none does nothing.              *)
LEMMA NothingToClear ==
  ASSUME QueueInv, NEW o, ~HasTimer(o)
  PROVE  WithoutTimer(o) = timers
BY SeqFacts DEF QueueInv, HasTimer, WithoutTimer, RemoveFirstMatch

LEMMA ClearsOne ==
  ASSUME QueueInv, NEW i \in DOMAIN timers
  PROVE  WithoutTimer(timers[i].owner) = RemoveAt(timers, i)
<1> DEFINE I == {j \in 1..Len(timers) : timers[j].owner = timers[i].owner}
<1>1. Len(timers) \in Nat /\ DOMAIN timers = 1..Len(timers)
  BY SeqFacts DEF QueueInv
<1>2. I = {i}
  BY <1>1 DEF QueueInv
<1>3. Min(I) = i
  BY <1>1, <1>2 DEF Min
<1> QED
  BY <1>1, <1>2, <1>3 DEF WithoutTimer, RemoveFirstMatch, SelectInSeq

LEMMA Cleared ==
  ASSUME QueueInv, NEW i \in DOMAIN timers,
         timers' = WithoutTimer(timers[i].owner)
  PROVE  /\ timers' \in Seq(Timer) /\ Len(timers') = Len(timers) - 1
         /\ DOMAIN timers' = 1..(Len(timers) - 1)
         /\ \E old : KeepsOrder(old, timers', timers, i)
<1>1. timers \in Seq(Timer)
  BY DEF QueueInv
<1>2. timers' = RemoveAt(timers, i)
  BY ClearsOne
<1>3. /\ timers' \in Seq(Timer) /\ Len(timers') = Len(timers) - 1
      /\ DOMAIN timers' = 1..(Len(timers) - 1)
  BY <1>1, <1>2, RemoveAtFacts
<1> QED
  BY <1>1, <1>2, <1>3, RemovingKeepsOrder

LEMMA ClearingKeepsOrder ==
  ASSUME QueueInv, NEW o, timers' = WithoutTimer(o), UNCHANGED <<now, budget>>
  PROVE  QueueInv' /\ \A p : HasTimer(p)' <=> HasTimer(p) /\ p # o
<1>1. CASE ~HasTimer(o)
  <2>1. timers' = timers
    BY <1>1, NothingToClear
  <2> QED BY <2>1, <1>1 DEF QueueInv, HasTimer
<1>2. CASE HasTimer(o)
  <2>1. PICK i \in DOMAIN timers : timers[i].owner = o
    BY <1>2 DEF HasTimer
  <2> DEFINE n == Len(timers)
  <2>2. /\ n \in Nat /\ DOMAIN timers = 1..n /\ i \in 1..n
        /\ \A k \in 1..n : timers[k] \in Timer
    BY <2>1, SeqFacts DEF QueueInv
  <2>4. /\ timers' \in Seq(Timer) /\ Len(timers') = n - 1
        /\ DOMAIN timers' = 1..(n - 1)
    BY <2>1, Cleared
  <2>3. PICK old : KeepsOrder(old, timers', timers, i)
    BY <2>1, Cleared
  <2>5. /\ \A k \in 1..(n - 1) : timers'[k] = timers[old[k]] /\ old[k] # i
        /\ \A k, l \in 1..(n - 1) : old[k] = old[l] => k = l
        /\ \A k \in 1..(n - 1) : old[k] = n => k = n - 1
    BY <2>3 DEF KeepsOrder
  <2>6. \A k \in 1..(n - 1) : old[k] \in 1..n
    BY <2>3 DEF KeepsOrder
  <2>7. QueueInv'
    <3>1. \A k, l \in DOMAIN timers' :
            timers'[k].owner = timers'[l].owner => k = l
      <4>1. \A a, b \in 1..n : timers[a].owner = timers[b].owner => a = b
        BY <2>2 DEF QueueInv
      <4> SUFFICES ASSUME NEW k \in 1..(n - 1), NEW l \in 1..(n - 1),
                          timers'[k].owner = timers'[l].owner
                   PROVE  k = l
        BY <2>4
      <4>2. /\ old[k] \in 1..n /\ timers'[k] = timers[old[k]]
            /\ old[l] \in 1..n /\ timers'[l] = timers[old[l]]
        BY <2>5, <2>6
      <4>3. old[k] = old[l]
        BY <4>1, <4>2
      <4> QED BY <4>3, <2>5
    <3>2. \A k \in DOMAIN timers' :
            IF timers'[k].owner = Stage
            THEN /\ k = Len(timers')
                 /\ budget' >= CandidateDeadline =>
                      \A j \in DOMAIN timers' : timers'[j].due <= timers'[k].due
            ELSE timers'[k].due <= now' + CandidateDeadline
      <4> TAKE k \in DOMAIN timers'
      <4>1. IF timers[old[k]].owner = Stage
            THEN /\ old[k] = n
                 /\ budget >= CandidateDeadline =>
                      \A j \in 1..n : timers[j].due <= timers[old[k]].due
            ELSE timers[old[k]].due <= now + CandidateDeadline
        BY <2>2, <2>4, <2>6 DEF QueueInv
      <4>2. CASE timers[old[k]].owner = Stage
        <5>1. k = n - 1 /\ timers'[k] = timers[old[k]]
          BY <4>1, <4>2, <2>4, <2>5
        <5>2. ASSUME budget' >= CandidateDeadline, NEW j \in 1..(n - 1)
              PROVE  timers'[j].due <= timers'[k].due
          BY <5>1, <5>2, <4>1, <4>2, <2>5, <2>6
        <5> QED BY <5>1, <5>2, <4>2, <2>4
      <4>3. CASE timers[old[k]].owner # Stage
        BY <4>1, <4>3, <2>2, <2>4, <2>5, <2>6
      <4> QED BY <4>2, <4>3
    <3> QED BY <2>4, <3>1, <3>2 DEF QueueInv
  <2>8. \A p : HasTimer(p)' <=> HasTimer(p) /\ p # o
    <3> TAKE p
    <3>1. HasTimer(p)' => HasTimer(p) /\ p # o
      <4> SUFFICES ASSUME NEW k \in 1..(n - 1)
                   PROVE  /\ HasTimer(timers[old[k]].owner)
                          /\ timers[old[k]].owner # o
        BY <2>4, <2>5, SMTT(30) DEF HasTimer
      <4> QED BY <2>1, <2>2, <2>5, <2>6 DEF QueueInv, HasTimer
    <3>2. ASSUME HasTimer(p), p # o  PROVE HasTimer(p)'
      <4>1. PICK j \in 1..n : timers[j].owner = p
        BY <3>2, <2>2 DEF HasTimer
      <4>2. PICK k \in 1..(n - 1) : old[k] = j
        BY <4>1, <3>2, <2>1, <2>2, <2>3 DEF KeepsOrder
      <4> QED BY <4>1, <4>2, <2>4, <2>5 DEF HasTimer
    <3> QED BY <3>1, <3>2
  <2> QED BY <2>7, <2>8
<1> QED BY <1>1, <1>2

(* A candidate's timer is armed before the stage's; the stage's is armed   *)
(* last, no earlier than all others when the budget allows it.             *)
LEMMA ArmingKeepsOrder ==
  ASSUME QueueInv, NEW o \in Owners, NEW delay \in Nat, now \in Nat,
         ~HasTimer(o), ~HasTimer(Stage),
         IF o = Stage THEN delay = budget ELSE delay = CandidateDeadline,
         ArmTimer(o, delay), UNCHANGED <<now, budget>>
  PROVE  QueueInv' /\ \A p : HasTimer(p)' <=> HasTimer(p) \/ p = o
<1> DEFINE n == Len(timers)
           new == [owner |-> o, due |-> now + delay]
<1>1. /\ n \in Nat /\ DOMAIN timers = 1..n
      /\ \A k \in 1..n : timers[k] \in Timer
  BY SeqFacts DEF QueueInv
<1>2. new \in Timer
  BY DEF Timer
<1>3. /\ timers' \in Seq(Timer) /\ Len(timers') = n + 1
      /\ DOMAIN timers' = 1..(n + 1)
      /\ \A k \in 1..n : timers'[k] = timers[k]
      /\ timers'[n + 1] = new
  BY <1>1, <1>2, AppendFacts DEF QueueInv, ArmTimer
<1> HIDE DEF n
<1>4. \A k \in 1..(n + 1) : k = n + 1 \/ k \in 1..n
  BY <1>1
<1>5. \A k \in 1..n : timers[k].owner # o /\ timers[k].owner # Stage
  BY <1>1 DEF HasTimer
<1>6. \A k, l \in DOMAIN timers' :
        timers'[k].owner = timers'[l].owner => k = l
  BY <1>1, <1>3, <1>4, <1>5 DEF QueueInv
<1>7. \A k \in 1..n : timers[k].due \in Nat
                      /\ timers[k].due <= now + CandidateDeadline
  BY <1>1, <1>5 DEF QueueInv, Timer
<1>8. \A k \in DOMAIN timers' :
        IF timers'[k].owner = Stage
        THEN /\ k = Len(timers')
             /\ budget' >= CandidateDeadline =>
                  \A j \in DOMAIN timers' : timers'[j].due <= timers'[k].due
        ELSE timers'[k].due <= now' + CandidateDeadline
  <2> TAKE k \in DOMAIN timers'
  <2>1. CASE k \in 1..n
    BY <2>1, <1>3, <1>5, <1>7
  <2>2. CASE k = n + 1 /\ o # Stage
    BY <2>2, <1>3, QuoteStageAssumption
  <2>3. CASE k = n + 1 /\ o = Stage
    <3>1. timers'[k].due = now + budget /\ delay = budget
      BY <2>3, <1>3
    <3>2. ASSUME budget >= CandidateDeadline, NEW j \in DOMAIN timers'
          PROVE  timers'[j].due <= timers'[k].due
      <4>1. CASE j \in 1..n
        BY <4>1, <3>1, <3>2, <1>3, <1>7, QuoteStageAssumption
      <4>2. CASE j = n + 1
        BY <4>2, <2>3, <3>1
      <4> QED BY <4>1, <4>2, <1>3, <1>4
    <3> QED BY <2>3, <3>1, <3>2, <1>3
  <2> QED BY <2>1, <2>2, <2>3, <1>3, <1>4
<1>9. \A p : HasTimer(p)' <=> HasTimer(p) \/ p = o
  <2> TAKE p
  <2>1. HasTimer(p)' => HasTimer(p) \/ p = o
    BY <1>1, <1>3, <1>4 DEF HasTimer
  <2>2. HasTimer(p) => HasTimer(p)'
    BY <1>1, <1>3 DEF HasTimer
  <2>3. p = o => HasTimer(p)'
    BY <1>1, <1>3 DEF HasTimer
  <2> QED BY <2>1, <2>2, <2>3
<1> QED BY <1>3, <1>6, <1>8, <1>9 DEF QueueInv

-----------------------------------------------------------------------------
(* Codes and outcomes.                                                     *)
SettledCodes == (FailureCodes \ {"QUOTE_TIMEOUT"}) \cup {"ELIGIBLE"}

LEMMA SkipCodes ==
  ASSUME NEW c, SkipCode(c) # "KNOWN"
  PROVE  SkipCode(c) \in FailureCodes \ {"QUOTE_TIMEOUT"}
BY DEF SkipCode, FailureCodes

LEMMA AnswerCodes ==
  ASSUME NEW a \in Answers
  PROVE  /\ a.code \in SettledCodes
         /\ a.code = "ELIGIBLE" =>
              \E answer \in SourceAnswers(request) :
                /\ Classify(request, answer) = "ELIGIBLE"
                /\ a.answer = {answer}
<1>1. CASE a = Failure("QUOTE_ACQUISITION_FAILED")
  BY <1>1 DEF Failure, SettledCodes, FailureCodes
<1>2. ASSUME NEW answer \in SourceAnswers(request), a = Outcome(answer)
      PROVE  /\ a.code \in SettledCodes
             /\ a.code = "ELIGIBLE" => /\ Classify(request, answer) = "ELIGIBLE"
                                       /\ a.answer = {answer}
  <2>1. /\ a.code = Classify(request, answer)
        /\ a.code = "ELIGIBLE" => a.answer = {answer}
    BY <1>2 DEF Outcome
  <2>2. Classify(request, answer) \in SettledCodes
    BY DEF Classify, SettledCodes, FailureCodes
  <2> QED BY <2>1, <2>2
<1> QED BY <1>1, <1>2 DEF Answers

(* The collection keeps its request and its catalog.                       *)
LEMMA SameQuestion ==
  ASSUME UNCHANGED <<request, catalog>>
  PROVE  /\ Accepted' <=> Accepted
         /\ Answers' = Answers
         /\ \A c : SkipCode(c)' = SkipCode(c)
<1>1. Accepted' <=> Accepted
  BY DEF Accepted
<1>2. Answers' = Answers
  BY DEF Answers, Outcome
<1>3. \A c : SkipCode(c)' = SkipCode(c)
  BY DEF SkipCode, AssetEntries
<1> QED BY <1>1, <1>2, <1>3

LEMMA WaitsAreDeadlines == EveryWaitHasADeadline <=> Waits
BY Owned DEF EveryWaitHasADeadline, Waits

LEMMA TypedQueue ==
  ASSUME QueueInv, TypedRest
  PROVE  TypeOK
<1>1. \A t \in Range(timers) : t \in Timer
  BY SeqFacts DEF QueueInv, Range
<1>2. \A t \in Range(timers) : t.owner \in Candidates \cup {Stage}
                               /\ t.due \in Nat
  BY <1>1 DEF Timer, Owners
<1> QED BY <1>2 DEF TypeOK, TypedRest, OutcomeTypes

-----------------------------------------------------------------------------
(* Every action keeps the invariant.                                       *)
LEMMA StageIsNoCandidate == Stage \notin Candidates
BY QuoteStageAssumption DEF Stage

LEMMA InitStep ==
  ASSUME Init
  PROVE  IInv
<1> USE DEF Init
<1>1. TypedRest
  BY DEF TypedRest, OutcomeTypes
<1>2. QueueInv
  BY DEF QueueInv
<1>3. Waits /\ AskedInv /\ OutcomeInv /\ StageInv
  BY DEF Waits, HasTimer, Committed, AskedInv, OutcomeInv, StageInv, Pending
<1> QED BY <1>1, <1>2, <1>3 DEF IInv

LEMMA StartCandidateStep ==
  ASSUME IInv, NEW c \in Candidates, StartCandidate(c)
  PROVE  IInv'
<1> USE DEF IInv
<1>1. /\ stage = "STARTING" /\ Accepted /\ c \notin asked
      /\ asked' = asked \cup {c}
      /\ UNCHANGED <<now, request, catalog, budget, signalled, stage, selected>>
  BY DEF StartCandidate
<1>2. ~Committed(c) /\ source[c] = "NONE" /\ ~HasTimer(c) /\ ~HasTimer(Stage)
  BY <1>1 DEF AskedInv, Waits
<1>3. c \notin signalled
  BY <1>2 DEF Waits, Committed
<1>4. ASSUME NEW f \in FailureCodes \ {"QUOTE_TIMEOUT"},
             outcome' = [outcome EXCEPT ![c] = Failure(f)],
             UNCHANGED <<source, timers>>
      PROVE  IInv'
  <2>1. /\ outcome'[c].code = f /\ f \notin {"PENDING", "ELIGIBLE"}
        /\ \A d \in Candidates \ {c} : outcome'[d] = outcome[d]
    BY <1>4 DEF TypedRest, Failure, FailureCodes
  <2>2. TypedRest'
    BY <1>1, <1>4, SameQuestion DEF TypedRest, OutcomeTypes
  <2>3. QueueInv' /\ \A o : HasTimer(o)' <=> HasTimer(o)
    BY <1>1, <1>4 DEF QueueInv, HasTimer
  <2>4. Waits'
    BY <1>1, <1>2, <1>3, <1>4, <2>1, <2>3 DEF Waits, Committed
  <2>5. AskedInv'
    BY <1>1, <1>4, <2>1, SameQuestion DEF AskedInv, Committed
  <2>6. OutcomeInv'
    BY <1>1, <2>1, SameQuestion DEF OutcomeInv
  <2>7. StageInv'
    BY <1>1 DEF StageInv
  <2> QED BY <2>2, <2>3, <2>4, <2>5, <2>6, <2>7
<1>5. ASSUME Ask(c)
      PROVE  IInv'
  <2>1. /\ source' = [source EXCEPT ![c] = "RUNNING"]
        /\ outcome' = outcome /\ ArmTimer(c, CandidateDeadline)
    BY <1>5 DEF Ask
  <2>2. TypedRest'
    BY <1>1, <2>1, SameQuestion DEF TypedRest, OutcomeTypes
  <2>3. QueueInv' /\ \A o : HasTimer(o)' <=> HasTimer(o) \/ o = c
    BY <1>1, <1>2, <2>1, ArmingKeepsOrder, StageIsNoCandidate,
       QuoteStageAssumption DEF TypedRest, Owners
  <2>4. Waits'
    BY <1>1, <1>2, <2>1, <2>3, StageIsNoCandidate
       DEF Waits, Committed, TypedRest
  <2>5. AskedInv'
    BY <1>1, <1>5, <2>1, SameQuestion DEF AskedInv, Committed, TypedRest, Ask
  <2>6. OutcomeInv'
    BY <1>1, <2>1, SameQuestion DEF OutcomeInv
  <2>7. StageInv'
    BY <1>1 DEF StageInv
  <2> QED BY <2>2, <2>3, <2>4, <2>5, <2>6, <2>7
<1>6. CASE Skip(c)
  BY <1>4, <1>6, SkipCodes DEF Skip
<1>7. CASE AskFails(c)
  BY <1>4, <1>7 DEF AskFails, FailureCodes
<1> QED BY <1>5, <1>6, <1>7 DEF StartCandidate

LEMMA RefuseStep ==
  ASSUME IInv, Refuse
  PROVE  IInv'
<1> USE DEF IInv
<1>1. /\ stage = "STARTING" /\ ~Accepted
      /\ stage' = IF budget = 0 THEN "TIMED_OUT" ELSE "REJECTED"
      /\ UNCHANGED <<now, request, catalog, budget, asked, source, outcome,
                     signalled, timers, selected>>
  BY DEF Refuse
<1>2. TypedRest' /\ QueueInv' /\ AskedInv' /\ OutcomeInv'
  BY <1>1, SameQuestion
     DEF TypedRest, OutcomeTypes, QueueInv, AskedInv, OutcomeInv, Committed
<1>3. Waits'
  BY <1>1 DEF Waits, HasTimer, Committed
<1>4. StageInv'
  BY <1>1, QuoteStageAssumption DEF StageInv
<1> QED BY <1>2, <1>3, <1>4

LEMMA StartRaceStep ==
  ASSUME IInv, StartRace
  PROVE  IInv'
<1> USE DEF IInv
<1>1. /\ stage = "STARTING" /\ Accepted /\ asked = Candidates
      /\ UNCHANGED <<now, request, catalog, budget, asked, source, outcome,
                     signalled, selected>>
  BY DEF StartRace
<1>2. AskedInv' /\ OutcomeInv'
  BY <1>1, SameQuestion DEF AskedInv, OutcomeInv, Committed
<1>3. CASE budget = 0
  <2>1. stage' = "TIMED_OUT" /\ timers' = timers
    BY <1>3 DEF StartRace
  <2>2. TypedRest' /\ QueueInv'
    BY <1>1, <2>1, SameQuestion DEF TypedRest, OutcomeTypes, QueueInv
  <2>3. Waits'
    BY <1>1, <2>1 DEF Waits, HasTimer, Committed
  <2>4. StageInv'
    BY <1>1, <1>3, <2>1, QuoteStageAssumption DEF StageInv
  <2> QED BY <1>2, <2>2, <2>3, <2>4
<1>4. CASE budget # 0
  <2>1. stage' = "COLLECTING" /\ ArmTimer(Stage, budget)
    BY <1>4 DEF StartRace
  <2>2. TypedRest'
    BY <1>1, <2>1, SameQuestion DEF TypedRest, OutcomeTypes
  <2>3. ~HasTimer(Stage) /\ now \in Nat /\ budget \in Nat
    BY <1>1, QuoteStageAssumption DEF Waits, TypedRest
  <2>4. QueueInv' /\ \A o : HasTimer(o)' <=> HasTimer(o) \/ o = Stage
    BY <1>1, <2>1, <2>3, ArmingKeepsOrder DEF Owners
  <2>5. Waits'
    BY <1>1, <2>1, <2>4, StageIsNoCandidate DEF Waits, Committed
  <2>6. StageInv'
    BY <1>1, <2>1, SameQuestion DEF StageInv
  <2> QED BY <1>2, <2>2, <2>4, <2>5, <2>6
<1> QED BY <1>3, <1>4

(* Committing an outcome to a candidate that had none, and clearing its    *)
(* timer: how an answer ends, and a deadline.                              *)
LEMMA CommitStep ==
  ASSUME IInv, NEW c \in Candidates, LoopIdle, c \in asked, ~Committed(c),
         NEW a \in {Failure("QUOTE_TIMEOUT")} \cup Answers,
         outcome' = [outcome EXCEPT ![c] = a],
         timers' = WithoutTimer(c),
         source' \in [Candidates -> {"NONE", "RUNNING", "SETTLED"}],
         \A d \in Candidates \ {c} : source'[d] = source[d],
         signalled' = IF a = Failure("QUOTE_TIMEOUT")
                      THEN signalled \cup {c} ELSE signalled,
         SkipCode(c) = "KNOWN", Accepted,
         UNCHANGED <<now, request, catalog, budget, asked, stage, selected>>
  PROVE  IInv'
<1> USE DEF IInv
<1>1. /\ outcome'[c] = a
      /\ \A d \in Candidates \ {c} : outcome'[d] = outcome[d]
  BY DEF TypedRest
<1>2. /\ a.code # "PENDING"
      /\ a.code = "QUOTE_TIMEOUT" <=> a = Failure("QUOTE_TIMEOUT")
      /\ a.code = "ELIGIBLE" => a \in Answers
  BY AnswerCodes DEF Failure, SettledCodes, FailureCodes
<1>3. TypedRest'
  <2>1. OutcomeTypes' = OutcomeTypes
    BY SameQuestion DEF OutcomeTypes
  <2>2. a \in OutcomeTypes
    BY DEF OutcomeTypes, FailureCodes
  <2> QED BY <2>1, <2>2 DEF TypedRest
<1>4. QueueInv' /\ \A o : HasTimer(o)' <=> HasTimer(o) /\ o # c
  BY ClearingKeepsOrder
<1>5. Waits'
  <2>1. \A d \in Candidates :
          HasTimer(d)' <=> source'[d] = "RUNNING" /\ ~Committed(d)'
    BY <1>1, <1>2, <1>4 DEF Waits, Committed
  <2>2. \A d \in Candidates :
          d \in signalled' <=> outcome'[d].code = "QUOTE_TIMEOUT"
    BY <1>1, <1>2 DEF Waits, Committed
  <2> QED BY <2>1, <2>2, <1>4, StageIsNoCandidate DEF Waits
<1>6. AskedInv'
  BY <1>1, <1>2, SameQuestion DEF AskedInv, Committed
<1>7. OutcomeInv'
  BY <1>1, <1>2, SameQuestion, AnswerCodes DEF OutcomeInv
<1>8. StageInv'
  <2>1. stage # "COLLECTED"
    BY DEF StageInv, Collected
  <2> QED BY <2>1, SameQuestion DEF StageInv
<1> QED BY <1>3, <1>4, <1>5, <1>6, <1>7, <1>8

LEMMA SourceSettlesStep ==
  ASSUME IInv, NEW c \in Candidates, SourceSettles(c)
  PROVE  IInv'
<1> USE DEF IInv
<1>1. /\ LoopIdle /\ source[c] = "RUNNING"
      /\ source' = [source EXCEPT ![c] = "SETTLED"]
      /\ UNCHANGED <<now, request, catalog, budget, asked, signalled, stage,
                     selected>>
  BY DEF SourceSettles
<1>2. /\ source' \in [Candidates -> {"NONE", "RUNNING", "SETTLED"}]
      /\ source'[c] = "SETTLED"
      /\ \A d \in Candidates \ {c} : source'[d] = source[d]
  BY <1>1 DEF TypedRest
<1>3. c \in asked /\ Accepted /\ SkipCode(c) = "KNOWN"
  BY <1>1 DEF AskedInv
<1>4. ASSUME ~Committed(c), NEW a \in Answers,
             outcome' = [outcome EXCEPT ![c] = a],
             timers' = WithoutTimer(c)
      PROVE  IInv'
  <2>1. a # Failure("QUOTE_TIMEOUT")
    BY AnswerCodes DEF Failure, SettledCodes, FailureCodes
  <2> QED BY <1>1, <1>2, <1>3, <1>4, <2>1, CommitStep
<1>5. ASSUME Committed(c), UNCHANGED <<outcome, timers>>
      PROVE  IInv'
  <2>1. TypedRest' /\ QueueInv'
    BY <1>1, <1>2, <1>5, SameQuestion DEF TypedRest, OutcomeTypes, QueueInv
  <2>2. \A d \in Candidates :
          HasTimer(d)' <=> source'[d] = "RUNNING" /\ ~Committed(d)'
    BY <1>2, <1>5 DEF Waits, HasTimer, Committed
  <2>3. Waits'
    BY <1>1, <1>5, <2>2 DEF Waits, HasTimer
  <2>4. AskedInv'
    BY <1>1, <1>2, <1>3, <1>5, SameQuestion DEF AskedInv, Committed
  <2>5. OutcomeInv'
    BY <1>1, <1>5, SameQuestion DEF OutcomeInv
  <2>6. StageInv'
    <3>1. Collected' <=> Collected
      BY <1>5 DEF Collected, Committed
    <3>2. Winner' = Winner
      BY <1>5 DEF Winner, Eligible, Precedes, AmountOut
    <3> QED BY <1>1, <3>1, <3>2, SameQuestion DEF StageInv
  <2> QED BY <2>1, <2>3, <2>4, <2>5, <2>6
<1> QED BY <1>4, <1>5 DEF SourceSettles

LEMMA CandidateTimesOutStep ==
  ASSUME IInv, NEW c \in Candidates, CandidateTimesOut(c)
  PROVE  IInv'
<1> USE DEF IInv
<1>1. /\ LoopIdle /\ HasTimer(c) /\ timers' = WithoutTimer(c)
      /\ UNCHANGED <<now, request, catalog, budget, asked, source, stage,
                     selected>>
  BY Owned DEF CandidateTimesOut
<1>2. source[c] = "RUNNING" /\ ~Committed(c)
  BY <1>1 DEF Waits
<1>3. c \in asked /\ Accepted /\ SkipCode(c) = "KNOWN"
  BY <1>2 DEF AskedInv
<1>4. /\ outcome' = [outcome EXCEPT ![c] = Failure("QUOTE_TIMEOUT")]
      /\ signalled' = signalled \cup {c}
  BY <1>2 DEF CandidateTimesOut
<1>5. /\ source' \in [Candidates -> {"NONE", "RUNNING", "SETTLED"}]
      /\ \A d \in Candidates \ {c} : source'[d] = source[d]
  BY <1>1 DEF TypedRest
<1> QED BY <1>1, <1>2, <1>3, <1>4, <1>5, CommitStep

(* The stage's own deadline passes only when it is shorter than the        *)
(* candidates': otherwise their timers, due no later and armed before it,  *)
(* have all gone off, so that the collection has ended.                    *)
LEMMA StageTimesOutIsEarly ==
  ASSUME IInv, StageTimesOut
  PROVE  budget < CandidateDeadline
<1> USE DEF IInv
<1>1. PICK t \in Range(timers) : t.owner = Stage /\ IsNextTimer(t)
  BY DEF StageTimesOut
<1>2. PICK i \in DOMAIN timers :
        /\ timers[i] = t
        /\ \A j \in DOMAIN timers \ {i} :
             \/ t.due < timers[j].due
             \/ t.due = timers[j].due /\ i < j
  BY <1>1, Zenon DEF IsNextTimer
<1>3. stage = "COLLECTING" /\ asked = Candidates
  <2>1. HasTimer(Stage)
    BY <1>1, <1>2 DEF HasTimer
  <2> QED BY <2>1 DEF Waits, StageInv
<1>4. SUFFICES ASSUME budget >= CandidateDeadline
               PROVE  FALSE
  BY QuoteStageAssumption DEF TypedRest
<1>5. /\ i = Len(timers) /\ DOMAIN timers = 1..Len(timers)
      /\ \A j \in DOMAIN timers : timers[j].due <= t.due
      /\ \A j \in DOMAIN timers : timers[j].due \in Nat
  <2>1. timers \in Seq(Timer)
    BY DEF QueueInv
  <2>2. \A j \in DOMAIN timers : timers[j] \in Timer
    BY <2>1, SeqFacts
  <2>3. i = Len(timers) /\ \A j \in DOMAIN timers : timers[j].due <= t.due
    BY <1>1, <1>2, <1>4 DEF QueueInv
  <2> QED BY <2>1, <2>2, <2>3, SeqFacts DEF Timer
<1>6. \A j \in DOMAIN timers : j = i
  BY <1>2, <1>5, SeqFacts DEF QueueInv
<1>7. \A c \in Candidates : ~HasTimer(c)
  BY <1>1, <1>2, <1>6, StageIsNoCandidate DEF HasTimer
<1>8. Collected
  BY <1>3, <1>7 DEF Waits, AskedInv, Collected
<1> QED BY <1>3, <1>8 DEF StageTimesOut, LoopIdle, Resuming

LEMMA StageTimesOutStep ==
  ASSUME IInv, StageTimesOut
  PROVE  IInv'
<1> USE DEF IInv
<1>1. /\ LoopIdle /\ timers' = WithoutTimer(Stage) /\ stage' = "TIMED_OUT"
      /\ UNCHANGED <<now, request, catalog, budget, asked, source, outcome,
                     signalled, selected>>
  BY DEF StageTimesOut
<1>2. HasTimer(Stage) /\ stage = "COLLECTING"
  BY Owned DEF StageTimesOut, Waits
<1>3. TypedRest' /\ AskedInv' /\ OutcomeInv'
  BY <1>1, SameQuestion
     DEF TypedRest, OutcomeTypes, AskedInv, OutcomeInv, Committed
<1>4. QueueInv' /\ \A o : HasTimer(o)' <=> HasTimer(o) /\ o # Stage
  BY <1>1, ClearingKeepsOrder
<1>5. Waits'
  BY <1>1, <1>4, StageIsNoCandidate DEF Waits, Committed
<1>6. StageInv'
  BY <1>1, <1>2, StageTimesOutIsEarly DEF StageInv
<1> QED BY <1>3, <1>4, <1>5, <1>6

-----------------------------------------------------------------------------
(* The selection.                                                          *)
LEMMA EligibleAnswer ==
  ASSUME NEW c, NEW answer, outcome[c].answer = {answer},
         Classify(request, answer) = "ELIGIBLE"
  PROVE  /\ AmountOut(c) = answer.amountOut
         /\ answer.amountOut \in Amount
         /\ answer.inputAsset = request.inputAsset
         /\ answer.outputAsset = request.outputAsset
         /\ answer.amountIn = request.amountIn
<1>1. AmountOut(c) = answer.amountOut
  BY DEF AmountOut
<1>2. /\ Projected(answer) /\ SameDirection(request, answer)
      /\ answer.amountIn = request.amountIn
  BY DEF Classify
<1> QED BY <1>1, <1>2 DEF Projected, SameDirection

LEMMA EligibleAmounts ==
  ASSUME IInv, NEW c \in Eligible
  PROVE  AmountOut(c) \in Nat /\ AmountOut(c) <= MaxUint
<1>1. c \in Candidates /\ outcome[c].code = "ELIGIBLE"
  BY DEF Eligible
<1>2. PICK answer : /\ outcome[c].answer = {answer}
                    /\ Classify(request, answer) = "ELIGIBLE"
  BY <1>1 DEF IInv, OutcomeInv
<1>3. AmountOut(c) \in Amount
  BY <1>2, EligibleAnswer
<1> QED BY <1>3, MaxUintAssumption DEF Amount

(* However many candidates there are, and with whatever offers: one of     *)
(* them precedes all others.                                               *)
LEMMA BestExists ==
  ASSUME IInv, Eligible # {}
  PROVE  \E c \in Eligible : \A d \in Eligible \ {c} : Precedes(c, d)
<1> DEFINE Gaps == {MaxUint - AmountOut(c) : c \in Eligible}
<1>1. Gaps \subseteq Nat /\ Gaps # {}
  BY EligibleAmounts, MaxUintAssumption
<1>2. PICK best \in Eligible :
        \A d \in Eligible : MaxUint - AmountOut(best) <= MaxUint - AmountOut(d)
  <2>1. PICK g \in Gaps : \A h \in Gaps : g <= h
    BY <1>1, Least
  <2> QED BY <2>1
<1>3. \A d \in Eligible : AmountOut(d) <= AmountOut(best)
  BY <1>2, EligibleAmounts, MaxUintAssumption
<1> DEFINE Ties == {c \in Eligible : AmountOut(c) = AmountOut(best)}
<1>4. Ties \subseteq Nat /\ Ties # {}
  BY <1>2, QuoteStageAssumption DEF Eligible
<1>5. PICK c \in Ties : \A d \in Ties : c <= d
  BY <1>4, Least
<1>6. ASSUME NEW d \in Eligible \ {c}
      PROVE  Precedes(c, d)
  <2>1. /\ c \in Eligible /\ AmountOut(c) = AmountOut(best)
        /\ AmountOut(c) \in Nat /\ AmountOut(d) \in Nat
        /\ c \in Nat /\ d \in Nat
    BY <1>4, <1>5, EligibleAmounts, QuoteStageAssumption DEF Eligible
  <2>2. CASE AmountOut(d) = AmountOut(best)
    BY <1>5, <2>1, <2>2 DEF Precedes
  <2>3. CASE AmountOut(d) # AmountOut(best)
    BY <1>3, <2>1, <2>3 DEF Precedes
  <2> QED BY <2>2, <2>3
<1> QED BY <1>5, <1>6

LEMMA WinnerPrecedes ==
  ASSUME IInv, Eligible # {}
  PROVE  /\ Winner \in Eligible
         /\ \A d \in Eligible \ {Winner} : Precedes(Winner, d)
BY BestExists DEF Winner

LEMMA NoWinner ==
  ASSUME Eligible = {}
  PROVE  Winner = NoProtocol
BY DEF Winner

LEMMA SelectStep ==
  ASSUME IInv, Select
  PROVE  IInv'
<1> USE DEF IInv
<1>1. /\ stage = "COLLECTING" /\ Collected /\ timers' = WithoutTimer(Stage)
      /\ stage' = "COLLECTED" /\ selected' = Winner
      /\ UNCHANGED <<now, request, catalog, budget, asked, source, outcome,
                     signalled>>
  BY DEF Select, Resuming
<1>2. Winner \in Candidates \cup {NoProtocol}
  BY WinnerPrecedes, NoWinner DEF Eligible
<1>3. TypedRest' /\ AskedInv' /\ OutcomeInv'
  BY <1>1, <1>2, SameQuestion
     DEF TypedRest, OutcomeTypes, AskedInv, OutcomeInv, Committed
<1>4. QueueInv' /\ \A o : HasTimer(o)' <=> HasTimer(o) /\ o # Stage
  BY <1>1, ClearingKeepsOrder
<1>5. Waits'
  BY <1>1, <1>4, StageIsNoCandidate DEF Waits, Committed
<1>6. StageInv'
  <2>1. Collected' /\ Winner' = Winner
    BY <1>1 DEF Collected, Committed, Winner, Eligible, Precedes, AmountOut
  <2> QED BY <1>1, <2>1, SameQuestion DEF StageInv
<1> QED BY <1>3, <1>4, <1>5, <1>6

LEMMA TickStep ==
  ASSUME IInv, Tick
  PROVE  IInv'
<1> USE DEF IInv
<1>1. /\ now' = now + 1
      /\ UNCHANGED <<request, catalog, budget, asked, source, outcome,
                     signalled, timers, stage, selected>>
  BY DEF Tick
<1>2. TypedRest' /\ AskedInv' /\ OutcomeInv'
  BY <1>1, SameQuestion
     DEF TypedRest, OutcomeTypes, AskedInv, OutcomeInv, Committed
<1>3. QueueInv'
  <2>1. now \in Nat /\ CandidateDeadline \in Nat
    BY QuoteStageAssumption DEF TypedRest
  <2>2. \A i \in DOMAIN timers : timers[i] \in Timer
    BY SeqFacts DEF QueueInv
  <2>3. \A due \in Nat : due <= now + CandidateDeadline =>
                           due <= (now + 1) + CandidateDeadline
    BY <2>1
  <2>4. \A i \in DOMAIN timers :
          timers[i].due <= now + CandidateDeadline =>
            timers[i].due <= now' + CandidateDeadline
    BY <1>1, <2>2, <2>3 DEF Timer
  <2> QED BY <1>1, <2>4 DEF QueueInv
<1>4. Waits'
  BY <1>1 DEF Waits, HasTimer, Committed
<1>5. StageInv'
  <2>1. (Collected' <=> Collected) /\ Winner' = Winner
    BY <1>1 DEF Collected, Committed, Winner, Eligible, Precedes, AmountOut
  <2> QED BY <1>1, <2>1, SameQuestion DEF StageInv
<1> QED BY <1>2, <1>3, <1>4, <1>5

LEMMA StutterStep ==
  ASSUME IInv, UNCHANGED vars
  PROVE  IInv'
<1> USE DEF IInv, vars
<1>1. TypedRest' /\ AskedInv' /\ OutcomeInv'
  BY SameQuestion
     DEF TypedRest, OutcomeTypes, AskedInv, OutcomeInv, Committed
<1>2. QueueInv' /\ Waits'
  BY DEF QueueInv, Waits, HasTimer, Committed
<1>3. StageInv'
  <2>1. (Collected' <=> Collected) /\ Winner' = Winner
    BY DEF Collected, Committed, Winner, Eligible, Precedes, AmountOut
  <2> QED BY <2>1, SameQuestion DEF StageInv
<1> QED BY <1>1, <1>2, <1>3

LEMMA NextStep ==
  ASSUME IInv, [Next]_vars
  PROVE  IInv'
BY StartCandidateStep, SourceSettlesStep, CandidateTimesOutStep, RefuseStep,
   StartRaceStep, StageTimesOutStep, SelectStep, TickStep, StutterStep
   DEF Next

(* The invariant of every behaviour.                                       *)
THEOREM Invariant == Spec => []IInv
<1>1. Init => IInv
  BY InitStep
<1>2. IInv /\ [Next]_vars => IInv'
  BY NextStep
<1> QED BY <1>1, <1>2, PTL DEF Spec

-----------------------------------------------------------------------------
(* Type correctness.                                                       *)
THEOREM TypeCorrect == Spec => []TypeOK
<1>1. IInv => TypeOK
  BY TypedQueue DEF IInv
<1> QED BY <1>1, Invariant, PTL

(* However many candidates are asked, and whatever answers come when:      *)
(* each is awaited under exactly one deadline (selection.ts, runCandidate).*)
THEOREM WaitsHaveDeadlines == Spec => []EveryWaitHasADeadline
<1>1. IInv => EveryWaitHasADeadline
  BY WaitsAreDeadlines DEF IInv
<1> QED BY <1>1, Invariant, PTL

(* For every deadline of a candidate: a stage that has as much time (the   *)
(* 8 s of preflight-orchestrator.ts against QUOTE_DEADLINE_MS) never gives *)
(* up on a collection some of whose sources hang.                          *)
THEOREM SlowSourcesCostNothing == Spec => []PartialResultsSurvive
<1>1. IInv => PartialResultsSurvive
  BY DEF IInv, StageInv, PartialResultsSurvive
<1> QED BY <1>1, Invariant, PTL

(* A known asset has one catalog entry, with its decimals.                 *)
LEMMA KnownAsset ==
  ASSUME Accepted, IsFiniteSet(catalog.entries), NEW asset,
         AssetEntries(asset) # {},
         \A entry \in AssetEntries(asset) : entry.decimals # {}
  PROVE  \E entry \in catalog.entries :
           /\ entry.asset = asset /\ entry.decimals # {}
           /\ \A other \in catalog.entries :
                other.asset = asset => other = entry
<1> DEFINE E == catalog.entries
           T == Identities(catalog)
           f == [entry \in E |-> entry.asset]
<1>1. T = {entry.asset : entry \in E} /\ Cardinality(T) = Cardinality(E)
  BY DEF Accepted, CatalogAccepted, Identities
<1>2. f \in Surjection(E, T)
  BY <1>1 DEF Surjection
<1> HIDE DEF T
<1>3. f \in Injection(E, T)
  BY <1>1, <1>2, FS_Surjection
<1>4. \A a, b \in E : a.asset = b.asset => a = b
  BY <1>3 DEF Injection, IsInjective
<1> QED BY <1>4 DEF AssetEntries, FindCatalogEntry

(* For every set of candidates and any order of arrival: the selection is  *)
(* the best of the eligible outcomes, answers the request, and is there    *)
(* whenever one of them is (selection.ts, compareEligible and the filter   *)
(* before it).                                                             *)
THEOREM TheBestIsSelected == Spec => []SelectionIsBest
<1>1. ASSUME IInv, stage = "COLLECTED", selected = NoProtocol
      PROVE  \A c \in Candidates : outcome[c].code # "ELIGIBLE"
  <2>1. Eligible = {}
    BY <1>1, WinnerPrecedes, QuoteStageAssumption
       DEF IInv, StageInv, NoProtocol, Eligible
  <2> QED BY <2>1 DEF Eligible
<1>2. ASSUME IInv, stage = "COLLECTED", selected # NoProtocol
      PROVE  /\ selected \in request.allowedProtocols
             /\ outcome[selected].code = "ELIGIBLE"
             /\ \A answer \in outcome[selected].answer : AnswersRequest(answer)
             /\ \A c \in Candidates :
                  outcome[c].code = "ELIGIBLE" =>
                    /\ AmountOut(c) <= AmountOut(selected)
                    /\ AmountOut(c) = AmountOut(selected) => selected <= c
  <2>1. /\ selected \in Eligible
        /\ \A d \in Eligible \ {selected} : Precedes(selected, d)
    BY <1>2, WinnerPrecedes, NoWinner DEF IInv, StageInv
  <2>2. PICK answer \in SourceAnswers(request) :
          /\ Classify(request, answer) = "ELIGIBLE"
          /\ outcome[selected].answer = {answer}
    BY <1>2, <2>1 DEF IInv, OutcomeInv, Eligible
  <2>3. Accepted /\ SkipCode(selected) = "KNOWN"
    BY <1>2, <2>1 DEF IInv, OutcomeInv, Eligible
  <2>4. selected \in request.allowedProtocols
    BY <2>3 DEF SkipCode
  <2>5. ASSUME NEW asset \in {request.inputAsset, request.outputAsset}
        PROVE  /\ AssetEntries(asset) # {}
               /\ \A entry \in AssetEntries(asset) : entry.decimals # {}
    BY <2>3, <2>5 DEF SkipCode
  <2>6. IsFiniteSet(catalog.entries)
    BY <1>2, QuoteStageAssumption DEF IInv, TypedRest
  <2>7. AnswersRequest(answer)
    BY <2>2, <2>3, <2>5, <2>6, EligibleAnswer, KnownAsset, SMTT(30) DEF AnswersRequest
  <2>8. ASSUME NEW c \in Eligible
        PROVE  /\ AmountOut(c) <= AmountOut(selected)
               /\ AmountOut(c) = AmountOut(selected) => selected <= c
    <3>1. /\ AmountOut(c) \in Nat /\ AmountOut(selected) \in Nat
          /\ c \in Nat /\ selected \in Nat
      BY <1>2, <2>1, EligibleAmounts, QuoteStageAssumption DEF Eligible
    <3> QED BY <2>1, <3>1 DEF Precedes
  <2> QED BY <2>1, <2>2, <2>4, <2>7, <2>8 DEF Eligible
<1>3. IInv => SelectionIsBest
  BY <1>1, <1>2 DEF SelectionIsBest
<1> QED BY <1>3, Invariant, PTL

(* An answer after its candidate's deadline, and any after the stage has   *)
(* ended, changes nothing (selection.ts, commit).                          *)
THEOREM OutcomesStand == Spec => OutcomesAreFinal
<1> DEFINE Final ==
             /\ \A c \in Candidates : Committed(c) => outcome'[c] = outcome[c]
             /\ stage \in {"COLLECTED", "TIMED_OUT", "REJECTED"} =>
                  UNCHANGED <<stage, selected>>
<1>1. ASSUME IInv, NEW c \in Candidates, StartCandidate(c)
      PROVE  Final
  <2>1. ~Committed(c) /\ stage = "STARTING"
    BY <1>1 DEF IInv, AskedInv, StartCandidate
  <2> QED BY <1>1, <2>1
          DEF StartCandidate, Skip, AskFails, Ask, IInv, TypedRest
<1>2. ASSUME IInv, NEW c \in Candidates, SourceSettles(c)
      PROVE  Final
  BY <1>2 DEF SourceSettles, IInv, TypedRest
<1>3. ASSUME IInv, NEW c \in Candidates, CandidateTimesOut(c)
      PROVE  Final
  BY <1>3 DEF CandidateTimesOut, IInv, TypedRest
<1>4. ASSUME IInv, StageTimesOut
      PROVE  Final
  <2>1. stage = "COLLECTING"
    BY <1>4, Owned DEF IInv, Waits, StageTimesOut
  <2> QED BY <1>4, <2>1 DEF StageTimesOut
<1>5. ASSUME Refuse  PROVE Final
  BY <1>5 DEF Refuse
<1>6. ASSUME StartRace  PROVE Final
  BY <1>6 DEF StartRace
<1>7. ASSUME Select  PROVE Final
  BY <1>7 DEF Select, Resuming
<1>8. ASSUME Tick \/ UNCHANGED vars  PROVE Final
  BY <1>8 DEF Tick, vars
<1>9. IInv /\ [Next]_vars => [Final]_vars
  BY <1>1, <1>2, <1>3, <1>4, <1>5, <1>6, <1>7, <1>8 DEF Next
<1> QED BY <1>9, Invariant, PTL DEF Spec, OutcomesAreFinal

================================================================================
