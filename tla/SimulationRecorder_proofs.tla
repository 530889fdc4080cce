----------------------- MODULE SimulationRecorder_proofs -----------------------
(***************************************************************************)
(* PROVEN evidence is about one block, for every number of requests,       *)
(* blocks and replacements.  The argument: a hash is a version, and        *)
(* versions only grow.  An answer that counts was made on a version        *)
(* between the one read before it and the one read after the simulator     *)
(* settled; when these two are equal, so is the one in between.  What the  *)
(* invariant keeps is the lower bound, which takes the session's order:    *)
(* no numbered trace is sent before a hash, or a failure, was recorded.    *)
(***************************************************************************)
EXTENDS SimulationRecorder, TLAPS

Requests == [method : SimulationMethods, block : Blocks \cup {Unobservable}]

ObservationTyped ==
  Observed =>
    /\ observation.numbers \in Seq(Blocks)
    /\ observation.preHashes \in Seq(Nat \cup {NoHash})
    /\ observation.requestBlocks \in Seq(Requests)

NumberLost == "BLOCK_NUMBER_UNOBSERVABLE" \in failures

HashRecorded == preHashes # <<>>

(* What is recorded of each request.                                       *)
CallOK(c) ==
  /\ method[c] = "NUMBER" /\ phase[c] = "ANSWERED" => NumberLost \/ HashRecorded
  /\ phase[c] = "HASHING" =>
       /\ method[c] = "NUMBER" /\ block[c] \in Blocks
       /\ \E i \in DOMAIN numbers : numbers[i] = block[c]
  /\ method[c] \in SimulationMethods =>
       /\ \E i \in DOMAIN requestBlocks : requestBlocks[i].block = block[c]
       /\ block[c] = Unobservable \/ NumberLost \/ HashRecorded

CallInv == \A c \in Calls : CallOK(c)

(* The hash read first is no younger than the block.                       *)
PreHashInv ==
  /\ numbers = <<>> => preHashes = <<>>
  /\ Len(numbers) = 1 /\ HashRecorded => preHashes[1] <= chain[numbers[1]]

(* An answer that counts: recorded, and between the first hash and now.    *)
Accounted(u) ==
  /\ \E i \in DOMAIN requestBlocks :
       requestBlocks[i].block \in {Unobservable, u.number}
  /\ u.hash <= chain[u.number]
  /\ \/ \E i \in DOMAIN requestBlocks : requestBlocks[i].block = Unobservable
     \/ NumberLost
     \/ /\ HashRecorded
        /\ Len(numbers) = 1 /\ numbers[1] = u.number => preHashes[1] <= u.hash

UsedInv == \A u \in used : Accounted(u)

FinishInv ==
  /\ observation.status # "NONE" => simulator # "RUNNING"
  /\ observation.status = "HASHING" => observation = Hashing /\ numbers # <<>>

IInv ==
  /\ TypeOK /\ ObservationTyped
  /\ CallInv /\ PreHashInv /\ UsedInv /\ FinishInv
  /\ ProvenMeansOneBlock

(* The lists only grow, at their end, and versions only go up.             *)
Grows ==
  /\ \A b \in Blocks : chain[b] <= chain'[b]
  /\ failures \subseteq failures'
  /\ requestBlocks' = requestBlocks
     \/ \E r \in Requests : requestBlocks' = Append(requestBlocks, r)
  /\ numbers' = numbers \/ \E n \in Blocks : numbers' = Append(numbers, n)
  /\ preHashes' = preHashes
     \/ \E h \in Nat \cup {NoHash} : preHashes' = Append(preHashes, h)

-----------------------------------------------------------------------------
(* Sequences.                                                              *)
LEMMA SeqFacts ==
  ASSUME NEW S, NEW s \in Seq(S)
  PROVE  /\ s = <<>> <=> Len(s) = 0
         /\ Len(s) \in Nat /\ DOMAIN s = 1..Len(s)
         /\ \A i \in DOMAIN s : s[i] \in S
         /\ s # <<>> => 1 \in DOMAIN s /\ s[1] \in S
         /\ Len(s) = 1 => s # <<>> /\ \A i \in DOMAIN s : i = 1
OBVIOUS

LEMMA AppendFacts ==
  ASSUME NEW S, NEW s \in Seq(S), NEW x \in S
  PROVE  /\ Append(s, x) \in Seq(S) /\ Append(s, x) # <<>>
         /\ Len(Append(s, x)) = Len(s) + 1
         /\ \A i \in DOMAIN s : /\ i \in DOMAIN Append(s, x)
                                /\ Append(s, x)[i] = s[i]
         /\ Len(s) + 1 \in DOMAIN Append(s, x)
         /\ Append(s, x)[Len(s) + 1] = x
OBVIOUS

LEMMA OneLeft == \A k \in Nat : k # 0 /\ ~(k > 1) => k = 1
OBVIOUS

(* A list that grows keeps what it holds.                                  *)
LEMMA GrownList ==
  ASSUME NEW S, NEW s \in Seq(S), NEW t,
         t = s \/ \E x \in S : t = Append(s, x)
  PROVE  /\ \A i \in DOMAIN s : i \in DOMAIN t /\ t[i] = s[i]
         /\ s # <<>> => t # <<>> /\ t[1] = s[1]
         /\ s # <<>> /\ Len(t) = 1 => t = s
BY SeqFacts, AppendFacts

-----------------------------------------------------------------------------
(* What a PROVEN verification has found.                                   *)
LEMMA ProvenFacts ==
  ASSUME NEW o, NEW hasResults \in BOOLEAN,
         o.numbers \in Seq(Blocks),
         o.preHashes \in Seq(Nat \cup {NoHash}),
         o.requestBlocks \in Seq(Requests),
         Proven(o, hasResults)
  PROVE  /\ o.failures = {}
         /\ Len(o.numbers) = 1
         /\ \A i \in DOMAIN o.requestBlocks :
              o.requestBlocks[i].block = o.numbers[1]
         /\ Len(o.preHashes) = 1
         /\ o.preHashes[1] # NoHash
         /\ o.preHashes[1] = o.postHash
<1>1. /\ o.failures = {} /\ NumberReasons(o) = {}
      /\ ParameterReasons(o, hasResults) = {} /\ HashReasons(o) = {}
  BY DEF Proven
<1>2. o.numbers # <<>> /\ ~(Len(o.numbers) > 1)
  BY <1>1 DEF NumberReasons
<1>3. Len(o.numbers) = 1
  <2>1. Len(o.numbers) \in Nat /\ Len(o.numbers) # 0
    BY <1>2, SeqFacts, Zenon
  <2> QED
    BY <1>2, <2>1, OneLeft, Zenon
<1>4. {x \in Range(o.requestBlocks) :
         o.numbers = <<>> \/ x.block # o.numbers[1]} = {}
  BY <1>1, Zenon DEF ParameterReasons
<1>5. \A i \in DOMAIN o.requestBlocks : o.requestBlocks[i].block = o.numbers[1]
  BY <1>4 DEF Range
<1>6. ~(Len(o.preHashes) # 1 \/ o.postHash = NoHash
        \/ NoHash \in Range(o.preHashes))
  BY <1>1, Zenon DEF HashReasons
<1>7. o.preHashes[1] = o.postHash
  BY <1>1, <1>6, Zenon DEF HashReasons
<1> QED
  BY <1>1, <1>3, <1>5, <1>6, <1>7

LEMMA InitIInv == Init => IInv
<1> SUFFICES ASSUME Init PROVE IInv
  OBVIOUS
<1>1. TypeOK
  BY RecorderAssumption DEF Init, TypeOK, Blocks, SimulationMethods, NotFinished,
     NoHash
<1>2. ObservationTyped /\ FinishInv /\ ProvenMeansOneBlock
  BY DEF Init, ObservationTyped, Observed, FinishInv, ProvenMeansOneBlock,
     NotFinished
<1>3. CallInv /\ PreHashInv /\ UsedInv
  BY DEF Init, CallInv, CallOK, PreHashInv, UsedInv, SimulationMethods,
     HashRecorded
<1> QED
  BY <1>1, <1>2, <1>3 DEF IInv

-----------------------------------------------------------------------------
(* Types.                                                                  *)
LEMMA NextTypeOK == TypeOK /\ FinishInv /\ CallInv /\ [Next]_vars => TypeOK'
<1> SUFFICES ASSUME TypeOK, FinishInv, CallInv, [Next]_vars PROVE TypeOK'
  OBVIOUS
<1> USE RecorderAssumption
<1>1. CASE Advance
  BY <1>1 DEF Advance, TypeOK, Blocks, calling, recorded
<1>2. ASSUME NEW b \in Blocks, Replace(b) PROVE TypeOK'
  <2>1. chain' \in [Blocks -> Nat]
    BY <1>2 DEF Replace, TypeOK
  <2> QED
    BY <1>2, <2>1 DEF Replace, TypeOK, calling, recorded
<1>3. ASSUME NEW c \in Calls, SendNumber(c) PROVE TypeOK'
  BY <1>3 DEF SendNumber, TypeOK, recorded
<1>4. ASSUME NEW c \in Calls, NumberArrives(c) PROVE TypeOK'
  BY <1>4 DEF NumberArrives, TypeOK
<1>5. ASSUME NEW c \in Calls, NumberFails(c) PROVE TypeOK'
  BY <1>5 DEF NumberFails, TypeOK, FailureCodes
<1>6. ASSUME NEW c \in Calls, PreHashArrives(c) PROVE TypeOK'
  <2>1. block[c] \in Blocks
    BY <1>6 DEF PreHashArrives, CallInv, CallOK
  <2>2. \A h \in HashAnswers(block[c]) : h \in Nat \cup {NoHash}
    BY <2>1 DEF HashAnswers, TypeOK
  <2> QED
    BY <1>6, <2>2 DEF PreHashArrives, TypeOK, FailureCodes
<1>7. ASSUME NEW c \in Calls, NEW m \in SimulationMethods,
             NEW b \in Blocks \cup {Unobservable}, SendSimulation(c, m, b)
      PROVE  TypeOK'
  <2>1. requestBlocks' \in Seq([method : SimulationMethods,
                                block : Blocks \cup {Unobservable}])
    BY <1>7 DEF SendSimulation, RequestBlock, TypeOK
  <2> QED
    BY <1>7, <2>1 DEF SendSimulation, TypeOK, FailureCodes
<1>8. ASSUME NEW c \in Calls, SimulationAnswered(c) PROVE TypeOK'
  <2>1. used' \subseteq [number : Blocks, hash : Nat]
    BY <1>8 DEF SimulationAnswered, TypeOK
  <2> QED
    BY <1>8, <2>1 DEF SimulationAnswered, TypeOK, recorded
<1>9. ASSUME NEW c \in Calls, SimulationFails(c) PROVE TypeOK'
  BY <1>9 DEF SimulationFails, TypeOK, recorded
<1>10. ASSUME NEW how \in {"RETURNED", "THREW"}, SimulatorSettles(how)
       PROVE  TypeOK'
  <2>1. failures' \subseteq FailureCodes
    BY <1>10 DEF SimulatorSettles, TypeOK, FailureCodes, NumberFailures,
         ParameterFailures, HashFailures
  <2>2. observation'.status \in {"HASHING", "OBSERVED"}
    BY <1>10 DEF SimulatorSettles, Hashing, Snapshot
  <2> QED
    BY <1>10, <2>1, <2>2 DEF SimulatorSettles, TypeOK, calling
<1>11. CASE PostHashArrives
  <2>1. failures' \subseteq FailureCodes
    BY <1>11 DEF PostHashArrives, TypeOK, FailureCodes, HashFailures
  <2>2. observation'.status = "OBSERVED"
    BY <1>11 DEF PostHashArrives, Snapshot
  <2> QED
    BY <1>11, <2>1, <2>2 DEF PostHashArrives, TypeOK, calling
<1>12. CASE UNCHANGED vars
  BY <1>12 DEF vars, TypeOK, calling, recorded
<1> QED
  BY <1>1, <1>2, <1>3, <1>4, <1>5, <1>6, <1>7, <1>8, <1>9, <1>10, <1>11, <1>12
  DEF Next

LEMMA NextGrows == TypeOK /\ FinishInv /\ CallInv /\ [Next]_vars => Grows
<1> SUFFICES ASSUME TypeOK, FinishInv, CallInv, [Next]_vars PROVE Grows
  OBVIOUS
<1> USE DEF TypeOK, Grows, Requests
<1>1. CASE Advance
  BY <1>1 DEF Advance, calling, recorded
<1>2. ASSUME NEW b \in Blocks, Replace(b) PROVE Grows
  BY <1>2 DEF Replace, calling, recorded
<1>3. ASSUME NEW c \in Calls, SendNumber(c) PROVE Grows
  BY <1>3 DEF SendNumber, recorded
<1>4. ASSUME NEW c \in Calls, NumberArrives(c) PROVE Grows
  BY <1>4 DEF NumberArrives
<1>5. ASSUME NEW c \in Calls, NumberFails(c) PROVE Grows
  BY <1>5 DEF NumberFails
<1>6. ASSUME NEW c \in Calls, PreHashArrives(c) PROVE Grows
  <2>1. block[c] \in Blocks
    BY <1>6 DEF PreHashArrives, CallInv, CallOK
  <2> QED
    BY <1>6, <2>1 DEF PreHashArrives, HashAnswers
<1>7. ASSUME NEW c \in Calls, NEW m \in SimulationMethods,
             NEW b \in Blocks \cup {Unobservable}, SendSimulation(c, m, b)
      PROVE  Grows
  BY <1>7 DEF SendSimulation, RequestBlock
<1>8. ASSUME NEW c \in Calls, SimulationAnswered(c) PROVE Grows
  BY <1>8 DEF SimulationAnswered, recorded
<1>9. ASSUME NEW c \in Calls, SimulationFails(c) PROVE Grows
  BY <1>9 DEF SimulationFails, recorded
<1>10. ASSUME NEW how \in {"RETURNED", "THREW"}, SimulatorSettles(how)
       PROVE  Grows
  BY <1>10 DEF SimulatorSettles, calling
<1>11. CASE PostHashArrives
  BY <1>11 DEF PostHashArrives, calling
<1>12. CASE UNCHANGED vars
  BY <1>12 DEF vars, calling, recorded
<1> QED
  BY <1>1, <1>2, <1>3, <1>4, <1>5, <1>6, <1>7, <1>8, <1>9, <1>10, <1>11, <1>12
  DEF Next

-----------------------------------------------------------------------------
(* What growth keeps.                                                      *)
LEMMA CallKept ==
  ASSUME TypeOK, Grows, NEW c \in Calls, CallOK(c),
         method'[c] = method[c], phase'[c] = phase[c], block'[c] = block[c]
  PROVE  CallOK(c)'
<1>1. NumberLost \/ HashRecorded => NumberLost' \/ HashRecorded'
  BY DEF TypeOK, Grows, NumberLost, HashRecorded
<1>2. ASSUME NEW i \in DOMAIN numbers
      PROVE  i \in DOMAIN numbers' /\ numbers'[i] = numbers[i]
  <2>1. numbers \in Seq(Blocks)
        /\ (numbers' = numbers \/ \E n \in Blocks : numbers' = Append(numbers, n))
    BY DEF TypeOK, Grows
  <2> QED
    BY <2>1, GrownList
<1>3. ASSUME NEW i \in DOMAIN requestBlocks
      PROVE  i \in DOMAIN requestBlocks' /\ requestBlocks'[i] = requestBlocks[i]
  <2>1. /\ requestBlocks \in Seq(Requests)
        /\ \/ requestBlocks' = requestBlocks
           \/ \E r \in Requests : requestBlocks' = Append(requestBlocks, r)
    BY DEF TypeOK, Grows, Requests
  <2> QED
    BY <2>1, GrownList
<1> QED
  BY <1>1, <1>2, <1>3 DEF CallOK

LEMMA AccountedKept ==
  ASSUME TypeOK, PreHashInv, Grows,
         NEW u \in [number : Blocks, hash : Nat], Accounted(u), TypeOK'
  PROVE  Accounted(u)'
<1>1. ASSUME NEW i \in DOMAIN requestBlocks
      PROVE  i \in DOMAIN requestBlocks' /\ requestBlocks'[i] = requestBlocks[i]
  <2>1. /\ requestBlocks \in Seq(Requests)
        /\ \/ requestBlocks' = requestBlocks
           \/ \E r \in Requests : requestBlocks' = Append(requestBlocks, r)
    BY DEF TypeOK, Grows, Requests
  <2> QED
    BY <2>1, GrownList
<1>2. u.hash <= chain'[u.number]
  BY DEF Accounted, Grows, TypeOK
<1>3. NumberLost => NumberLost'
  BY DEF Grows, NumberLost
<1>4. ASSUME HashRecorded PROVE HashRecorded' /\ preHashes'[1] = preHashes[1]
  <2>1. /\ preHashes \in Seq(Nat \cup {NoHash})
        /\ \/ preHashes' = preHashes
           \/ \E h \in Nat \cup {NoHash} : preHashes' = Append(preHashes, h)
    BY DEF TypeOK, Grows
  <2> QED
    BY <1>4, <2>1, GrownList DEF HashRecorded
<1>5. ASSUME HashRecorded, Len(numbers') = 1 PROVE numbers' = numbers
  <2>1. numbers # <<>>
    BY <1>5 DEF HashRecorded, PreHashInv
  <2> QED
    <3>1. numbers \in Seq(Blocks)
          /\ (numbers' = numbers \/ \E n \in Blocks : numbers' = Append(numbers, n))
      BY DEF TypeOK, Grows
    <3> QED
      BY <1>5, <2>1, <3>1, GrownList
<1> QED
  BY <1>1, <1>2, <1>3, <1>4, <1>5 DEF Accounted

LEMMA NextCallInv == IInv /\ [Next]_vars => CallInv'
<1> SUFFICES ASSUME IInv, [Next]_vars, NEW c \in Calls PROVE CallOK(c)'
  BY DEF CallInv
<1>1. TypeOK /\ CallOK(c) /\ Grows /\ TypeOK'
  BY NextGrows, NextTypeOK DEF IInv, CallInv
<1>2. CASE method'[c] = method[c] /\ phase'[c] = phase[c] /\ block'[c] = block[c]
  BY <1>1, <1>2, CallKept
<1>3. CASE ~(method'[c] = method[c] /\ phase'[c] = phase[c]
             /\ block'[c] = block[c])
  <2>1. ASSUME NEW d \in Calls, SendNumber(d) PROVE CallOK(c)'
    <3>1. c = d
      BY <1>1, <1>3, <2>1 DEF SendNumber, TypeOK
    <3> QED
      BY <1>1, <2>1, <3>1 DEF SendNumber, TypeOK, CallOK, SimulationMethods
  <2>2. ASSUME NEW d \in Calls, NumberArrives(d) PROVE CallOK(c)'
    <3>1. c = d
      BY <1>1, <1>3, <2>2 DEF NumberArrives, TypeOK
    <3>2. /\ method'[c] = "NUMBER" /\ phase'[c] = "HASHING" /\ block'[c] = head
          /\ numbers' = Append(numbers, head)
      BY <1>1, <2>2, <3>1 DEF NumberArrives, TypeOK
    <3>3. Len(numbers) + 1 \in DOMAIN numbers' /\ numbers'[Len(numbers) + 1] = head
      BY <1>1, <3>2 DEF TypeOK
    <3> QED
      BY <1>1, <3>2, <3>3 DEF CallOK, SimulationMethods, TypeOK
  <2>3. ASSUME NEW d \in Calls, NumberFails(d) PROVE CallOK(c)'
    <3>1. c = d
      BY <1>1, <1>3, <2>3 DEF NumberFails, TypeOK
    <3> QED
      BY <1>1, <2>3, <3>1 DEF NumberFails, TypeOK, CallOK, NumberLost,
           SimulationMethods
  <2>4. ASSUME NEW d \in Calls, PreHashArrives(d) PROVE CallOK(c)'
    <3>1. c = d
      BY <1>1, <1>3, <2>4 DEF PreHashArrives, TypeOK
    <3>2. phase'[c] = "ANSWERED" /\ method'[c] = "NUMBER"
      BY <1>1, <2>4, <3>1 DEF PreHashArrives, TypeOK, CallOK
    <3>3. HashRecorded'
      BY <1>1, <2>4 DEF PreHashArrives, TypeOK, HashRecorded
    <3> QED
      BY <3>2, <3>3 DEF CallOK, SimulationMethods
  <2>5. ASSUME NEW d \in Calls, NEW m \in SimulationMethods,
               NEW b \in Blocks \cup {Unobservable}, SendSimulation(d, m, b)
        PROVE  CallOK(c)'
    <3>1. c = d
      BY <1>1, <1>3, <2>5 DEF SendSimulation, TypeOK
    <3>2. /\ method'[c] = m /\ block'[c] = b /\ phase'[c] = "SENT"
          /\ requestBlocks' = Append(requestBlocks, [method |-> m, block |-> b])
      BY <1>1, <2>5, <3>1 DEF SendSimulation, RequestBlock, TypeOK
    <3>3. /\ Len(requestBlocks) + 1 \in DOMAIN requestBlocks'
          /\ requestBlocks'[Len(requestBlocks) + 1].block = b
      BY <1>1, <3>2 DEF TypeOK
    <3>4. b = Unobservable \/ NumberLost \/ HashRecorded
      BY <2>5 DEF SendSimulation, NumberKnown, IInv, CallInv, CallOK
    <3>5. b = Unobservable \/ NumberLost' \/ HashRecorded'
      BY <1>1, <3>4 DEF Grows, NumberLost, HashRecorded, TypeOK
    <3> QED
      BY <3>2, <3>3, <3>5 DEF CallOK, SimulationMethods
  <2>6. ASSUME NEW d \in Calls, SimulationAnswered(d) \/ SimulationFails(d)
        PROVE  CallOK(c)'
    <3>1. c = d
      BY <1>1, <1>3, <2>6 DEF SimulationAnswered, SimulationFails, TypeOK
    <3>2. /\ method[c] \in SimulationMethods /\ phase'[c] = "ANSWERED"
          /\ UNCHANGED <<method, block, numbers, preHashes, requestBlocks,
                         failures>>
      BY <1>1, <2>6, <3>1 DEF SimulationAnswered, SimulationFails, TypeOK,
           recorded
    <3> QED
      BY <1>1, <3>2 DEF CallOK, SimulationMethods, NumberLost, HashRecorded
  <2>7. ~(Advance \/ (\E b \in Blocks : Replace(b)) \/ PostHashArrives
           \/ (\E how \in {"RETURNED", "THREW"} : SimulatorSettles(how))
           \/ UNCHANGED vars)
    BY <1>3 DEF Advance, Replace, PostHashArrives, SimulatorSettles, vars, calling
  <2> QED
    BY <2>1, <2>2, <2>3, <2>4, <2>5, <2>6, <2>7 DEF Next
<1> QED
  BY <1>2, <1>3

LEMMA NextPreHashInv == IInv /\ [Next]_vars => PreHashInv'
<1> SUFFICES ASSUME IInv, [Next]_vars PROVE PreHashInv'
  OBVIOUS
<1>1. TypeOK /\ PreHashInv /\ Grows /\ TypeOK'
  BY NextGrows, NextTypeOK DEF IInv
<1>2. ASSUME NEW c \in Calls, NumberArrives(c) PROVE PreHashInv'
  <2>1. numbers' = Append(numbers, head) /\ preHashes' = preHashes
        /\ chain' = chain
    BY <1>2 DEF NumberArrives
  <2>2. numbers' # <<>> /\ Len(numbers') = Len(numbers) + 1 /\ Len(numbers) \in Nat
    BY <1>1, <2>1, SeqFacts, AppendFacts DEF TypeOK
  <2>3. Len(numbers') = 1 => numbers = <<>>
    <3>1. numbers = <<>> <=> Len(numbers) = 0
      BY <1>1, SeqFacts, Zenon DEF TypeOK
    <3>2. \A k \in Nat : k + 1 = 1 => k = 0
      OBVIOUS
    <3> QED
      BY <2>2, <3>1, <3>2, Zenon
  <2> QED
    BY <1>1, <2>1, <2>2, <2>3 DEF PreHashInv, HashRecorded
<1>3. ASSUME NEW c \in Calls, PreHashArrives(c) PROVE PreHashInv'
  <2>1. PICK i \in DOMAIN numbers : numbers[i] = block[c]
    BY <1>3 DEF PreHashArrives, IInv, CallInv, CallOK
  <2>2. PICK h \in HashAnswers(block[c]) : preHashes' = Append(preHashes, h)
    BY <1>3 DEF PreHashArrives
  <2>3. UNCHANGED <<numbers, chain>>
    BY <1>3 DEF PreHashArrives
  <2>4. numbers # <<>>
    BY <1>1, <2>1 DEF TypeOK
  <2>5. ASSUME Len(numbers) = 1 PROVE preHashes'[1] <= chain[numbers[1]]
    <3>1. block[c] = numbers[1] /\ numbers[1] \in Blocks
      BY <1>1, <2>1, <2>5, SeqFacts DEF TypeOK
    <3>2. CASE HashRecorded
      BY <1>1, <2>2, <2>5, <3>2 DEF PreHashInv, HashRecorded, TypeOK
    <3>3. CASE ~HashRecorded
      <4>1. preHashes'[1] = h
        BY <2>2, <3>3 DEF HashRecorded
      <4> QED
        <5>1. chain[numbers[1]] \in Nat
          BY <1>1, <3>1 DEF TypeOK
        <5> QED
          BY <2>2, <3>1, <4>1, <5>1 DEF HashAnswers, NoHash
    <3> QED
      BY <3>2, <3>3
  <2> QED
    BY <2>3, <2>4, <2>5 DEF PreHashInv
<1>4. CASE UNCHANGED <<numbers, preHashes>>
  <2>1. ASSUME Len(numbers) = 1, HashRecorded
        PROVE  preHashes[1] <= chain'[numbers[1]]
    <3>1. numbers[1] \in Blocks /\ preHashes[1] \in Int
      BY <1>1, <2>1, SeqFacts DEF TypeOK, HashRecorded, NoHash
    <3>2. preHashes[1] <= chain[numbers[1]]
      BY <1>1, <2>1 DEF PreHashInv
    <3>3. /\ chain[numbers[1]] <= chain'[numbers[1]]
          /\ chain[numbers[1]] \in Nat /\ chain'[numbers[1]] \in Nat
      BY <1>1, <3>1 DEF Grows, TypeOK
    <3> QED
      BY <3>1, <3>2, <3>3
  <2> QED
    BY <1>1, <1>4, <2>1 DEF PreHashInv, HashRecorded
<1>5. \/ UNCHANGED <<numbers, preHashes>>
      \/ \E c \in Calls : NumberArrives(c) \/ PreHashArrives(c)
  BY DEF Next, vars, Advance, Replace, SendNumber, NumberFails, SendSimulation,
     SimulationAnswered, SimulationFails, SimulatorSettles, PostHashArrives,
     recorded
<1> QED
  BY <1>2, <1>3, <1>4, <1>5

LEMMA NextUsedInv == IInv /\ [Next]_vars => UsedInv'
<1> SUFFICES ASSUME IInv, [Next]_vars, NEW u \in used' PROVE Accounted(u)'
  BY DEF UsedInv
<1>1. TypeOK /\ PreHashInv /\ Grows /\ TypeOK'
  BY NextGrows, NextTypeOK DEF IInv
<1>2. CASE u \in used
  <2>1. u \in [number : Blocks, hash : Nat] /\ Accounted(u)
    BY <1>2 DEF IInv, TypeOK, UsedInv
  <2> QED
    BY <1>1, <2>1, AccountedKept
<1>3. CASE u \notin used
  <2>1. PICK c \in Calls : SimulationAnswered(c)
    BY <1>3 DEF Next, vars, Advance, Replace, SendNumber, NumberArrives,
       NumberFails, PreHashArrives, SendSimulation, SimulationFails,
       SimulatorSettles, PostHashArrives
  <2> DEFINE b == IF block[c] = Unobservable THEN head ELSE block[c]
  <2>2. u = [number |-> b, hash |-> chain[b]]
    BY <1>3, <2>1 DEF SimulationAnswered
  <2>3. method[c] \in SimulationMethods /\ CallOK(c)
    BY <2>1 DEF SimulationAnswered, IInv, CallInv
  <2>4. b \in Blocks
    BY <1>1 DEF TypeOK
  <2>5. PICK i \in DOMAIN requestBlocks : requestBlocks[i].block = block[c]
    BY <2>3 DEF CallOK
  <2>6. block[c] \in {Unobservable, u.number}
    BY <2>2
  <2>7. u.hash <= chain[u.number]
    BY <1>1, <2>2, <2>4 DEF TypeOK
  <2>8. ASSUME HashRecorded, Len(numbers) = 1, numbers[1] = u.number
        PROVE  preHashes[1] <= u.hash
    BY <1>1, <2>2, <2>8 DEF PreHashInv
  <2>9. Accounted(u)
    <3>1. CASE block[c] = Unobservable
      BY <2>5, <2>7, <3>1 DEF Accounted
    <3>2. CASE block[c] # Unobservable
      <4>1. NumberLost \/ HashRecorded
        BY <2>3, <3>2 DEF CallOK
      <4> QED
        BY <2>5, <2>6, <2>7, <2>8, <4>1 DEF Accounted
    <3> QED
      BY <3>1, <3>2
  <2>10. u \in [number : Blocks, hash : Nat]
    BY <1>1 DEF TypeOK
  <2> QED
    BY <1>1, <2>9, <2>10, AccountedKept
<1> QED
  BY <1>2, <1>3

(* What the session observed, once it is finished.                         *)
LEMMA NextObserved ==
  IInv /\ [Next]_vars => ObservationTyped' /\ FinishInv' /\ ProvenMeansOneBlock'
<1> SUFFICES ASSUME IInv, [Next]_vars
             PROVE  ObservationTyped' /\ FinishInv' /\ ProvenMeansOneBlock'
  OBVIOUS
<1> USE DEF IInv
<1>1. ASSUME NEW how \in {"RETURNED", "THREW"}, SimulatorSettles(how)
      PROVE  ObservationTyped' /\ FinishInv' /\ ProvenMeansOneBlock'
  <2>1. CASE Len(numbers) = 1
    <3>1. observation' = Hashing /\ numbers' = numbers /\ simulator' = how
      BY <1>1, <2>1 DEF SimulatorSettles
    <3>2. numbers # <<>>
      BY <2>1
    <3> QED
      BY <3>1, <3>2 DEF Hashing, ObservationTyped, Observed, FinishInv,
           ProvenMeansOneBlock
  <2>2. CASE Len(numbers) # 1
    <3>1. observation' = Snapshot(NoHash, failures') /\ simulator' = how
      BY <1>1, <2>2 DEF SimulatorSettles
    <3>2. ObservationTyped' /\ FinishInv'
      BY <3>1 DEF Snapshot, ObservationTyped, Observed, FinishInv, TypeOK,
           Requests
    <3>3. observation'.numbers = numbers
      BY <3>1 DEF Snapshot
    <3>4. Observed'
      BY <3>1 DEF Snapshot, Observed
    <3>5. ASSUME NEW hasResults \in BOOLEAN, Proven(observation', hasResults)
          PROVE  FALSE
      BY <2>2, <3>2, <3>3, <3>4, <3>5, ProvenFacts DEF ObservationTyped
    <3> QED
      BY <3>2, <3>5 DEF ProvenMeansOneBlock
  <2> QED
    BY <2>1, <2>2
<1>2. CASE PostHashArrives
  <2>1. PICK post \in HashAnswers(numbers[1]) :
          /\ failures' = failures \cup HashFailures(post)
          /\ observation' = Snapshot(post, failures')
    BY <1>2 DEF PostHashArrives
  <2>2. UNCHANGED <<numbers, preHashes, requestBlocks, simulator, used, chain>>
    BY <1>2 DEF PostHashArrives
  <2>3. simulator # "RUNNING"
    BY <1>2 DEF PostHashArrives, FinishInv, Hashing
  <2>4. ObservationTyped' /\ FinishInv' /\ Observed'
    BY <2>1, <2>2, <2>3 DEF Snapshot, ObservationTyped, Observed, FinishInv,
       TypeOK, Requests
  <2>5. /\ observation'.numbers = numbers /\ observation'.preHashes = preHashes
        /\ observation'.requestBlocks = requestBlocks
        /\ observation'.postHash = post /\ observation'.failures = failures'
    BY <2>1 DEF Snapshot
  <2>6. ASSUME NEW hasResults \in BOOLEAN, Proven(observation', hasResults),
               NEW u \in used
        PROVE  u = [number |-> numbers[1], hash |-> preHashes[1]]
    <3>1. /\ failures' = {} /\ Len(numbers) = 1 /\ Len(preHashes) = 1
          /\ \A i \in DOMAIN requestBlocks :
               requestBlocks[i].block = numbers[1]
          /\ preHashes[1] # NoHash /\ preHashes[1] = post
      BY <2>4, <2>5, <2>6, ProvenFacts DEF ObservationTyped
    <3>2. numbers[1] \in Blocks /\ numbers[1] # Unobservable
      <4>1. numbers[1] \in Blocks
        BY <3>1, SeqFacts DEF TypeOK
      <4> QED
        BY <4>1, RecorderAssumption DEF Blocks, Unobservable
    <3>3. ~NumberLost
      BY <2>1, <3>1 DEF NumberLost
    <3>4. Accounted(u) /\ u \in [number : Blocks, hash : Nat]
      BY DEF UsedInv, TypeOK
    <3>5. u.number = numbers[1]
      BY <3>1, <3>2, <3>4 DEF Accounted
    <3>6. preHashes[1] <= u.hash /\ u.hash <= chain[numbers[1]]
      BY <3>1, <3>2, <3>3, <3>4, <3>5 DEF Accounted
    <3>7. preHashes[1] = chain[numbers[1]]
      BY <3>1 DEF HashAnswers
    <3>8. u.hash \in Nat /\ chain[numbers[1]] \in Nat
      BY <3>2, <3>4 DEF TypeOK
    <3>9. u.hash = preHashes[1]
      BY <3>6, <3>7, <3>8
    <3> QED
      BY <3>4, <3>5, <3>9
  <2>7. ProvenMeansOneBlock'
    BY <2>2, <2>5, <2>6 DEF ProvenMeansOneBlock
  <2> QED
    BY <2>4, <2>7
<1>3. CASE UNCHANGED <<observation, simulator>>
  <2>1. ObservationTyped'
    BY <1>3 DEF ObservationTyped, Observed
  <2>2. FinishInv'
    BY <1>3, NextGrows DEF FinishInv, Grows, TypeOK
  <2>3. ProvenMeansOneBlock'
    <3>1. CASE simulator = "RUNNING"
      BY <1>3, <3>1 DEF ProvenMeansOneBlock
    <3>2. CASE simulator # "RUNNING"
      <4>1. used' = used
        BY <1>3, <3>2 DEF Next, vars, Advance, Replace, SendNumber,
           NumberArrives, NumberFails, PreHashArrives, SendSimulation,
           SimulationAnswered, SimulationFails, SimulatorSettles, PostHashArrives
      <4> QED
        BY <1>3, <4>1 DEF ProvenMeansOneBlock, Observed
    <3> QED
      BY <3>1, <3>2
  <2> QED
    BY <2>1, <2>2, <2>3
<1>4. \/ UNCHANGED <<observation, simulator>>
      \/ PostHashArrives
      \/ \E how \in {"RETURNED", "THREW"} : SimulatorSettles(how)
  BY DEF Next, vars, Advance, Replace, SendNumber, NumberArrives, NumberFails,
     PreHashArrives, SendSimulation, SimulationAnswered, SimulationFails
<1> QED
  BY <1>1, <1>2, <1>3, <1>4

LEMMA Invariance == Spec => []IInv
<1>1. Init => IInv
  BY InitIInv
<1>2. IInv /\ [Next]_vars => IInv'
  BY NextTypeOK, NextCallInv, NextPreHashInv, NextUsedInv, NextObserved DEF IInv
<1> QED
  BY <1>1, <1>2, PTL DEF Spec

-----------------------------------------------------------------------------
(* No false alarm.  The invariant says whom each recorded number, hash and *)
(* failure comes from, while there is one eth_blockNumber request; the     *)
(* evidence is judged by requests that were sent later as well, so it is   *)
(* kept beside the session.                                                *)
Single(n) ==
  method[n] = "NUMBER" /\ \A c \in Calls : method[c] = "NUMBER" => c = n

Simulates(c) == method[c] \in SimulationMethods

(* What is known of a request before it is sent, and before it is answered. *)
SentOK(c) ==
  /\ phase[c] = "UNSENT" <=> method[c] = "NONE"
  /\ phase[c] = "UNSENT" => block[c] = Unobservable
  /\ method[c] = "NUMBER" /\ phase[c] = "SENT" => block[c] = Unobservable

SentInv == \A c \in Calls : SentOK(c)

NumberInv ==
  /\ (\A c \in Calls : method[c] # "NUMBER") =>
       Len(numbers) = 0 /\ Len(preHashes) = 0
  /\ \A n \in Calls : Single(n) =>
       /\ block[n] = Unobservable => Len(numbers) = 0 /\ Len(preHashes) = 0
       /\ block[n] # Unobservable =>
            /\ Len(numbers) = 1 /\ numbers[1] = block[n]
            /\ Len(preHashes) = IF phase[n] = "ANSWERED" THEN 1 ELSE 0

RequestInv ==
  \A i \in DOMAIN requestBlocks :
    \E c \in Calls : Simulates(c) /\ block[c] = requestBlocks[i].block

(* What a failure of the session goes back to.                             *)
ReasonInv ==
  /\ "BLOCK_NUMBER_UNOBSERVABLE" \in failures =>
       \/ Observed
       \/ \E c \in Calls : method[c] = "NUMBER" /\ phase[c] = "ANSWERED"
                           /\ block[c] = Unobservable
  /\ "BLOCK_NUMBER_INCONSISTENT" \in failures => Observed
  /\ "BLOCK_PARAMETER_UNOBSERVABLE" \in failures =>
       \E c \in Calls : Simulates(c) /\ block[c] = Unobservable
  /\ "BLOCK_PARAMETER_INCONSISTENT" \in failures =>
       Len(numbers) # 0 /\ \E c \in Calls : Simulates(c) /\ block[c] # numbers[1]
  /\ "BLOCK_HASH_UNOBSERVABLE" \in failures =>
       Observed \/ \E i \in DOMAIN preHashes : preHashes[i] = NoHash
  /\ "BLOCK_HASH_CHANGED" \in failures => Observed

(* What the evidence holds against the run of one number.                  *)
Explained(o, n) ==
  /\ Len(o.numbers) = 1 /\ o.numbers[1] = block[n]
  /\ Len(o.preHashes) = 1 /\ o.preHashes[1] <= chain[block[n]]
  /\ o.postHash \in Nat \cup {NoHash} /\ o.postHash <= chain[block[n]]
  /\ "BLOCK_NUMBER_UNOBSERVABLE" \notin o.failures
  /\ "BLOCK_NUMBER_INCONSISTENT" \notin o.failures
  /\ "BLOCK_PARAMETER_UNOBSERVABLE" \in o.failures =>
       \E c \in Calls : Simulates(c) /\ block[c] = Unobservable
  /\ "BLOCK_PARAMETER_INCONSISTENT" \in o.failures =>
       \E c \in Calls : Simulates(c) /\ block[c] # block[n]
  /\ "BLOCK_HASH_UNOBSERVABLE" \in o.failures =>
       NoHash \in {o.preHashes[1], o.postHash}
  /\ "BLOCK_HASH_CHANGED" \in o.failures => o.preHashes[1] # o.postHash
                                            /\ o.preHashes[1] # NoHash
                                            /\ o.postHash # NoHash

EvidenceInv ==
  Observed =>
    /\ observation.failures \subseteq FailureCodes
    /\ Len(observation.preHashes) # 0 => Len(preHashes) # 0
    /\ \A i \in DOMAIN observation.requestBlocks :
         \E c \in Calls : /\ Simulates(c)
                          /\ block[c] = observation.requestBlocks[i].block
    /\ \A n \in Calls :
         /\ Single(n) /\ block[n] # Unobservable
         /\ Len(observation.preHashes) # 0
         => Explained(observation, n)

HonestInv == SentInv /\ NumberInv /\ RequestInv /\ ReasonInv /\ EvidenceInv

LEMMA InitHonest == Init => HonestInv
BY DEF Init, HonestInv, SentInv, SentOK, NumberInv, RequestInv, ReasonInv, EvidenceInv,
   Single, Simulates, Observed, NotFinished, Unobservable

LEMMA ObservedStays ==
  ASSUME IInv, [Next]_vars, Observed
  PROVE  observation' = observation
<1>1. ASSUME NEW how \in {"RETURNED", "THREW"}, SimulatorSettles(how)
      PROVE  FALSE
  BY <1>1 DEF SimulatorSettles, IInv, FinishInv, Observed
<1>2. ~PostHashArrives
  BY DEF PostHashArrives, Hashing, Observed
<1> QED
  BY <1>1, <1>2 DEF Next, vars, Advance, Replace, SendNumber, NumberArrives,
     NumberFails, PreHashArrives, SendSimulation, SimulationAnswered,
     SimulationFails

(* A request is sent once, and what it asks for and for which block is     *)
(* settled as soon as it is known.                                         *)
LEMMA CallSteps ==
  ASSUME TypeOK, SentInv, [Next]_vars, NEW c \in Calls
  PROVE  /\ method[c] # "NONE" => method'[c] = method[c]
         /\ block[c] # Unobservable => block'[c] = block[c]
         /\ Simulates(c) => block'[c] = block[c] /\ Simulates(c)'
<1> USE DEF TypeOK, SentInv, SentOK, Simulates, SimulationMethods
<1>1. ASSUME NEW d \in Calls, SendNumber(d)
      PROVE  /\ method[c] # "NONE" => method'[c] = method[c]
             /\ block'[c] = block[c]
  BY <1>1 DEF SendNumber
<1>2. ASSUME NEW d \in Calls, NumberArrives(d)
      PROVE  /\ method'[c] = method[c]
             /\ block[c] # Unobservable \/ Simulates(c) => block'[c] = block[c]
  BY <1>2 DEF NumberArrives
<1>3. ASSUME NEW d \in Calls, NEW m \in SimulationMethods,
             NEW b \in Blocks \cup {Unobservable}, SendSimulation(d, m, b)
      PROVE  /\ method[c] # "NONE" => method'[c] = method[c]
             /\ block[c] # Unobservable \/ Simulates(c) => block'[c] = block[c]
  BY <1>3 DEF SendSimulation
<1>4. \/ UNCHANGED <<method, block>>
      \/ \E d \in Calls : SendNumber(d) \/ NumberArrives(d)
      \/ \E d \in Calls : \E m \in SimulationMethods :
           \E b \in Blocks \cup {Unobservable} : SendSimulation(d, m, b)
  BY Zenon DEF Next, vars, calling, Advance, Replace, NumberFails,
     PreHashArrives, SimulationAnswered, SimulationFails, SimulatorSettles,
     PostHashArrives
<1>5. Simulates(c) => method[c] # "NONE"
  OBVIOUS
<1> QED
  BY <1>1, <1>2, <1>3, <1>4, <1>5

LEMMA NextSentInv ==
  ASSUME TypeOK, CallInv, SentInv, [Next]_vars
  PROVE  SentInv'
<1> SUFFICES ASSUME NEW c \in Calls PROVE SentOK(c)'
  BY DEF SentInv
<1> USE DEF TypeOK, SentInv, SentOK, SimulationMethods
<1>1. ASSUME NEW d \in Calls, SendNumber(d) PROVE SentOK(c)'
  BY <1>1 DEF SendNumber
<1>2. ASSUME NEW d \in Calls, NumberArrives(d) PROVE SentOK(c)'
  BY <1>2 DEF NumberArrives
<1>3. ASSUME NEW d \in Calls, NEW m \in SimulationMethods,
             NEW b \in Blocks \cup {Unobservable}, SendSimulation(d, m, b)
      PROVE  SentOK(c)'
  BY <1>3 DEF SendSimulation
<1>4. ASSUME NEW d \in Calls,
             NumberFails(d) \/ PreHashArrives(d) \/ SimulationAnswered(d)
               \/ SimulationFails(d)
      PROVE  SentOK(c)'
  <2>1. /\ phase[d] # "UNSENT" /\ phase' = [phase EXCEPT ![d] = "ANSWERED"]
        /\ UNCHANGED <<method, block>>
    BY <1>4 DEF NumberFails, PreHashArrives, SimulationAnswered,
                SimulationFails
  <2> QED BY <2>1
<1>5. CASE UNCHANGED calling
  BY <1>5 DEF calling
<1>6. \/ UNCHANGED calling
      \/ \E d \in Calls :
           \/ SendNumber(d) \/ NumberArrives(d)
           \/ NumberFails(d) \/ PreHashArrives(d) \/ SimulationAnswered(d)
           \/ SimulationFails(d)
      \/ \E d \in Calls : \E m \in SimulationMethods :
           \E b \in Blocks \cup {Unobservable} : SendSimulation(d, m, b)
  BY Zenon DEF Next, vars, calling, Advance, Replace, SimulatorSettles,
     PostHashArrives
<1> HIDE DEF TypeOK, SentInv, SentOK, SimulationMethods
<1> QED BY <1>1, <1>2, <1>3, <1>4, <1>5, <1>6, Zenon

LEMMA NextNumberInv ==
  ASSUME TypeOK, CallInv, SentInv, NumberInv, [Next]_vars
  PROVE  NumberInv'
<1> USE DEF TypeOK, NumberInv, Single, SimulationMethods
<1> USE RecorderAssumption
<1>1. ASSUME NEW c \in Calls, SendNumber(c) PROVE NumberInv'
  <2>1. /\ method[c] = "NONE" /\ block[c] = Unobservable
        /\ method' = [method EXCEPT ![c] = "NUMBER"]
        /\ UNCHANGED <<block, numbers, preHashes>>
    BY <1>1 DEF SendNumber, SentInv, SentOK, recorded
  <2>2. ASSUME NEW n \in Calls, Single(n)'
        PROVE  n = c /\ \A d \in Calls : method[d] # "NUMBER"
    BY <2>1, <2>2
  <2> QED BY <2>1, <2>2
<1>2. ASSUME NEW c \in Calls, NumberArrives(c) PROVE NumberInv'
  <2>1. /\ method[c] = "NUMBER" /\ block[c] = Unobservable
        /\ head \in Blocks /\ head # Unobservable
        /\ block' = [block EXCEPT ![c] = head]
        /\ phase' = [phase EXCEPT ![c] = "HASHING"]
        /\ numbers' = Append(numbers, head)
        /\ UNCHANGED <<method, preHashes>>
    BY <1>2 DEF NumberArrives, SentInv, SentOK, Blocks, Unobservable
  <2>2. ASSUME Len(numbers) = 0
        PROVE  Len(numbers') = 1 /\ numbers'[1] = head
    BY <2>1, <2>2, AppendFacts
  <2> QED BY <2>1, <2>2
<1>3. ASSUME NEW c \in Calls, NumberFails(c) PROVE NumberInv'
  <2>1. /\ method[c] = "NUMBER" /\ block[c] = Unobservable
        /\ phase' = [phase EXCEPT ![c] = "ANSWERED"]
        /\ UNCHANGED <<method, block, numbers, preHashes>>
    BY <1>3 DEF NumberFails, SentInv, SentOK
  <2> QED BY <2>1
<1>4. ASSUME NEW c \in Calls, PreHashArrives(c) PROVE NumberInv'
  <2>1. method[c] = "NUMBER" /\ block[c] \in Blocks /\ block[c] # Unobservable
    BY <1>4 DEF PreHashArrives, CallInv, CallOK, Blocks, Unobservable
  <2>2. /\ phase[c] = "HASHING" /\ phase' = [phase EXCEPT ![c] = "ANSWERED"]
        /\ UNCHANGED <<method, block, numbers>>
        /\ Len(preHashes') = Len(preHashes) + 1
    <3>1. \A h \in HashAnswers(block[c]) : h \in Nat \cup {NoHash}
      BY <2>1 DEF HashAnswers
    <3> QED BY <1>4, <3>1, AppendFacts DEF PreHashArrives
  <2> QED BY <2>1, <2>2
<1>5. ASSUME NEW c \in Calls, NEW m \in SimulationMethods,
             NEW b \in Blocks \cup {Unobservable}, SendSimulation(c, m, b)
      PROVE  NumberInv'
  <2>1. /\ method[c] = "NONE"
        /\ method' = [method EXCEPT ![c] = m]
        /\ block' = [block EXCEPT ![c] = b]
        /\ phase' = [phase EXCEPT ![c] = "SENT"]
        /\ UNCHANGED <<numbers, preHashes>>
    BY <1>5 DEF SendSimulation, SentInv, SentOK
  <2>2. \A d \in Calls : method'[d] = "NUMBER" <=> method[d] = "NUMBER"
    BY <2>1
  <2>3. \A d \in Calls : method[d] = "NUMBER" =>
                           block'[d] = block[d] /\ phase'[d] = phase[d]
    BY <2>1
  <2> QED BY <2>1, <2>2, <2>3
<1>6. ASSUME NEW c \in Calls, SimulationAnswered(c) \/ SimulationFails(c)
      PROVE  NumberInv'
  <2>1. /\ method[c] # "NUMBER"
        /\ phase' = [phase EXCEPT ![c] = "ANSWERED"]
        /\ UNCHANGED <<method, block, numbers, preHashes>>
    BY <1>6 DEF SimulationAnswered, SimulationFails, recorded
  <2> QED BY <2>1
<1>7. CASE UNCHANGED <<method, block, phase, numbers, preHashes>>
  BY <1>7
<1>8. \/ UNCHANGED <<method, block, phase, numbers, preHashes>>
      \/ \E d \in Calls :
           \/ SendNumber(d) \/ NumberArrives(d) \/ NumberFails(d)
           \/ PreHashArrives(d) \/ SimulationAnswered(d) \/ SimulationFails(d)
      \/ \E d \in Calls : \E m \in SimulationMethods :
           \E b \in Blocks \cup {Unobservable} : SendSimulation(d, m, b)
  BY Zenon DEF Next, vars, calling, recorded, Advance, Replace,
     SimulatorSettles, PostHashArrives
<1> HIDE DEF NumberInv
<1> QED BY <1>1, <1>2, <1>3, <1>4, <1>5, <1>6, <1>7, <1>8

LEMMA NextRequestInv ==
  ASSUME TypeOK, SentInv, RequestInv, [Next]_vars
  PROVE  RequestInv'
<1>1. \A c \in Calls : Simulates(c) => block'[c] = block[c] /\ Simulates(c)'
  BY CallSteps
<1>2. CASE requestBlocks' = requestBlocks
  BY <1>1, <1>2 DEF RequestInv
<1>3. ASSUME NEW c \in Calls, NEW m \in SimulationMethods,
             NEW b \in Blocks \cup {Unobservable}, SendSimulation(c, m, b)
      PROVE  RequestInv'
  <2> DEFINE r == [method |-> m, block |-> b]
  <2>1. requestBlocks' = Append(requestBlocks, r)
    BY <1>3 DEF SendSimulation, RequestBlock
  <2>2. requestBlocks \in Seq(Requests) /\ r \in Requests
    BY DEF TypeOK, Requests
  <2>3. method' = [method EXCEPT ![c] = m] /\ block' = [block EXCEPT ![c] = b]
    BY <1>3 DEF SendSimulation
  <2>4. Simulates(c)' /\ block'[c] = r.block
    BY <2>3 DEF Simulates, TypeOK
  <2>5. ASSUME NEW i \in DOMAIN requestBlocks'
        PROVE  \/ i \in DOMAIN requestBlocks
                  /\ requestBlocks'[i] = requestBlocks[i]
               \/ requestBlocks'[i] = r
    <3> HIDE DEF r
    <3> QED BY <2>1, <2>2
  <2> HIDE DEF r
  <2> QED BY <1>1, <2>4, <2>5 DEF RequestInv
<1>4. \/ requestBlocks' = requestBlocks
      \/ \E c \in Calls : \E m \in SimulationMethods :
           \E b \in Blocks \cup {Unobservable} : SendSimulation(c, m, b)
  BY Zenon DEF Next, vars, recorded, Advance, Replace, SendNumber, NumberArrives,
     NumberFails, PreHashArrives, SimulationAnswered, SimulationFails,
     SimulatorSettles, PostHashArrives
<1> QED BY <1>2, <1>3, <1>4

LEMMA NextReasonInv ==
  ASSUME IInv, HonestInv, [Next]_vars
  PROVE  ReasonInv'
<1> DEFINE Lost(c) == method[c] = "NUMBER" /\ phase[c] = "ANSWERED"
                      /\ block[c] = Unobservable
           Off(c) == Simulates(c) /\ block[c] # numbers[1]
<1>1. TypeOK /\ SentInv /\ CallInv /\ Grows
  BY NextGrows DEF IInv, HonestInv
<1>2. \A c \in Calls : Simulates(c) => block'[c] = block[c] /\ Simulates(c)'
  BY <1>1, CallSteps
<1>3. Observed => Observed'
  BY ObservedStays DEF Observed
<1>4. ASSUME NEW c \in Calls, Lost(c)
      PROVE  Lost(c)'
  <2>1. method'[c] = method[c]
    BY <1>1, <1>4, CallSteps
  <2>2. block'[c] = block[c] /\ phase'[c] = phase[c]
    BY <1>1, <1>4, ZenonT(30) DEF TypeOK, Next, vars, calling, Advance, Replace, SendNumber,
       NumberArrives, NumberFails, PreHashArrives, SendSimulation,
       SimulationAnswered, SimulationFails, SimulatorSettles, PostHashArrives,
       SimulationMethods
  <2> QED BY <1>4, <2>1, <2>2
<1>5. Len(numbers) # 0 => Len(numbers') # 0 /\ numbers'[1] = numbers[1]
  <2>1. numbers \in Seq(Blocks)
        /\ (numbers' = numbers \/ \E n \in Blocks : numbers' = Append(numbers, n))
    BY <1>1 DEF TypeOK, Grows
  <2> QED BY <2>1
<1>6. ASSUME NEW i \in DOMAIN preHashes
      PROVE  i \in DOMAIN preHashes' /\ preHashes'[i] = preHashes[i]
  <2>1. /\ preHashes \in Seq(Nat \cup {NoHash})
        /\ \/ preHashes' = preHashes
           \/ \E h \in Nat \cup {NoHash} : preHashes' = Append(preHashes, h)
    BY <1>1 DEF TypeOK, Grows
  <2> QED BY <2>1, GrownList
<1> HIDE DEF Lost
<1>7. /\ (\E c \in Calls : Lost(c)) => \E c \in Calls : Lost(c)'
      /\ (\E c \in Calls : Simulates(c) /\ block[c] = Unobservable) =>
           \E c \in Calls : Simulates(c)' /\ block'[c] = Unobservable
      /\ Len(numbers) # 0 /\ (\E c \in Calls : Off(c)) =>
           Len(numbers') # 0
           /\ \E c \in Calls : Simulates(c)' /\ block'[c] # numbers'[1]
      /\ (\E i \in DOMAIN preHashes : preHashes[i] = NoHash) =>
           \E i \in DOMAIN preHashes' : preHashes'[i] = NoHash
  BY <1>2, <1>4, <1>5, <1>6
<1>8. CASE failures' = failures
  <2>1. ReasonInv
    BY DEF HonestInv
  <2> QED BY <1>3, <1>7, <1>8, <2>1 DEF ReasonInv, Lost
<1>9. SUFFICES ASSUME failures' # failures
               PROVE  \A f \in failures' \ failures :
                 \/ /\ f = "BLOCK_NUMBER_UNOBSERVABLE"
                    /\ Observed' \/ \E c \in Calls : Lost(c)'
                 \/ f = "BLOCK_NUMBER_INCONSISTENT" /\ Observed'
                 \/ /\ f = "BLOCK_PARAMETER_UNOBSERVABLE"
                    /\ \E c \in Calls : Simulates(c)' /\ block'[c] = Unobservable
                 \/ /\ f = "BLOCK_PARAMETER_INCONSISTENT"
                    /\ Len(numbers') # 0
                    /\ \E c \in Calls : Simulates(c)' /\ block'[c] # numbers'[1]
                 \/ /\ f = "BLOCK_HASH_UNOBSERVABLE"
                    /\ \/ Observed'
                       \/ \E i \in DOMAIN preHashes' : preHashes'[i] = NoHash
                 \/ f = "BLOCK_HASH_CHANGED" /\ Observed'
  <2>1. ReasonInv
    BY DEF HonestInv
  <2> QED BY <1>3, <1>7, <1>8, <1>9, <2>1 DEF ReasonInv, Lost
<1>10. ASSUME NEW c \in Calls, NumberFails(c)
       PROVE  /\ failures' \ failures \subseteq {"BLOCK_NUMBER_UNOBSERVABLE"}
              /\ Lost(c)'
  BY <1>1, <1>10 DEF NumberFails, TypeOK, SentInv, SentOK, Lost
<1>11. ASSUME NEW c \in Calls, PreHashArrives(c)
       PROVE  /\ failures' \ failures \subseteq {"BLOCK_HASH_UNOBSERVABLE"}
              /\ \E i \in DOMAIN preHashes' : preHashes'[i] = NoHash
  <2>1. PICK h \in HashAnswers(block[c]) :
              /\ preHashes' = Append(preHashes, h)
              /\ failures' = IF h = NoHash
                             THEN failures \cup {"BLOCK_HASH_UNOBSERVABLE"}
                             ELSE failures
    BY <1>11 DEF PreHashArrives
  <2>2. h = NoHash
    BY <1>9, <2>1
  <2>3. preHashes \in Seq(Nat \cup {NoHash}) /\ NoHash \in Nat \cup {NoHash}
    BY <1>1 DEF TypeOK
  <2>4. /\ Len(preHashes) + 1 \in DOMAIN preHashes'
        /\ preHashes'[Len(preHashes) + 1] = NoHash
    BY <2>1, <2>2, <2>3, AppendFacts
  <2> QED BY <2>1, <2>4
<1>12. ASSUME NEW c \in Calls, NEW m \in SimulationMethods,
              NEW b \in Blocks \cup {Unobservable}, SendSimulation(c, m, b)
       PROVE  /\ failures' \ failures \subseteq {"BLOCK_PARAMETER_UNOBSERVABLE"}
              /\ Simulates(c)' /\ block'[c] = Unobservable
  <2>1. /\ method' = [method EXCEPT ![c] = m] /\ block' = [block EXCEPT ![c] = b]
        /\ failures' = IF b = Unobservable
                       THEN failures \cup {"BLOCK_PARAMETER_UNOBSERVABLE"}
                       ELSE failures
    BY <1>12 DEF SendSimulation, RequestBlock
  <2> QED BY <1>1, <1>9, <2>1 DEF TypeOK, Simulates
<1>13. ASSUME "BLOCK_PARAMETER_INCONSISTENT" \in ParameterFailures
       PROVE  Len(numbers) # 0 /\ \E c \in Calls : Off(c)
  <2>1. numbers # <<>> /\ \E r \in Range(requestBlocks) : r.block # numbers[1]
    BY <1>13 DEF ParameterFailures
  <2>2. PICK i \in DOMAIN requestBlocks : requestBlocks[i].block # numbers[1]
    BY <2>1 DEF Range
  <2>3. \E c \in Calls : Simulates(c) /\ block[c] = requestBlocks[i].block
    BY <2>2 DEF HonestInv, RequestInv
  <2> QED BY <1>1, <2>1, <2>2, <2>3, SeqFacts DEF TypeOK
<1>14. ASSUME NEW how \in {"RETURNED", "THREW"}, SimulatorSettles(how)
       PROVE  /\ failures' \ failures \subseteq
                   NumberFailures \cup ParameterFailures \cup HashFailures(NoHash)
              /\ UNCHANGED <<numbers, calling>>
              /\ Observed' \/ failures' \ failures \subseteq ParameterFailures
  <2>1. Len(numbers) = 1 => NumberFailures = {}
    BY <1>1, SeqFacts DEF NumberFailures, TypeOK
  <2> QED BY <1>14, <2>1 DEF SimulatorSettles, Observed, Snapshot
<1>15. CASE PostHashArrives
  <2>1. Observed' /\ \E post : failures' = failures \cup HashFailures(post)
    BY <1>15 DEF PostHashArrives, Observed, Snapshot
  <2> QED BY <2>1 DEF HashFailures
<1>16. CASE \E how \in {"RETURNED", "THREW"} : SimulatorSettles(how)
  <2>1. ParameterFailures \subseteq {"BLOCK_PARAMETER_INCONSISTENT"}
    BY DEF ParameterFailures
  <2>2. NumberFailures \subseteq {"BLOCK_NUMBER_UNOBSERVABLE",
                                  "BLOCK_NUMBER_INCONSISTENT"}
        /\ HashFailures(NoHash) \subseteq {"BLOCK_HASH_UNOBSERVABLE"}
    BY DEF NumberFailures, HashFailures
  <2> QED BY <1>7, <1>13, <1>14, <1>16, <2>1, <2>2
<1>17. \/ failures' = failures \/ PostHashArrives
       \/ \E how \in {"RETURNED", "THREW"} : SimulatorSettles(how)
       \/ \E c \in Calls : NumberFails(c) \/ PreHashArrives(c)
       \/ \E c \in Calls : \E m \in SimulationMethods :
            \E b \in Blocks \cup {Unobservable} : SendSimulation(c, m, b)
  BY Zenon DEF Next, vars, recorded, Advance, Replace, SendNumber, NumberArrives,
     SimulationAnswered, SimulationFails
<1> QED BY <1>9, <1>10, <1>11, <1>12, <1>15, <1>16, <1>17

(* Evidence that is taken keeps its explanation.                           *)
LEMMA EvidenceKept ==
  ASSUME IInv, HonestInv, [Next]_vars, Observed
  PROVE  EvidenceInv'
<1> DEFINE o == observation
<1>1. TypeOK /\ SentInv /\ NumberInv /\ Grows /\ TypeOK' /\ EvidenceInv
  BY NextGrows, NextTypeOK DEF IInv, HonestInv
<1>2. observation' = o
  BY ObservedStays
<1>3. \A c \in Calls : Simulates(c) => block'[c] = block[c] /\ Simulates(c)'
  BY <1>1, CallSteps
<1>4. Len(preHashes) # 0 => Len(preHashes') # 0
  <2>1. /\ preHashes \in Seq(Nat \cup {NoHash})
        /\ \/ preHashes' = preHashes
           \/ \E h \in Nat \cup {NoHash} : preHashes' = Append(preHashes, h)
    BY <1>1 DEF TypeOK, Grows
  <2> QED BY <2>1
<1>5. ASSUME NEW n \in Calls, Single(n)', block'[n] # Unobservable,
             Len(o.preHashes) # 0
      PROVE  Explained(o, n)'
  <2>1. Len(preHashes) # 0
    BY <1>1, <1>5 DEF EvidenceInv
  <2>2. PICK c \in Calls : method[c] = "NUMBER"
    BY <1>1, <2>1 DEF NumberInv
  <2>3. \A d \in Calls : method[d] = "NUMBER" => method'[d] = "NUMBER"
    BY <1>1, CallSteps
  <2>4. Single(n)
    BY <1>5, <2>2, <2>3 DEF Single
  <2>5. block[n] # Unobservable
    BY <1>1, <2>1, <2>4 DEF NumberInv
  <2>6. block'[n] = block[n] /\ block[n] \in Blocks
    BY <1>1, <2>5, CallSteps DEF TypeOK
  <2>7. Explained(o, n)
    BY <1>1, <1>5, <2>4, <2>5 DEF EvidenceInv
  <2>8. /\ chain[block[n]] \in Nat /\ chain'[block[n]] \in Nat
        /\ chain[block[n]] <= chain'[block[n]]
    BY <1>1, <2>6 DEF TypeOK, Grows
  <2>9. o.preHashes[1] \in Int
    BY <2>7, SeqFacts DEF Explained, IInv, ObservationTyped, NoHash
  <2>10. /\ o.preHashes[1] <= chain'[block'[n]]
         /\ o.postHash <= chain'[block'[n]]
    BY <2>6, <2>7, <2>8, <2>9 DEF Explained, NoHash
  <2> QED BY <1>2, <1>3, <2>6, <2>7, <2>10 DEF Explained
<1>6. /\ o.failures \subseteq FailureCodes
      /\ Len(o.preHashes) # 0 => Len(preHashes) # 0
      /\ \A i \in DOMAIN o.requestBlocks :
           \E c \in Calls : Simulates(c) /\ block[c] = o.requestBlocks[i].block
  BY <1>1 DEF EvidenceInv
<1> HIDE DEF o
<1> QED BY <1>2, <1>3, <1>4, <1>5, <1>6 DEF EvidenceInv, o

(* A copy taken at once holds nothing against a run with one number that   *)
(* is known; one taken after the last hash has that hash.                  *)
LEMMA EvidenceTaken ==
  ASSUME IInv, HonestInv, [Next]_vars, ~Observed, Observed'
  PROVE  EvidenceInv'
<1>1. TypeOK /\ TypeOK' /\ NumberInv /\ RequestInv /\ ReasonInv /\ PreHashInv
  BY NextTypeOK DEF IInv, HonestInv
<1>2. \/ PostHashArrives
      \/ \E how \in {"RETURNED", "THREW"} : SimulatorSettles(how)
  BY Zenon DEF Next, vars, Advance, Replace, SendNumber, NumberArrives,
     NumberFails, PreHashArrives, SendSimulation, SimulationAnswered,
     SimulationFails, Observed
<1>3. UNCHANGED <<chain, method, block, phase, numbers, preHashes, requestBlocks>>
  BY <1>2 DEF PostHashArrives, SimulatorSettles, calling
<1>4. PICK post : observation' = Snapshot(post, failures')
  BY <1>2 DEF PostHashArrives, SimulatorSettles, Hashing, Observed
<1>5. /\ observation'.failures = failures'
      /\ observation'.numbers = numbers /\ observation'.preHashes = preHashes
      /\ observation'.requestBlocks = requestBlocks
      /\ observation'.postHash = post
  BY <1>4 DEF Snapshot
<1>6. ASSUME NEW n \in Calls, Single(n), block[n] # Unobservable,
             Len(preHashes) # 0
      PROVE  Explained(observation', n)
  <2>1. /\ Len(numbers) = 1 /\ numbers[1] = block[n] /\ Len(preHashes) = 1
        /\ block[n] \in Blocks
    BY <1>1, <1>6 DEF NumberInv, TypeOK
  <2>2. /\ PostHashArrives /\ ~Observed
    BY <1>2, <2>1 DEF SimulatorSettles, Hashing, Observed
  <2>3. PICK late \in HashAnswers(numbers[1]) :
          /\ failures' = failures \cup HashFailures(late)
          /\ observation' = Snapshot(late, failures')
    BY <2>2 DEF PostHashArrives
  <2>4. post = late
    BY <1>4, <2>3 DEF Snapshot
  <2>5. chain[block[n]] \in Nat /\ preHashes[1] \in Nat \cup {NoHash}
    BY <1>1, <2>1, SeqFacts DEF TypeOK
  <2>6. preHashes[1] <= chain[block[n]]
    <3>1. HashRecorded
      BY <2>1 DEF HashRecorded
    <3> QED BY <1>1, <2>1, <3>1 DEF PreHashInv
  <2>7. post \in Nat \cup {NoHash} /\ post <= chain[block[n]]
    BY <2>1, <2>3, <2>4, <2>5 DEF HashAnswers, NoHash
  <2>8. /\ "BLOCK_NUMBER_UNOBSERVABLE" \notin failures
        /\ "BLOCK_NUMBER_INCONSISTENT" \notin failures
        /\ "BLOCK_HASH_CHANGED" \notin failures
    BY <1>1, <1>6, <2>2 DEF ReasonInv, Single
  <2>9. "BLOCK_HASH_UNOBSERVABLE" \in failures => preHashes[1] = NoHash
    BY <1>1, <2>1, <2>2, SeqFacts DEF ReasonInv, TypeOK
  <2>10. /\ HashFailures(post) \subseteq
              {"BLOCK_HASH_UNOBSERVABLE", "BLOCK_HASH_CHANGED"}
         /\ "BLOCK_HASH_UNOBSERVABLE" \in HashFailures(post) => post = NoHash
         /\ "BLOCK_HASH_CHANGED" \in HashFailures(post) =>
              preHashes[1] # post /\ preHashes[1] # NoHash /\ post # NoHash
    BY DEF HashFailures
  <2>11. failures' = failures \cup HashFailures(post)
    BY <2>3, <2>4
  <2>12. /\ "BLOCK_PARAMETER_UNOBSERVABLE" \in failures =>
              \E c \in Calls : Simulates(c) /\ block[c] = Unobservable
         /\ "BLOCK_PARAMETER_INCONSISTENT" \in failures =>
              \E c \in Calls : Simulates(c) /\ block[c] # block[n]
    BY <1>1, <2>1 DEF ReasonInv
  <2>13. /\ "BLOCK_NUMBER_UNOBSERVABLE" \notin failures'
         /\ "BLOCK_NUMBER_INCONSISTENT" \notin failures'
         /\ "BLOCK_PARAMETER_UNOBSERVABLE" \in failures' =>
              \E c \in Calls : Simulates(c) /\ block[c] = Unobservable
         /\ "BLOCK_PARAMETER_INCONSISTENT" \in failures' =>
              \E c \in Calls : Simulates(c) /\ block[c] # block[n]
         /\ "BLOCK_HASH_UNOBSERVABLE" \in failures' =>
              NoHash \in {preHashes[1], post}
         /\ "BLOCK_HASH_CHANGED" \in failures' =>
              preHashes[1] # post /\ preHashes[1] # NoHash /\ post # NoHash
    BY <2>8, <2>9, <2>10, <2>11, <2>12
  <2> QED BY <1>5, <2>1, <2>6, <2>7, <2>13 DEF Explained
<1>7. \A n \in Calls : Single(n)' = Single(n)
  BY <1>3 DEF Single
<1>8. \A n \in Calls : Explained(observation', n) => Explained(observation, n)'
  BY <1>3 DEF Explained, Simulates
<1>9. failures' \subseteq FailureCodes
  BY <1>1 DEF TypeOK
<1>10. \A i \in DOMAIN requestBlocks :
         \E c \in Calls : Simulates(c)' /\ block'[c] = requestBlocks[i].block
  BY <1>1, <1>3 DEF RequestInv, Simulates
<1> QED
  BY <1>3, <1>5, <1>6, <1>7, <1>8, <1>9, <1>10 DEF EvidenceInv

LEMMA HonestInvariance == Spec => [](IInv /\ HonestInv)
<1>1. Init => IInv /\ HonestInv
  BY InitIInv, InitHonest
<1>2. IInv /\ HonestInv /\ [Next]_vars => IInv' /\ HonestInv'
  <2> SUFFICES ASSUME IInv, HonestInv, [Next]_vars PROVE IInv' /\ HonestInv'
    OBVIOUS
  <2>1. IInv'
    BY NextTypeOK, NextCallInv, NextPreHashInv, NextUsedInv, NextObserved
    DEF IInv
  <2>2. SentInv' /\ NumberInv' /\ RequestInv' /\ ReasonInv'
    BY NextSentInv, NextNumberInv, NextRequestInv, NextReasonInv
    DEF IInv, HonestInv
  <2>3. EvidenceInv'
    BY EvidenceKept, EvidenceTaken DEF EvidenceInv
  <2> QED BY <2>1, <2>2, <2>3 DEF HonestInv
<1> QED BY <1>1, <1>2, PTL DEF Spec

(* Explained evidence of an honest run is PROVEN.                          *)
LEMMA HonestIsProven == IInv /\ HonestInv => HonestRunIsProven
<1> DEFINE o == observation
<1> SUFFICES ASSUME IInv, HonestInv, Observed,
                    NoHash \notin Range(o.preHashes) \cup {o.postHash},
                    o.preHashes # <<>>,
                    \E r \in Range(o.requestBlocks) :
                      r.method = "debug_traceCall",
                    NEW n \in Calls, OnlyNumber(n)
             PROVE  Proven(o, TRUE)
  BY DEF HonestRunIsProven
<1>1. Single(n) /\ block[n] # Unobservable /\ chain[block[n]] = 0
      /\ \A c \in Calls : Simulates(c) => block[c] = block[n]
  BY DEF OnlyNumber, Single, Simulates
<1>2. /\ o.numbers \in Seq(Blocks) /\ o.preHashes \in Seq(Nat \cup {NoHash})
      /\ o.requestBlocks \in Seq(Requests)
  BY DEF IInv, ObservationTyped
<1>3. Len(o.preHashes) # 0
  BY <1>2, SeqFacts
<1>4. Explained(o, n) /\ o.failures \subseteq FailureCodes
  BY <1>1, <1>3 DEF HonestInv, EvidenceInv
<1>5. /\ Len(o.numbers) = 1 /\ o.numbers[1] = block[n] /\ o.numbers # <<>>
      /\ Len(o.preHashes) = 1
  BY <1>2, <1>4, SeqFacts DEF Explained
<1>6. o.preHashes[1] \in Nat /\ o.postHash \in Nat
  <2>1. o.preHashes[1] \in Range(o.preHashes)
    BY <1>2, <1>5, SeqFacts DEF Range
  <2>2. o.preHashes[1] \in Nat \cup {NoHash}
    BY <1>2, <1>5, SeqFacts
  <2>3. o.postHash \in Nat \cup {NoHash}
    BY <1>4 DEF Explained
  <2> QED BY <2>1, <2>2, <2>3
<1>7. o.preHashes[1] = 0 /\ o.postHash = 0
  BY <1>1, <1>4, <1>6 DEF Explained
<1>8. o.failures = {}
  <2>1. \A f \in FailureCodes : f \notin o.failures
    BY <1>1, <1>4, <1>7 DEF Explained, FailureCodes, NoHash
  <2> QED BY <1>4, <2>1
<1>9. NumberReasons(o) = {}
  BY <1>5 DEF NumberReasons
<1>10. ParameterReasons(o, TRUE) = {}
  <2>1. \A r \in Range(o.requestBlocks) : r.block = o.numbers[1]
    <3>1. \A i \in DOMAIN o.requestBlocks :
            o.requestBlocks[i].block = o.numbers[1]
      BY <1>1, <1>5 DEF HonestInv, EvidenceInv
    <3> QED BY <3>1 DEF Range
  <2>2. {x \in Range(o.requestBlocks) :
           o.numbers = <<>> \/ x.block # o.numbers[1]} = {}
    BY <1>5, <2>1
  <2>3. ~(TRUE /\ \A r \in Range(o.requestBlocks) : r.method # "debug_traceCall")
    OBVIOUS
  <2> QED BY <2>2, <2>3 DEF ParameterReasons
<1>11. HashReasons(o) = {}
  BY <1>5, <1>7 DEF HashReasons
<1> HIDE DEF o
<1> QED BY <1>8, <1>9, <1>10, <1>11 DEF Proven

-----------------------------------------------------------------------------
(* Everything that is recorded, and everything observed, has its type.     *)
THEOREM TypeCorrect == Spec => []TypeOK
BY Invariance, PTL DEF IInv

(* PROVEN evidence is about one block: the one whose number and hash it    *)
(* names is the one behind every answer the simulator had.                 *)
THEOREM ProvenIsOneBlock == Spec => []ProvenMeansOneBlock
BY Invariance, PTL DEF IInv

(* Evidence, once taken, is not changed by anything the simulator left     *)
(* under way.                                                              *)
THEOREM EvidenceStands == Spec => EvidenceIsFinal
<1>1. IInv /\ [Next]_vars => [~Observed]_observation
  <2> SUFFICES ASSUME IInv, [Next]_vars, observation' # observation
               PROVE  ~Observed
    OBVIOUS
  <2>1. ASSUME NEW how \in {"RETURNED", "THREW"}, SimulatorSettles(how)
        PROVE  ~Observed
    BY <2>1 DEF SimulatorSettles, IInv, FinishInv, Observed
  <2>2. CASE PostHashArrives
    BY <2>2 DEF PostHashArrives, Hashing, Observed
  <2> QED
    BY <2>1, <2>2 DEF Next, vars, Advance, Replace, SendNumber, NumberArrives,
       NumberFails, PreHashArrives, SendSimulation, SimulationAnswered,
       SimulationFails
<1> QED
  BY <1>1, Invariance, PTL DEF Spec, EvidenceIsFinal

(* The verification raises no false alarm: when the one block number came  *)
(* with its hash, every request was on that block, a trace among them,     *)
(* nothing was replaced and the last hash was read, the evidence is        *)
(* PROVEN, whatever the simulator sent after it settled.                   *)
THEOREM NoFalseAlarm == Spec => []HonestRunIsProven
BY HonestInvariance, HonestIsProven, PTL

=============================================================================
