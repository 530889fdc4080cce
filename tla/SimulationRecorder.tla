--------------------------- MODULE SimulationRecorder ---------------------------
(***************************************************************************)
(* One port.simulate call: the simulator works through the recording RPC   *)
(* client of createRecordingSimulationRpcSessionV0_1                       *)
(* (packages/moss-adapter/src/simulation.ts), the adapter finishes the     *)
(* session when the simulator settles, and blockVerification of            *)
(* evidence-mapper.ts judges what was recorded.                            *)
(*                                                                         *)
(* The simulator and the node are external.  The simulator may have        *)
(* several requests under way, may settle while some of them are, and may  *)
(* send more afterwards; but it traces at a block number only after the    *)
(* session has answered its eth_blockNumber.  The node gains blocks and    *)
(* replaces them while it answers; a replaced block does not come back.    *)
(***************************************************************************)
EXTENDS Integers, FiniteSets, SequencesExt

CONSTANTS
  Calls,            \* requests the simulator may send; bounds the model
  MaxBlock,         \* block numbers are 1..MaxBlock; bounds the model
  MaxReplacements   \* how often a block may be replaced; bounds the model

ASSUME RecorderAssumption ==
  /\ IsFiniteSet(Calls)
  /\ MaxBlock \in Nat \ {0}
  /\ MaxReplacements \in Nat

VARIABLES
  chain,         \* the version of each block; with its number, the block's hash
  head,          \* the number of the latest block
  method,        \* what each request asks for
  block,         \* the block parameter of each request
  phase,         \* how far each request has come
  numbers,       \* blockNumberResponses
  preHashes,     \* preBlockHashes
  requestBlocks, \* requestBlocks
  failures,      \* failures, without their order
  simulator,     \* whether bindings.simulate has settled, and how
  observation,   \* what finish() resolved to
  used           \* the blocks behind the answers the simulator had when it settled

vars == <<chain, head, method, block, phase, numbers, preHashes,
          requestBlocks, failures, simulator, observation, used>>

calling == <<method, block, phase>>
recorded == <<numbers, preHashes, requestBlocks, failures>>

Blocks == 1..MaxBlock
Unobservable == 0     \* a block parameter that is no quantity, such as "latest"
NoHash == -1          \* null

NotFinished == [status |-> "NONE"]
Hashing == [status |-> "HASHING"]

Init ==
  /\ chain = [b \in Blocks |-> 0]
  /\ head \in Blocks
  /\ method = [c \in Calls |-> "NONE"]
  /\ block = [c \in Calls |-> Unobservable]
  /\ phase = [c \in Calls |-> "UNSENT"]
  /\ numbers = <<>>
  /\ preHashes = <<>>
  /\ requestBlocks = <<>>
  /\ failures = {}
  /\ simulator = "RUNNING"
  /\ observation = NotFinished
  /\ used = {}

-----------------------------------------------------------------------------
(* The node (external).                                                    *)
Advance ==
  /\ head < MaxBlock
  /\ head' = head + 1
  /\ UNCHANGED <<chain, calling, recorded, simulator, observation, used>>

Replace(b) ==
  /\ b <= head
  /\ chain[b] < MaxReplacements
  /\ chain' = [x \in Blocks |-> IF x >= b THEN chain[x] + 1 ELSE chain[x]]
  /\ UNCHANGED <<head, calling, recorded, simulator, observation, used>>

(* What eth_getBlockByNumber brings: observeHash turns errors into null.   *)
HashAnswers(b) == {chain[b], NoHash}

-----------------------------------------------------------------------------
(* The recording client.                                                   *)
SendNumber(c) ==
  /\ phase[c] = "UNSENT"
  /\ method' = [method EXCEPT ![c] = "NUMBER"]
  /\ phase' = [phase EXCEPT ![c] = "SENT"]
  /\ UNCHANGED <<chain, head, block, recorded, simulator, observation, used>>

(* The quantity came: keep it and ask for its hash before answering.       *)
NumberArrives(c) ==
  /\ phase[c] = "SENT" /\ method[c] = "NUMBER"
  /\ numbers' = Append(numbers, head)
  /\ block' = [block EXCEPT ![c] = head]
  /\ phase' = [phase EXCEPT ![c] = "HASHING"]
  /\ UNCHANGED <<chain, head, method, preHashes, requestBlocks, failures,
                 simulator, observation, used>>

(* Slips: a response that is no quantity is kept like one; the evidence    *)
(* shares the session's list of failures.                                  *)
KeepMalformedNumber(c) ==
  /\ phase[c] = "SENT" /\ method[c] = "NUMBER"
  /\ phase' = [phase EXCEPT ![c] = "ANSWERED"]
  /\ numbers' = Append(numbers, Unobservable)
  /\ UNCHANGED <<chain, head, method, block, preHashes, requestBlocks,
                 failures, simulator, observation, used>>

FailInsideEvidence(c) ==
  /\ phase[c] = "SENT" /\ method[c] = "NUMBER"
  /\ phase' = [phase EXCEPT ![c] = "ANSWERED"]
  /\ failures' = failures \cup {"BLOCK_NUMBER_UNOBSERVABLE"}
  /\ observation' = IF observation.status = "OBSERVED"
                    THEN [observation EXCEPT !.failures = failures']
                    ELSE observation
  /\ UNCHANGED <<chain, head, method, block, numbers, preHashes,
                 requestBlocks, simulator, used>>

(* The request fails, or its response is no quantity.                      *)
NumberFails(c) ==
  /\ phase[c] = "SENT" /\ method[c] = "NUMBER"
  /\ phase' = [phase EXCEPT ![c] = "ANSWERED"]
  /\ failures' = failures \cup {"BLOCK_NUMBER_UNOBSERVABLE"}
  /\ UNCHANGED <<chain, head, method, block, numbers, preHashes,
                 requestBlocks, simulator, observation, used>>

PreHashArrives(c) ==
  /\ phase[c] = "HASHING"
  /\ \E h \in HashAnswers(block[c]) :
       /\ preHashes' = Append(preHashes, h)
       /\ failures' = IF h = NoHash
                      THEN failures \cup {"BLOCK_HASH_UNOBSERVABLE"}
                      ELSE failures
  /\ phase' = [phase EXCEPT ![c] = "ANSWERED"]
  /\ UNCHANGED <<chain, head, method, block, numbers, requestBlocks,
                 simulator, observation, used>>

SimulationMethods == {"debug_traceCall", "eth_estimateGas"}

NumberKnown == \E c \in Calls : method[c] = "NUMBER" /\ phase[c] = "ANSWERED"

(* Slip: the block of an estimate is looked for where a trace has none.    *)
BlockOfTraces(m, b) == IF m = "debug_traceCall" THEN b ELSE Unobservable

(* requestBlock: the second parameter of either method.                    *)
RequestBlock(m, b) == b

(* debug_traceCall or eth_estimateGas, recorded before it is sent.         *)
SendSimulation(c, m, b) ==
  /\ phase[c] = "UNSENT"
  /\ b = Unobservable \/ NumberKnown
  /\ method' = [method EXCEPT ![c] = m]
  /\ block' = [block EXCEPT ![c] = b]
  /\ phase' = [phase EXCEPT ![c] = "SENT"]
  /\ requestBlocks' = Append(requestBlocks,
                              [method |-> m, block |-> RequestBlock(m, b)])
  /\ failures' = IF RequestBlock(m, b) = Unobservable
                 THEN failures \cup {"BLOCK_PARAMETER_UNOBSERVABLE"}
                 ELSE failures
  /\ UNCHANGED <<chain, head, numbers, preHashes, simulator, observation, used>>

(* The node traces on the block that has the number now, on the latest one *)
(* when the parameter names none.                                          *)
SimulationAnswered(c) ==
  /\ phase[c] = "SENT" /\ method[c] \in SimulationMethods
  /\ phase' = [phase EXCEPT ![c] = "ANSWERED"]
  /\ used' = IF simulator = "RUNNING"
             THEN LET b == IF block[c] = Unobservable THEN head ELSE block[c]
                  IN  used \cup {[number |-> b, hash |-> chain[b]]}
             ELSE used
  /\ UNCHANGED <<chain, head, method, block, recorded, simulator, observation>>

SimulationFails(c) ==
  /\ phase[c] = "SENT" /\ method[c] \in SimulationMethods
  /\ phase' = [phase EXCEPT ![c] = "ANSWERED"]
  /\ UNCHANGED <<chain, head, method, block, recorded, simulator,
                 observation, used>>

-----------------------------------------------------------------------------
(* finish(): checks at its start, one more hash, then a frozen copy.       *)
NumberFailures ==
  IF numbers = <<>> THEN {"BLOCK_NUMBER_UNOBSERVABLE"}
  ELSE IF Len(numbers) # 1 THEN {"BLOCK_NUMBER_INCONSISTENT"} ELSE {}

ParameterFailures ==
  IF numbers # <<>> /\ \E r \in Range(requestBlocks) : r.block # numbers[1]
  THEN {"BLOCK_PARAMETER_INCONSISTENT"} ELSE {}

HashFailures(post) ==
  (IF numbers # <<>> /\ post = NoHash
   THEN {"BLOCK_HASH_UNOBSERVABLE"} ELSE {})
  \cup (IF preHashes # <<>> /\ NoHash \notin {preHashes[1], post}
           /\ preHashes[1] # post
        THEN {"BLOCK_HASH_CHANGED"} ELSE {})

Snapshot(post, found) ==
  [status |-> "OBSERVED", numbers |-> numbers, preHashes |-> preHashes,
   postHash |-> post, requestBlocks |-> requestBlocks, failures |-> found]

(* Slip: the hash read before the trace serves as the hash after it.       *)
SettleWithoutPostHash(how) ==
  LET found == failures \cup NumberFailures \cup ParameterFailures
      post == IF preHashes = <<>> THEN NoHash ELSE preHashes[1]
  IN /\ simulator = "RUNNING"
     /\ simulator' = how
     /\ failures' = found \cup HashFailures(post)
     /\ observation' = Snapshot(post, found \cup HashFailures(post))
     /\ UNCHANGED <<chain, head, calling, numbers, preHashes, requestBlocks, used>>

(* bindings.simulate settles, whatever is still under way, and `finally'   *)
(* finishes the session.  Without exactly one number there is no hash to   *)
(* await and the copy is taken at once.                                    *)
SimulatorSettles(how) ==
  LET found == failures \cup NumberFailures \cup ParameterFailures
  IN /\ simulator = "RUNNING"
     /\ simulator' = how
     /\ IF Len(numbers) = 1
        THEN failures' = found /\ observation' = Hashing
        ELSE /\ failures' = found \cup HashFailures(NoHash)
             /\ observation' = Snapshot(NoHash, failures')
     /\ UNCHANGED <<chain, head, calling, numbers, preHashes, requestBlocks, used>>

PostHashArrives ==
  /\ observation = Hashing
  /\ \E post \in HashAnswers(numbers[1]) :
       /\ failures' = failures \cup HashFailures(post)
       /\ observation' = Snapshot(post, failures')
  /\ UNCHANGED <<chain, head, calling, numbers, preHashes, requestBlocks,
                 simulator, used>>

Next ==
  \/ Advance
  \/ \E b \in Blocks : Replace(b)
  \/ \E c \in Calls :
       \/ SendNumber(c) \/ NumberArrives(c) \/ NumberFails(c)
       \/ PreHashArrives(c)
       \/ \E m \in SimulationMethods, b \in Blocks \cup {Unobservable} :
            SendSimulation(c, m, b)
       \/ SimulationAnswered(c) \/ SimulationFails(c)
  \/ \E how \in {"RETURNED", "THREW"} : SimulatorSettles(how)
  \/ PostHashArrives

Spec == Init /\ [][Next]_vars

-----------------------------------------------------------------------------
(* blockVerification, for a simulation with or without results.            *)
NumberReasons(o) ==
  (IF o.numbers = <<>> THEN {"BLOCK_NUMBER_UNOBSERVABLE"} ELSE {})
  \cup (IF Len(o.numbers) > 1 THEN {"BLOCK_NUMBER_INCONSISTENT"} ELSE {})

ParameterReasons(o, hasResults) ==
  {IF r.block = Unobservable THEN "BLOCK_PARAMETER_UNOBSERVABLE"
                             ELSE "BLOCK_PARAMETER_INCONSISTENT" :
     r \in {x \in Range(o.requestBlocks) :
              o.numbers = <<>> \/ x.block # o.numbers[1]}}
  \cup (IF hasResults /\ \A r \in Range(o.requestBlocks) :
                           r.method # "debug_traceCall"
        THEN {"BLOCK_PARAMETER_UNOBSERVABLE"} ELSE {})

HashReasons(o) ==
  IF Len(o.preHashes) # 1 \/ o.postHash = NoHash
     \/ NoHash \in Range(o.preHashes)
  THEN {"BLOCK_HASH_UNOBSERVABLE"}
  ELSE IF o.preHashes[1] # o.postHash THEN {"BLOCK_HASH_CHANGED"} ELSE {}

Proven(o, hasResults) ==
  o.failures \cup NumberReasons(o) \cup ParameterReasons(o, hasResults)
    \cup HashReasons(o) = {}

-----------------------------------------------------------------------------
FailureCodes ==
  {"BLOCK_NUMBER_UNOBSERVABLE", "BLOCK_NUMBER_INCONSISTENT",
   "BLOCK_PARAMETER_UNOBSERVABLE", "BLOCK_PARAMETER_INCONSISTENT",
   "BLOCK_HASH_UNOBSERVABLE", "BLOCK_HASH_CHANGED"}

Observed == observation.status = "OBSERVED"

TypeOK ==
  /\ chain \in [Blocks -> Nat]
  /\ head \in Blocks
  /\ method \in [Calls -> {"NONE", "NUMBER"} \cup SimulationMethods]
  /\ block \in [Calls -> Blocks \cup {Unobservable}]
  /\ phase \in [Calls -> {"UNSENT", "SENT", "HASHING", "ANSWERED"}]
  /\ numbers \in Seq(Blocks)
  /\ preHashes \in Seq(Nat \cup {NoHash})
  /\ requestBlocks \in Seq([method : SimulationMethods,
                            block : Blocks \cup {Unobservable}])
  /\ failures \subseteq FailureCodes
  /\ simulator \in {"RUNNING", "RETURNED", "THREW"}
  /\ observation.status \in {"NONE", "HASHING", "OBSERVED"}
  /\ used \subseteq [number : Blocks, hash : Nat]

(* PROVEN means what a reader of the evidence takes it for: every trace    *)
(* and every gas estimate the simulator had in hand when it returned was   *)
(* made on the one block whose number and hash the evidence names, however *)
(* requests overlapped and whatever the node replaced meanwhile.           *)
ProvenMeansOneBlock ==
  Observed /\ simulator = "RETURNED" =>
    \A hasResults \in BOOLEAN :
      Proven(observation, hasResults) =>
        \A u \in used :
          u = [number |-> observation.numbers[1],
               hash |-> observation.preHashes[1]]

(* The verification raises no false alarm: with one block number, answered *)
(* with its hash, every request on that block, a trace among them, nothing *)
(* replaced and the last hash read, the evidence is PROVEN.                *)
OnlyNumber(n) ==
  /\ {c \in Calls : method[c] = "NUMBER"} = {n}
  /\ block[n] # Unobservable
  /\ chain[block[n]] = 0
  /\ \A c \in Calls : method[c] \in SimulationMethods => block[c] = block[n]

HonestRunIsProven ==
  /\ Observed
  /\ NoHash \notin Range(observation.preHashes) \cup {observation.postHash}
  /\ observation.preHashes # <<>>
  /\ \E r \in Range(observation.requestBlocks) : r.method = "debug_traceCall"
  /\ \E n \in Calls : OnlyNumber(n)
  => Proven(observation, TRUE)

(* Evidence is a frozen copy: requests the simulator left behind still     *)
(* reach the session's own lists, and never the evidence.                  *)
EvidenceIsFinal ==
  [][~Observed]_observation

=============================================================================
