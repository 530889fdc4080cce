--------------------------- MODULE StopPolicy_proofs ---------------------------
(***************************************************************************)
(* The stop policy is written twice, in the engine and in the report       *)
(* schema.  For every source report, of any size: the two name the same    *)
(* references for every code, the schema accepts the decision of the       *)
(* engine, and it accepts no other.  So the assembler never fails on a     *)
(* decision, and what a reader is shown is what the engine decided,        *)
(* whoever wrote the report.                                               *)
(***************************************************************************)
EXTENDS StopPolicy, OrderLemmas

(* A report the schema lets pass as MANUAL_REVIEW holds no stop condition. *)
LEMMA AllowedMeansNoReason ==
  ASSUME NEW report \in Source, WellFormed(report), ManualReviewAllowed(report)
  PROVE  CollectReasons(report) = {}
<1> DEFINE simulation == report.simulation
<1>1. AcquisitionReasons(report) = {}
  BY DEF AcquisitionReasons, AvailabilityReasons, When, ManualReviewAllowed,
         Unavailable
<1>2. ComponentReasons(simulation) = {}
  BY DEF ComponentReasons, AvailabilityReasons, When, ManualReviewAllowed,
         Unavailable
<1>3. \A name \in {"receipts", "outcomes"} : \A empty, failed :
        ListReasons(simulation, name, empty, failed) = {}
  BY DEF ListReasons, When, ManualReviewAllowed
<1>4. Indices(simulation.warnings) = {}
  BY DEF Indices, ManualReviewAllowed
<1>5. SimulationReasons(simulation) = {}
  BY <1>2, <1>3, <1>4 DEF SimulationReasons, When, ManualReviewAllowed
<1>6. AlignmentReasons(report.checks) = {}
  BY DEF AlignmentReasons, When, ManualReviewAllowed, CriticalChecks
<1> QED
  BY <1>1, <1>5, <1>6 DEF CollectReasons

(* A condition that gives no reason does not hold, or cites nothing.       *)
LEMMA NoReasonMeansNot ==
  ASSUME NEW condition \in BOOLEAN, NEW code, NEW references,
         When(condition, code, references) = {}
  PROVE  ~condition \/ references = {}
BY Zenon DEF When

(* Evidence without a reason against it is there.                          *)
LEMMA NoReasonMeansAvailable ==
  ASSUME NEW availability \in Availability, NEW code, NEW reference,
         AvailabilityReasons(availability, code, reference) = {}
  PROVE  availability = "AVAILABLE"
<1>1. ASSUME availability \in Unavailable PROVE FALSE
  <2>1. <<code[availability], reference>>
          \in When(availability = availability, code[availability], {reference})
    BY Zenon DEF When
  <2> QED
    BY <1>1, <2>1, Zenon DEF AvailabilityReasons
<1> QED
  BY <1>1 DEF Availability

(* A source report without a stop condition, and with a critical check, is *)
(* one the schema lets pass as MANUAL_REVIEW.                              *)
LEMMA NoReasonMeansAllowed ==
  ASSUME NEW report \in Source, WellFormed(report), Accepted(report),
         CollectReasons(report) = {}
  PROVE  ManualReviewAllowed(report)
<1> DEFINE simulation == report.simulation
<1>1. /\ AcquisitionReasons(report) = {}
      /\ AlignmentReasons(report.checks) = {}
      /\ Available(simulation) => SimulationReasons(simulation) = {}
  BY Zenon DEF CollectReasons
<1>2. simulation \in Simulation
  BY DEF Source
<1>3. report.selection = "SELECTED"
  <2>1. When(report.selection = "NOT_SELECTED", "NO_VALID_SELECTION",
             {<<"selection", "status">>}) = {}
    BY <1>1, Zenon DEF AcquisitionReasons
  <2> QED
    BY <2>1, NoReasonMeansNot DEF Source
<1>4. report.capability = "AVAILABLE"
  <2>1. AvailabilityReasons(report.capability, CapabilityCode,
                            <<"capability", "availability">>) = {}
    BY <1>1, Zenon DEF AcquisitionReasons
  <2> QED
    BY <2>1, NoReasonMeansAvailable DEF Source
<1>5. simulation.availability = "AVAILABLE"
  <2>1. AvailabilityReasons(simulation.availability, SimulationCode,
                            <<"simulation", "availability">>) = {}
    BY <1>1, Zenon DEF AcquisitionReasons
  <2> QED
    BY <1>2, <2>1, NoReasonMeansAvailable DEF Simulation
<1>6. SimulationReasons(simulation) = {}
  BY <1>1, <1>5 DEF Available
<1>7. simulation.executionStatus = "SUCCESS"
  <2>1. /\ When(simulation.executionStatus = "FAILED",
                "SIMULATION_EXECUTION_FAILED",
                {<<"simulation", "executionStatus">>}) = {}
        /\ When(simulation.executionStatus = "INTERRUPTED",
                "SIMULATION_INTERRUPTED",
                {<<"simulation", "executionStatus">>}) = {}
    BY <1>6, Zenon DEF SimulationReasons
  <2> QED
    BY <1>2, <2>1, NoReasonMeansNot DEF Simulation
<1>8. \A name \in Components : simulation[name].availability = "AVAILABLE"
  <2> SUFFICES ASSUME NEW name \in Components
               PROVE  simulation[name].availability = "AVAILABLE"
    OBVIOUS
  <2>1. ComponentReasons(simulation) = {}
    BY <1>6, Zenon DEF SimulationReasons
  <2>2. AvailabilityReasons(simulation[name].availability,
                            RequiredEvidenceCode,
                            <<"simulation", name, "availability">>) = {}
    BY <2>1, Zenon DEF ComponentReasons
  <2>3. simulation[name].availability \in Availability
    BY <1>2 DEF Simulation, Components, Items, Verdict
  <2> QED
    BY <2>2, <2>3, NoReasonMeansAvailable
<1>9. simulation.warnings.size = 0
  <2>1. When(Available(simulation.warnings), "WARNING_PRESENT",
             {<<"simulation", "warnings", "items", i>> :
              i \in Indices(simulation.warnings)}) = {}
    BY <1>6, Zenon DEF SimulationReasons
  <2>2. Available(simulation.warnings)
    BY <1>8 DEF Available, Components
  <2>3. Indices(simulation.warnings) = {}
    BY <2>1, <2>2, Zenon DEF When
  <2>4. simulation.warnings.size \in Nat
    BY <1>2 DEF Simulation, Items
  <2> QED
    BY <2>3, <2>4 DEF Indices
<1>10. ASSUME NEW name \in {"receipts", "outcomes"}, NEW empty, NEW failed,
              ListReasons(simulation, name, empty, failed) = {}
       PROVE  simulation[name].size # 0 /\ simulation[name].failed = {}
  <2>1. Available(simulation[name])
    BY <1>8 DEF Available, Components
  <2>2. /\ When(Available(simulation[name]) /\ simulation[name].size = 0,
                empty, {<<"simulation", name, "items">>}) = {}
        /\ When(Available(simulation[name]), failed,
                {<<"simulation", name, "items", i>> :
                 i \in simulation[name].failed}) = {}
    BY <1>10, Zenon DEF ListReasons
  <2>3. simulation[name].size # 0
    BY <2>1, <2>2, Zenon DEF When
  <2>4. simulation[name].failed = {}
    BY <2>1, <2>2, Zenon DEF When
  <2> QED
    BY <2>3, <2>4
<1>11. \A name \in {"receipts", "outcomes"} :
         simulation[name].size # 0 /\ simulation[name].failed = {}
  <2>1. /\ ListReasons(simulation, "receipts", "RECEIPT_SET_INCOMPLETE",
                       "RECEIPT_FAILED") = {}
        /\ ListReasons(simulation, "outcomes", "OUTCOME_SET_INCOMPLETE",
                       "OUTCOME_FAILED") = {}
    BY <1>6, Zenon DEF SimulationReasons
  <2> QED
    BY <1>10, <2>1
<1>12. /\ simulation.coverage.holds
       /\ simulation.ordering.holds
       /\ simulation.stateContinuity.holds
  <2>1. /\ Available(simulation.coverage)
        /\ Available(simulation.ordering)
        /\ Available(simulation.stateContinuity)
    BY <1>8 DEF Available, Components
  <2>2. /\ When(Available(simulation.coverage) /\ ~simulation.coverage.holds,
                "COVERAGE_INCOMPLETE", {<<"simulation", "coverage">>}) = {}
        /\ When(Available(simulation.ordering) /\ ~simulation.ordering.holds,
                "ORDERING_INVALID", {<<"simulation", "ordering">>}) = {}
        /\ When(Available(simulation.stateContinuity)
                  /\ ~simulation.stateContinuity.holds,
                "STATE_CONTINUITY_INTERRUPTED",
                {<<"simulation", "stateContinuity">>}) = {}
    BY <1>6, Zenon DEF SimulationReasons
  <2> QED
    BY <2>1, <2>2, Zenon DEF When
<1>13. ASSUME NEW c \in CriticalChecks(report) PROVE c.status = "PASS"
  <2>1. c \in report.checks /\ c.critical /\ c \in Check
    BY DEF CriticalChecks, Source
  <2> DEFINE reasons ==
        When(c.critical /\ c.status = "FAIL", "CRITICAL_ALIGNMENT_FAIL",
             c.sourceReferences)
        \cup When(c.critical /\ c.status = "REVIEW",
                  "CRITICAL_ALIGNMENT_REVIEW", c.sourceReferences)
  <2>2. reasons = {}
    <3>1. reasons \subseteq AlignmentReasons(report.checks)
      BY <2>1, Zenon DEF AlignmentReasons
    <3> QED
      BY <1>1, <3>1, Zenon
  <2>3. c.sourceReferences # {} /\ c.status \in {"PASS", "FAIL", "REVIEW"}
    <3>1. /\ c.sourceReferences \in (SUBSET References) \ {{}}
          /\ c.status \in {"PASS", "FAIL", "REVIEW"}
      BY <2>1 DEF Check
    <3> QED
      BY <3>1
  <2>4. c.status # "FAIL" /\ c.status # "REVIEW"
    BY <2>1, <2>2, <2>3, Zenon DEF When
  <2> QED
    BY <2>3, <2>4
<1> QED
  BY <1>3, <1>4, <1>5, <1>7, <1>8, <1>9, <1>11, <1>12, <1>13
  DEF ManualReviewAllowed, Accepted

(* The engine (packages/decision-engine) and validateManualReview          *)
(* (packages/report-schema) give MANUAL_REVIEW to the same source reports. *)
THEOREM TablesAgreeOnReview ==
  ASSUME NEW report \in Source, WellFormed(report), Accepted(report)
  PROVE  EvaluateDecision(report).status = "MANUAL_REVIEW"
           <=> ManualReviewAllowed(report)
<1>1. EvaluateDecision(report).status = "MANUAL_REVIEW"
        <=> CollectReasons(report) = {}
  BY DEF EvaluateDecision, BuildDecision, ManualReview
<1> QED
  BY <1>1, AllowedMeansNoReason, NoReasonMeansAllowed

-----------------------------------------------------------------------------
(* What the engine collects, as pairs of a code and a reference.           *)
LEMMA AvailabilityMember ==
  ASSUME NEW availability, NEW code, NEW reference, NEW r
  PROVE  r \in AvailabilityReasons(availability, code, reference)
           <=> /\ availability \in Unavailable
               /\ r = <<code[availability], reference>>
BY DEF AvailabilityReasons, When

LEMMA ComponentMember ==
  ASSUME NEW simulation, NEW r
  PROVE  r \in ComponentReasons(simulation)
           <=> \E name \in Components :
                 /\ simulation[name].availability \in Unavailable
                 /\ r = <<RequiredEvidenceCode[simulation[name].availability],
                          <<"simulation", name, "availability">>>>
<1>1. \A name :
        r \in AvailabilityReasons(simulation[name].availability,
                                  RequiredEvidenceCode,
                                  <<"simulation", name, "availability">>)
          <=> /\ simulation[name].availability \in Unavailable
              /\ r = <<RequiredEvidenceCode[simulation[name].availability],
                       <<"simulation", name, "availability">>>>
  BY AvailabilityMember
<1> QED BY <1>1, Zenon DEF ComponentReasons

LEMMA ListMember ==
  ASSUME NEW simulation, NEW name, NEW empty, NEW failed, NEW r
  PROVE  r \in ListReasons(simulation, name, empty, failed)
           <=> /\ Available(simulation[name])
               /\ \/ /\ simulation[name].size = 0
                     /\ r = <<empty, <<"simulation", name, "items">>>>
                  \/ \E i \in simulation[name].failed :
                       r = <<failed, <<"simulation", name, "items", i>>>>
<1>1. r \in When(Available(simulation[name]) /\ simulation[name].size = 0,
                 empty, {<<"simulation", name, "items">>})
        <=> /\ Available(simulation[name]) /\ simulation[name].size = 0
            /\ r = <<empty, <<"simulation", name, "items">>>>
  BY Zenon DEF When
<1>2. r \in When(Available(simulation[name]), failed,
                 {<<"simulation", name, "items", i>> :
                  i \in simulation[name].failed})
        <=> /\ Available(simulation[name])
            /\ \E i \in simulation[name].failed :
                 r = <<failed, <<"simulation", name, "items", i>>>>
  BY Zenon DEF When
<1> QED BY <1>1, <1>2, Zenon DEF ListReasons

LEMMA AlignmentMember ==
  ASSUME NEW checks, NEW r
  PROVE  r \in AlignmentReasons(checks)
           <=> \E c \in checks : \E ref \in c.sourceReferences :
                 /\ c.critical
                 /\ \/ /\ c.status = "FAIL"
                       /\ r = <<"CRITICAL_ALIGNMENT_FAIL", ref>>
                    \/ /\ c.status = "REVIEW"
                       /\ r = <<"CRITICAL_ALIGNMENT_REVIEW", ref>>
<1> DEFINE Fail(c) ==
             When(c.critical /\ c.status = "FAIL", "CRITICAL_ALIGNMENT_FAIL",
                  c.sourceReferences)
           Review(c) ==
             When(c.critical /\ c.status = "REVIEW",
                  "CRITICAL_ALIGNMENT_REVIEW", c.sourceReferences)
<1>1. \A c : r \in Fail(c) <=>
        /\ c.critical /\ c.status = "FAIL"
        /\ \E ref \in c.sourceReferences :
             r = <<"CRITICAL_ALIGNMENT_FAIL", ref>>
  BY Zenon DEF When
<1>2. \A c : r \in Review(c) <=>
        /\ c.critical /\ c.status = "REVIEW"
        /\ \E ref \in c.sourceReferences :
             r = <<"CRITICAL_ALIGNMENT_REVIEW", ref>>
  BY Zenon DEF When
<1>3. AlignmentReasons(checks) = UNION {Fail(c) \cup Review(c) : c \in checks}
  BY Zenon DEF AlignmentReasons
<1> HIDE DEF Fail, Review
<1>4. r \in UNION {Fail(c) \cup Review(c) : c \in checks}
        <=> \E c \in checks : r \in Fail(c) \/ r \in Review(c)
  OBVIOUS
<1> QED BY <1>1, <1>2, <1>3, <1>4, Zenon

LEMMA AcquisitionMember ==
  ASSUME NEW report, NEW r
  PROVE  r \in AcquisitionReasons(report)
           <=> \/ /\ report.selection = "NOT_SELECTED"
                  /\ r = <<"NO_VALID_SELECTION", <<"selection", "status">>>>
               \/ /\ report.capability \in Unavailable
                  /\ r = <<CapabilityCode[report.capability],
                           <<"capability", "availability">>>>
               \/ /\ report.simulation.availability \in Unavailable
                  /\ r = <<SimulationCode[report.simulation.availability],
                           <<"simulation", "availability">>>>
<1>1. r \in When(report.selection = "NOT_SELECTED", "NO_VALID_SELECTION",
                 {<<"selection", "status">>})
        <=> /\ report.selection = "NOT_SELECTED"
            /\ r = <<"NO_VALID_SELECTION", <<"selection", "status">>>>
  BY Zenon DEF When
<1>2. r \in AvailabilityReasons(report.capability, CapabilityCode,
                                <<"capability", "availability">>)
        <=> /\ report.capability \in Unavailable
            /\ r = <<CapabilityCode[report.capability],
                     <<"capability", "availability">>>>
  BY AvailabilityMember
<1>3. r \in AvailabilityReasons(report.simulation.availability, SimulationCode,
                                <<"simulation", "availability">>)
        <=> /\ report.simulation.availability \in Unavailable
            /\ r = <<SimulationCode[report.simulation.availability],
                     <<"simulation", "availability">>>>
  BY AvailabilityMember
<1> QED BY <1>1, <1>2, <1>3, Zenon DEF AcquisitionReasons

(* What the simulation itself says, apart from its components and lists.   *)
Ended(simulation, r) ==
  \/ /\ simulation.executionStatus = "FAILED"
     /\ r = <<"SIMULATION_EXECUTION_FAILED",
              <<"simulation", "executionStatus">>>>
  \/ /\ simulation.executionStatus = "INTERRUPTED"
     /\ r = <<"SIMULATION_INTERRUPTED", <<"simulation", "executionStatus">>>>

Warned(simulation, r) ==
  /\ Available(simulation.warnings)
  /\ \E i \in Indices(simulation.warnings) :
       r = <<"WARNING_PRESENT", <<"simulation", "warnings", "items", i>>>>

Flagged(simulation, r) ==
  \/ /\ Available(simulation.coverage) /\ ~simulation.coverage.holds
     /\ r = <<"COVERAGE_INCOMPLETE", <<"simulation", "coverage">>>>
  \/ /\ Available(simulation.ordering) /\ ~simulation.ordering.holds
     /\ r = <<"ORDERING_INVALID", <<"simulation", "ordering">>>>
  \/ /\ Available(simulation.stateContinuity)
     /\ ~simulation.stateContinuity.holds
     /\ r = <<"STATE_CONTINUITY_INTERRUPTED",
              <<"simulation", "stateContinuity">>>>

LEMMA SimulationMember ==
  ASSUME NEW simulation, NEW r
  PROVE  r \in SimulationReasons(simulation)
           <=> \/ Ended(simulation, r)
               \/ r \in ComponentReasons(simulation)
               \/ Warned(simulation, r)
               \/ r \in ListReasons(simulation, "receipts",
                                    "RECEIPT_SET_INCOMPLETE", "RECEIPT_FAILED")
               \/ r \in ListReasons(simulation, "outcomes",
                                    "OUTCOME_SET_INCOMPLETE", "OUTCOME_FAILED")
               \/ Flagged(simulation, r)
<1>1. Ended(simulation, r)
        <=> \/ r \in When(simulation.executionStatus = "FAILED",
                          "SIMULATION_EXECUTION_FAILED",
                          {<<"simulation", "executionStatus">>})
            \/ r \in When(simulation.executionStatus = "INTERRUPTED",
                          "SIMULATION_INTERRUPTED",
                          {<<"simulation", "executionStatus">>})
  BY Zenon DEF Ended, When
<1>2. r \in When(Available(simulation.warnings), "WARNING_PRESENT",
                 {<<"simulation", "warnings", "items", i>>
                  : i \in Indices(simulation.warnings)})
        <=> Warned(simulation, r)
  BY Zenon DEF Warned, When
<1>3. Flagged(simulation, r)
        <=> \/ r \in When(Available(simulation.coverage)
                            /\ ~simulation.coverage.holds,
                          "COVERAGE_INCOMPLETE", {<<"simulation", "coverage">>})
            \/ r \in When(Available(simulation.ordering)
                            /\ ~simulation.ordering.holds,
                          "ORDERING_INVALID", {<<"simulation", "ordering">>})
            \/ r \in When(Available(simulation.stateContinuity)
                            /\ ~simulation.stateContinuity.holds,
                          "STATE_CONTINUITY_INTERRUPTED",
                          {<<"simulation", "stateContinuity">>})
  BY Zenon DEF Flagged, When
<1> QED BY <1>1, <1>2, <1>3, Zenon DEF SimulationReasons

LEMMA ReasonMember ==
  ASSUME NEW report, NEW r
  PROVE  r \in CollectReasons(report)
           <=> \/ r \in AcquisitionReasons(report)
               \/ /\ Available(report.simulation)
                  /\ r \in SimulationReasons(report.simulation)
               \/ r \in AlignmentReasons(report.checks)
BY Zenon DEF CollectReasons

(* A reason with code c and reference x, as the engine collects it.        *)
LEMMA Collected ==
  ASSUME NEW report, NEW c, NEW x
  PROVE  <<c, x>> \in CollectReasons(report)
           <=> \/ /\ report.selection = "NOT_SELECTED"
                  /\ c = "NO_VALID_SELECTION" /\ x = <<"selection", "status">>
               \/ /\ report.capability \in Unavailable
                  /\ c = CapabilityCode[report.capability]
                  /\ x = <<"capability", "availability">>
               \/ /\ report.simulation.availability \in Unavailable
                  /\ c = SimulationCode[report.simulation.availability]
                  /\ x = <<"simulation", "availability">>
               \/ /\ Available(report.simulation)
                  /\ \/ Ended(report.simulation, <<c, x>>)
                     \/ Warned(report.simulation, <<c, x>>)
                     \/ Flagged(report.simulation, <<c, x>>)
                     \/ \E name \in Components :
                          LET a == report.simulation[name].availability
                          IN  /\ a \in Unavailable
                              /\ c = RequiredEvidenceCode[a]
                              /\ x = <<"simulation", name, "availability">>
                     \/ <<c, x>> \in ListReasons(report.simulation, "receipts",
                          "RECEIPT_SET_INCOMPLETE", "RECEIPT_FAILED")
                     \/ <<c, x>> \in ListReasons(report.simulation, "outcomes",
                          "OUTCOME_SET_INCOMPLETE", "OUTCOME_FAILED")
               \/ \E k \in CriticalChecks(report) :
                    /\ x \in k.sourceReferences
                    /\ \/ k.status = "FAIL" /\ c = "CRITICAL_ALIGNMENT_FAIL"
                       \/ k.status = "REVIEW" /\ c = "CRITICAL_ALIGNMENT_REVIEW"
<1>1. \A k, y : <<c, x>> = <<k, y>> <=> c = k /\ x = y
  OBVIOUS
<1>2. <<c, x>> \in AcquisitionReasons(report)
        <=> \/ /\ report.selection = "NOT_SELECTED"
               /\ <<c, x>> = <<"NO_VALID_SELECTION", <<"selection", "status">>>>
            \/ /\ report.capability \in Unavailable
               /\ <<c, x>> = <<CapabilityCode[report.capability],
                               <<"capability", "availability">>>>
            \/ /\ report.simulation.availability \in Unavailable
               /\ <<c, x>> = <<SimulationCode[report.simulation.availability],
                               <<"simulation", "availability">>>>
  BY AcquisitionMember, Zenon
<1>3. <<c, x>> \in ComponentReasons(report.simulation)
        <=> \E name \in Components :
              /\ report.simulation[name].availability \in Unavailable
              /\ <<c, x>>
                   = <<RequiredEvidenceCode
                         [report.simulation[name].availability],
                       <<"simulation", name, "availability">>>>
  BY ComponentMember, Zenon
<1>4. <<c, x>> \in AlignmentReasons(report.checks)
        <=> \E k \in CriticalChecks(report) :
              /\ x \in k.sourceReferences
              /\ \/ k.status = "FAIL" /\ c = "CRITICAL_ALIGNMENT_FAIL"
                 \/ k.status = "REVIEW" /\ c = "CRITICAL_ALIGNMENT_REVIEW"
  <2>1. <<c, x>> \in AlignmentReasons(report.checks)
          <=> \E k \in report.checks : \E ref \in k.sourceReferences :
                /\ k.critical
                /\ \/ /\ k.status = "FAIL"
                      /\ <<c, x>> = <<"CRITICAL_ALIGNMENT_FAIL", ref>>
                   \/ /\ k.status = "REVIEW"
                      /\ <<c, x>> = <<"CRITICAL_ALIGNMENT_REVIEW", ref>>
    BY AlignmentMember, ZenonT(30)
  <2> QED BY <1>1, <2>1, Zenon DEF CriticalChecks
<1> QED
  BY <1>1, <1>2, <1>3, <1>4, ReasonMember, SimulationMember, Zenon

(* Unavailable evidence has a code of its kind.                            *)
LEMMA UnavailableCodes ==
  ASSUME NEW a \in Unavailable
  PROVE  /\ a \in {"FAILED", "MISSING", "UNPROVABLE"}
         /\ CapabilityCode[a] =
              IF a = "FAILED" THEN "CAPABILITY_FAILED"
              ELSE IF a = "MISSING" THEN "CAPABILITY_MISSING"
              ELSE "CAPABILITY_UNPROVABLE"
         /\ SimulationCode[a] =
              IF a = "FAILED" THEN "SIMULATION_ACQUISITION_FAILED"
              ELSE IF a = "MISSING" THEN "SIMULATION_MISSING"
              ELSE "SIMULATION_UNPROVABLE"
         /\ RequiredEvidenceCode[a] =
              IF a = "FAILED" THEN "REQUIRED_EVIDENCE_FAILED"
              ELSE IF a = "MISSING" THEN "REQUIRED_EVIDENCE_MISSING"
              ELSE "REQUIRED_EVIDENCE_UNPROVABLE"
BY DEF Unavailable, CapabilityCode, SimulationCode, RequiredEvidenceCode

AcquisitionCodes ==
  {"CAPABILITY_FAILED", "CAPABILITY_MISSING", "CAPABILITY_UNPROVABLE",
   "SIMULATION_ACQUISITION_FAILED", "SIMULATION_MISSING",
   "SIMULATION_UNPROVABLE"}

RequiredCodes ==
  {"REQUIRED_EVIDENCE_FAILED", "REQUIRED_EVIDENCE_MISSING",
   "REQUIRED_EVIDENCE_UNPROVABLE"}

ListCodes == {"RECEIPT_FAILED", "RECEIPT_SET_INCOMPLETE", "OUTCOME_FAILED",
              "OUTCOME_SET_INCOMPLETE"}

AlignmentCodes == {"CRITICAL_ALIGNMENT_FAIL", "CRITICAL_ALIGNMENT_REVIEW"}

OwnCodes ==
  {"SIMULATION_EXECUTION_FAILED", "SIMULATION_INTERRUPTED",
   "WARNING_PRESENT", "COVERAGE_INCOMPLETE", "ORDERING_INVALID",
   "STATE_CONTINUITY_INTERRUPTED"}

LEMMA AllCodes ==
  Codes = {"NO_VALID_SELECTION"} \cup AcquisitionCodes \cup RequiredCodes
          \cup ListCodes \cup AlignmentCodes \cup OwnCodes
BY DEF Codes, STOP_REASON_RANK, AcquisitionCodes, RequiredCodes, ListCodes,
       AlignmentCodes, OwnCodes

(* The two tables name the same references for every code.                 *)
LEMMA TablesAgree ==
  ASSUME NEW report \in Source, NEW c \in Codes, NEW x
  PROVE  x \in StopExpectation(report, c) <=> <<c, x>> \in CollectReasons(report)
<1> DEFINE simulation == report.simulation
           held == <<c, x>> \in CollectReasons(report)
           due == x \in StopExpectation(report, c)
<1>1. CASE c = "NO_VALID_SELECTION"
  <2>1. held <=> /\ report.selection = "NOT_SELECTED"
                 /\ x = <<"selection", "status">>
    BY <1>1, Collected, UnavailableCodes, ListMember
    DEF Ended, Warned, Flagged
  <2> QED BY <1>1, <2>1 DEF StopExpectation
<1>2. CASE c \in AcquisitionCodes
  <2>1. held <=>
          \/ /\ report.capability \in Unavailable
             /\ c = CapabilityCode[report.capability]
             /\ x = <<"capability", "availability">>
          \/ /\ report.simulation.availability \in Unavailable
             /\ c = SimulationCode[report.simulation.availability]
             /\ x = <<"simulation", "availability">>
    BY <1>2, Collected, UnavailableCodes, ListMember
    DEF Ended, Warned, Flagged, AcquisitionCodes
  <2> QED BY <1>2, <2>1, UnavailableCodes
      DEF StopExpectation, AvailabilityExpectation, AcquisitionCodes, Unavailable
<1>3. CASE c \in RequiredCodes
  <2>1. held <=>
          /\ Available(report.simulation)
          /\ \E name \in Components :
               LET a == report.simulation[name].availability
               IN  /\ a \in Unavailable
                   /\ c = RequiredEvidenceCode[a]
                   /\ x = <<"simulation", name, "availability">>
    BY <1>3, Collected, UnavailableCodes, ListMember
    DEF Ended, Warned, Flagged, RequiredCodes
  <2> QED BY <1>3, <2>1, UnavailableCodes
      DEF StopExpectation, AvailabilityExpectation, RequiredCodes, Unavailable,
          Available
<1>4. CASE c \in ListCodes
  <2>1. held <=>
          /\ Available(report.simulation)
          /\ \/ <<c, x>> \in ListReasons(report.simulation, "receipts",
                  "RECEIPT_SET_INCOMPLETE", "RECEIPT_FAILED")
             \/ <<c, x>> \in ListReasons(report.simulation, "outcomes",
                  "OUTCOME_SET_INCOMPLETE", "OUTCOME_FAILED")
    BY <1>4, Collected, UnavailableCodes
    DEF Ended, Warned, Flagged, ListCodes
  <2>2. StopExpectation(report, c)
          = IF Available(report.simulation)
            THEN SimulationExpectation(report.simulation, c) ELSE {}
    BY <1>4 DEF StopExpectation, ListCodes, Available
  <2>3. \A k, y : <<c, x>> = <<k, y>> <=> c = k /\ x = y
    OBVIOUS
  <2>4. \A name :
          x \in ListExpectation(report.simulation, name, c)
            <=> /\ Available(report.simulation[name])
                /\ IF c \in {"RECEIPT_SET_INCOMPLETE", "OUTCOME_SET_INCOMPLETE"}
                   THEN /\ report.simulation[name].size = 0
                        /\ x = <<"simulation", name, "items">>
                   ELSE \E i \in report.simulation[name].failed :
                          x = <<"simulation", name, "items", i>>
    <3> TAKE name
    <3>1. ListExpectation(report.simulation, name, c)
            = IF ~Available(report.simulation[name]) THEN {}
              ELSE IF c \in {"RECEIPT_SET_INCOMPLETE", "OUTCOME_SET_INCOMPLETE"}
              THEN IF report.simulation[name].size = 0
                   THEN {<<"simulation", name, "items">>} ELSE {}
              ELSE {<<"simulation", name, "items", i>> :
                    i \in report.simulation[name].failed}
      BY <1>4 DEF ListExpectation, ListCodes, Available
    <3> QED BY <3>1
  <2>5. CASE c \in {"RECEIPT_FAILED", "RECEIPT_SET_INCOMPLETE"}
    <3>1. SimulationExpectation(report.simulation, c)
            = ListExpectation(report.simulation, "receipts", c)
      BY <2>5 DEF SimulationExpectation
    <3> QED BY <2>1, <2>2, <2>3, <2>4, <2>5, <3>1, ListMember
  <2>6. CASE c \in {"OUTCOME_FAILED", "OUTCOME_SET_INCOMPLETE"}
    <3>1. SimulationExpectation(report.simulation, c)
            = ListExpectation(report.simulation, "outcomes", c)
      BY <2>6 DEF SimulationExpectation
    <3> QED BY <2>1, <2>2, <2>3, <2>4, <2>6, <3>1, ListMember
  <2> QED BY <1>4, <2>5, <2>6 DEF ListCodes
<1>5. CASE c \in AlignmentCodes
  <2>1. held <=>
          \E k \in CriticalChecks(report) :
                    /\ x \in k.sourceReferences
                    /\ \/ k.status = "FAIL" /\ c = "CRITICAL_ALIGNMENT_FAIL"
                       \/ k.status = "REVIEW" /\ c = "CRITICAL_ALIGNMENT_REVIEW"
    BY <1>5, Collected, UnavailableCodes, ListMember
    DEF Ended, Warned, Flagged, AlignmentCodes
  <2> QED BY <1>5, <2>1 DEF StopExpectation, AlignmentCodes
<1>6. CASE c \in OwnCodes
  <2>1. held <=>
          /\ Available(report.simulation)
          /\ \/ Ended(report.simulation, <<c, x>>)
             \/ Warned(report.simulation, <<c, x>>)
             \/ Flagged(report.simulation, <<c, x>>)
    BY <1>6, Collected, UnavailableCodes, ListMember DEF OwnCodes
  <2>2. StopExpectation(report, c)
          = IF Available(report.simulation)
            THEN SimulationExpectation(report.simulation, c) ELSE {}
    BY <1>6 DEF StopExpectation, OwnCodes, Available
  <2>3. \A k, y : <<c, x>> = <<k, y>> <=> c = k /\ x = y
    OBVIOUS
  <2>4. CASE c \in {"SIMULATION_EXECUTION_FAILED", "SIMULATION_INTERRUPTED"}
    BY <2>1, <2>2, <2>4
    DEF SimulationExpectation, Ended, Warned, Flagged
  <2>5. CASE c = "WARNING_PRESENT"
    <3>1. SimulationExpectation(report.simulation, c)
            = ListExpectation(report.simulation, "warnings", c)
      BY <2>5 DEF SimulationExpectation
    <3>2. ListExpectation(report.simulation, "warnings", c)
            = IF ~Available(report.simulation.warnings) THEN {}
              ELSE {<<"simulation", "warnings", "items", i>> :
                    i \in Indices(report.simulation.warnings)}
      BY <2>5 DEF ListExpectation, Available
    <3>3. x \in ListExpectation(report.simulation, "warnings", c)
            <=> Warned(report.simulation, <<c, x>>)
      BY <2>3, <2>5, <3>2 DEF Warned
    <3> QED BY <2>1, <2>2, <2>5, <3>1, <3>3 DEF Ended, Flagged
  <2>6. CASE c \in {"COVERAGE_INCOMPLETE", "ORDERING_INVALID",
                    "STATE_CONTINUITY_INTERRUPTED"}
    <3>1. /\ report.simulation["coverage"] = report.simulation.coverage
          /\ report.simulation["ordering"] = report.simulation.ordering
          /\ report.simulation["stateContinuity"]
               = report.simulation.stateContinuity
      OBVIOUS
    <3>2. x \in SimulationExpectation(report.simulation, c)
            <=> Flagged(report.simulation, <<c, x>>)
      BY <2>6, <3>1
      DEF SimulationExpectation, FlagExpectation, Available, Flagged
    <3> QED BY <2>1, <2>2, <2>6, <3>2 DEF Ended, Warned
  <2> QED BY <1>6, <2>4, <2>5, <2>6 DEF OwnCodes
<1> QED BY <1>1, <1>2, <1>3, <1>4, <1>5, <1>6, AllCodes

(* What is collected is a code with a reference.                           *)
LEMMA CollectedPairs ==
  ASSUME NEW report, NEW r \in CollectReasons(report)
  PROVE  r = <<r[1], r[2]>> /\ r[1] \in Codes
<1> DEFINE Good(p) == p = <<p[1], p[2]>> /\ p[1] \in Codes
<1>0. \A p, k, y : k \in Codes /\ p = <<k, y>> => Good(p)
  OBVIOUS
<1> SUFFICES Good(r)
  OBVIOUS
<1> HIDE DEF Good
<1>1. /\ {"NO_VALID_SELECTION", "CRITICAL_ALIGNMENT_FAIL",
          "CRITICAL_ALIGNMENT_REVIEW"} \subseteq Codes
      /\ \A a \in Unavailable : /\ CapabilityCode[a] \in Codes
                                 /\ SimulationCode[a] \in Codes
                                 /\ RequiredEvidenceCode[a] \in Codes
  BY UnavailableCodes DEF Codes, STOP_REASON_RANK
<1>2. ListCodes \subseteq Codes /\ OwnCodes \subseteq Codes
  BY AllCodes
<1>3. CASE r \in AcquisitionReasons(report)
  BY <1>0, <1>1, <1>3, AcquisitionMember
<1>4. CASE r \in AlignmentReasons(report.checks)
  BY <1>0, <1>1, <1>4, AlignmentMember
<1>5. CASE r \in SimulationReasons(report.simulation)
  <2> DEFINE simulation == report.simulation
  <2>1. CASE Ended(simulation, r) \/ Warned(simulation, r)
             \/ Flagged(simulation, r)
    BY <1>0, <1>2, <2>1 DEF Ended, Warned, Flagged, OwnCodes
  <2>2. CASE r \in ComponentReasons(simulation)
    BY <1>0, <1>1, <2>2, ComponentMember
  <2>3. CASE \/ r \in ListReasons(simulation, "receipts",
                                  "RECEIPT_SET_INCOMPLETE", "RECEIPT_FAILED")
             \/ r \in ListReasons(simulation, "outcomes",
                                  "OUTCOME_SET_INCOMPLETE", "OUTCOME_FAILED")
    BY <1>0, <1>2, <2>3, ListMember DEF ListCodes
  <2> QED BY <1>5, <2>1, <2>2, <2>3, SimulationMember, Zenon
<1> QED BY <1>3, <1>4, <1>5, ReasonMember, Zenon

-----------------------------------------------------------------------------
(* The order of the engine and the ranks of the schema.                    *)
Rank(c) == STOP_REASON_RANK[c]

LEMMA RankFacts ==
  /\ Len(RankOrder) = 22 /\ DOMAIN RankOrder = 1..22
  /\ \A i \in 1..22 : RankOrder[i] \in Codes
  /\ \A c \in Codes : Rank(c) \in Nat
  /\ \A c \in Codes : \E i \in 1..22 : RankOrder[i] = c
<1>1. Len(RankOrder) = 22 /\ DOMAIN RankOrder = 1..22
  BY DEF RankOrder
<1>2. \A i \in 1..22 : RankOrder[i] \in Codes
  BY DEF RankOrder, Codes, STOP_REASON_RANK
<1>3. \A c \in Codes : Rank(c) \in Nat
  BY DEF Rank, Codes, STOP_REASON_RANK
<1>4. \A c \in Codes : \E i \in 1..22 : RankOrder[i] = c
  BY DEF RankOrder, Codes, STOP_REASON_RANK
<1> QED BY <1>1, <1>2, <1>3, <1>4

LEMMA RanksRise ==
  ASSUME NEW i \in 1..22, NEW j \in 1..22, i < j
  PROVE  Rank(RankOrder[i]) < Rank(RankOrder[j])
<1> DEFINE f == [k \in 1..22 |-> Rank(RankOrder[k])]
<1>1. \A k \in 1..21 : f[k] < f[k + 1]
  BY DEF Rank, RankOrder, STOP_REASON_RANK
<1>2. \A k \in 1..22 : f[k] \in Nat
  BY RankFacts
<1>3. \A k \in 1..22 : f[k] = Rank(RankOrder[k])
  OBVIOUS
<1> HIDE DEF f
<1>4. f[i] < f[j]
  BY <1>1, <1>2, RisingSteps
<1> QED BY <1>3, <1>4

(* What a decision about a report cites: what the engine cites, and the    *)
(* two references another producer may add.                                *)
Pointers(report) ==
  {r[2] : r \in CollectReasons(report)}
  \cup {<<"selection", "status">>, <<"simulation", "coverage">>}

Reason(report) == [code : Codes, sourceReferences : SUBSET Pointers(report)]

Decisions(report) ==
  {ManualReview}
  \cup {[status |-> "STOP", reasons |-> rs] : rs \in Seq(Reason(report))}

(* The codes and the places of a decision of the engine.                   *)
Triggered(report) == {r[1] : r \in CollectReasons(report)}

Places(report) == {i \in 1..22 : RankOrder[i] \in Triggered(report)}

CitedBy(report, c) == {r[2] : r \in {p \in CollectReasons(report) : p[1] = c}}

Canonical(report) ==
  [n \in 1..Cardinality(Places(report)) |->
     [code |-> RankOrder[Nth(Places(report), n)],
      sourceReferences |-> CitedBy(report, RankOrder[Nth(Places(report), n)])]]

LEMMA EngineIsCanonical ==
  ASSUME NEW report, CollectReasons(report) # {}
  PROVE  EvaluateDecision(report)
           = [status |-> "STOP", reasons |-> Canonical(report)]
<1> DEFINE order == ItemsAt(RankOrder,
                            {i \in DOMAIN RankOrder :
                               RankOrder[i] \in {r[1] : r \in CollectReasons(report)}})
<1>1. order = [n \in 1..Cardinality(Places(report)) |->
                 RankOrder[Nth(Places(report), n)]]
  BY RankFacts, Zenon DEF ItemsAt, Places, Triggered
<1>2. EvaluateDecision(report) =
        [status |-> "STOP",
         reasons |-> [i \in DOMAIN order |->
                        [code |-> order[i],
                         sourceReferences |-> CitedBy(report, order[i])]]]
  BY Zenon DEF EvaluateDecision, BuildDecision, CitedBy
<1> HIDE DEF order
<1>3. DOMAIN order = 1..Cardinality(Places(report))
  BY <1>1
<1>4. [i \in DOMAIN order |-> [code |-> order[i],
                               sourceReferences |-> CitedBy(report, order[i])]]
        = Canonical(report)
  BY <1>1, <1>3 DEF Canonical
<1> QED BY <1>2, <1>4, Zenon

(* What the engine cites for a code is what the schema expects.            *)
LEMMA CitedIsExpected ==
  ASSUME NEW report \in Source, NEW c \in Codes
  PROVE  CitedBy(report, c) = StopExpectation(report, c)
<1>1. \A x : x \in CitedBy(report, c) <=> <<c, x>> \in CollectReasons(report)
  <2> TAKE x
  <2>1. \A r \in CollectReasons(report) : r[1] = c /\ r[2] = x => r = <<c, x>>
    BY CollectedPairs
  <2>2. <<c, x>>[1] = c /\ <<c, x>>[2] = x
    OBVIOUS
  <2> QED BY <2>1, <2>2, Zenon DEF CitedBy
<1>2. \A x : x \in CitedBy(report, c) <=> x \in StopExpectation(report, c)
  BY <1>1, TablesAgree
<1> QED BY <1>2

LEMMA PlacesFacts ==
  ASSUME NEW report
  PROVE  /\ Places(report) \in SUBSET (1..22)
         /\ Cardinality(Places(report)) \in Nat
         /\ CollectReasons(report) # {} => Cardinality(Places(report)) >= 1
<1>1. Places(report) \in SUBSET (1..22) /\ 22 \in Nat
  BY DEF Places
<1>2. Cardinality(Places(report)) \in Nat
  BY <1>1, PlacesFinite, Zenon
<1>3. ASSUME NEW r \in CollectReasons(report)
      PROVE  Cardinality(Places(report)) >= 1
  <2>1. r[1] \in Codes /\ r[1] \in Triggered(report)
    BY CollectedPairs, Zenon DEF Triggered
  <2>2. PICK i \in 1..22 : RankOrder[i] = r[1]
    BY <2>1, RankFacts
  <2>3. i \in Places(report)
    BY <2>1, <2>2, Zenon DEF Places
  <2>4. PICK k \in 1..Cardinality(Places(report)) : Nth(Places(report), k) = i
    BY <1>1, <2>3, NthFacts, Zenon
  <2> QED BY <1>2, <2>4
<1> QED BY <1>1, <1>2, <1>3

LEMMA CanonicalFacts ==
  ASSUME NEW report \in Source
  PROVE  /\ Canonical(report) \in Seq(Reason(report))
         /\ Len(Canonical(report)) = Cardinality(Places(report))
         /\ \A n \in 1..Len(Canonical(report)) :
              /\ Canonical(report)[n].code \in Triggered(report)
              /\ Canonical(report)[n].sourceReferences
                   = StopExpectation(report, Canonical(report)[n].code)
         /\ \A n, m \in 1..Len(Canonical(report)) : n < m =>
              Rank(Canonical(report)[n].code) < Rank(Canonical(report)[m].code)
         /\ \A c \in Triggered(report) :
              \E n \in 1..Len(Canonical(report)) : Canonical(report)[n].code = c
<1> DEFINE N == Cardinality(Places(report))
           place(n) == Nth(Places(report), n)
           s == Canonical(report)
<1>1. N \in Nat /\ Places(report) \in SUBSET (1..22) /\ 22 \in Nat
  BY PlacesFacts, Zenon
<1>2. /\ \A n \in 1..N : place(n) \in Places(report)
      /\ \A n, m \in 1..N : n < m => place(n) < place(m)
      /\ \A i \in Places(report) : \E n \in 1..N : place(n) = i
  BY <1>1, NthFacts, Zenon
<1>3. \A n \in 1..N : /\ place(n) \in 1..22
                      /\ RankOrder[place(n)] \in Triggered(report)
                      /\ RankOrder[place(n)] \in Codes
  BY <1>2, RankFacts, Zenon DEF Places
<1>4. \A n \in 1..N :
        s[n] = [code |-> RankOrder[place(n)],
                sourceReferences |-> CitedBy(report, RankOrder[place(n)])]
  BY Zenon DEF Canonical
<1>5. \A c : CitedBy(report, c) \in SUBSET Pointers(report)
  BY Zenon DEF CitedBy, Pointers
<1>6. s = [n \in 1..N |-> s[n]]
  BY Zenon DEF Canonical
<1> HIDE DEF place, s
<1>7. \A n \in 1..N : s[n] \in Reason(report)
  <2> TAKE n \in 1..N
  <2> DEFINE c == RankOrder[place(n)]
  <2>1. /\ c \in Codes /\ CitedBy(report, c) \in SUBSET Pointers(report)
        /\ s[n] = [code |-> c, sourceReferences |-> CitedBy(report, c)]
    BY <1>3, <1>4, <1>5, Zenon
  <2> HIDE DEF c
  <2> QED BY <2>1 DEF Reason
<1> HIDE DEF N
<1>8. s \in Seq(Reason(report)) /\ Len(s) = N
  BY <1>1, <1>6, <1>7
<1>9. \A n \in 1..N : /\ s[n].code = RankOrder[place(n)]
                      /\ s[n].sourceReferences
                           = StopExpectation(report, RankOrder[place(n)])
  <2> TAKE n \in 1..N
  <2> DEFINE c == RankOrder[place(n)]
  <2>1. /\ c \in Codes /\ CitedBy(report, c) = StopExpectation(report, c)
        /\ s[n] = [code |-> c, sourceReferences |-> CitedBy(report, c)]
    BY <1>3, <1>4, CitedIsExpected, Zenon
  <2> HIDE DEF c
  <2>2. s[n].code = c /\ s[n].sourceReferences = StopExpectation(report, c)
    BY <2>1
  <2> QED BY <2>2 DEF c
<1>10. \A n, m \in 1..N : n < m => Rank(s[n].code) < Rank(s[m].code)
  BY <1>2, <1>3, <1>9, RanksRise
<1>11. ASSUME NEW c \in Triggered(report)
       PROVE  \E n \in 1..N : s[n].code = c
  <2>1. c \in Codes
    BY CollectedPairs, Zenon DEF Triggered
  <2>2. PICK i \in 1..22 : RankOrder[i] = c
    BY <2>1, RankFacts, Zenon
  <2>3. i \in Places(report)
    BY <2>2, Zenon DEF Places
  <2> QED BY <1>2, <1>9, <2>2, <2>3, Zenon
<1>12. \A n \in 1..N : s[n].code \in Triggered(report)
  BY <1>3, <1>9
<1> QED
  BY <1>8, <1>9, <1>10, <1>11, <1>12, Zenon DEF s, N

(* The schema finds nothing wrong with the reasons of the engine.          *)
LEMMA CanonicalIsValid ==
  ASSUME NEW report \in Source, CollectReasons(report) # {}
  PROVE  StopReasonsValid(report, Canonical(report))
<1> DEFINE s == Canonical(report)
<1>1. /\ Len(s) \in Nat /\ Len(s) >= 1
      /\ \A n \in 1..Len(s) :
           /\ s[n].code \in Triggered(report)
           /\ s[n].sourceReferences = StopExpectation(report, s[n].code)
      /\ \A n, m \in 1..Len(s) : n < m => Rank(s[n].code) < Rank(s[m].code)
      /\ \A c \in Triggered(report) : \E n \in 1..Len(s) : s[n].code = c
  BY CanonicalFacts, PlacesFacts
<1> HIDE DEF s
<1>2. \A c \in Codes : StopExpectation(report, c) # {} <=> c \in Triggered(report)
  <2> TAKE c \in Codes
  <2>1. StopExpectation(report, c) # {}
          <=> \E x : <<c, x>> \in CollectReasons(report)
    BY TablesAgree
  <2>2. \A x : <<c, x>>[1] = c
    OBVIOUS
  <2>3. (\E x : <<c, x>> \in CollectReasons(report)) => c \in Triggered(report)
    BY <2>2, Zenon DEF Triggered
  <2>4. ASSUME c \in Triggered(report)
        PROVE  \E x : <<c, x>> \in CollectReasons(report)
    <3>1. PICK r \in CollectReasons(report) : r[1] = c
      BY <2>4, Zenon DEF Triggered
    <3>2. r = <<c, r[2]>>
      BY <3>1, CollectedPairs
    <3> QED BY <3>2
  <2> QED BY <2>1, <2>3, <2>4
<1>3. \A c \in Triggered(report) : c \in Codes
  BY CollectedPairs, Zenon DEF Triggered
<1>4. s # <<>>
  BY <1>1
<1>5. \A i \in 1..(Len(s) - 1) : Rank(s[i].code) < Rank(s[i + 1].code)
  BY <1>1
<1>6. \A i \in 1..Len(s) :
        /\ s[i].sourceReferences # {}
        /\ s[i].sourceReferences = StopExpectation(report, s[i].code)
  BY <1>1, <1>2, <1>3
<1>7. \A c \in Codes : StopExpectation(report, c) # {} =>
        \E i \in 1..Len(s) : s[i].code = c
  BY <1>1, <1>2
<1> QED
  BY <1>4, <1>5, <1>6, <1>7, Zenon DEF StopReasonsValid, Rank, s

-----------------------------------------------------------------------------
(* At most one list of reasons is valid.                                   *)
Rising(s) ==
  \A n, m \in 1..Len(s) : n < m => Rank(s[n].code) < Rank(s[m].code)

(* A valid list rises in rank, cites what is expected, and omits nothing.  *)
LEMMA ValidFacts ==
  ASSUME NEW report, NEW s \in Seq(Reason(report)), StopReasonsValid(report, s)
  PROVE  /\ Len(s) \in Nat /\ Len(s) >= 1
         /\ \A n \in 1..Len(s) :
              /\ s[n] = [code |-> s[n].code,
                         sourceReferences |-> StopExpectation(report, s[n].code)]
              /\ s[n].code \in Codes
              /\ StopExpectation(report, s[n].code) # {}
         /\ Rising(s)
         /\ \A c \in Codes : StopExpectation(report, c) # {} =>
              \E n \in 1..Len(s) : s[n].code = c
<1>1. /\ s # <<>>
      /\ \A i \in 1..(Len(s) - 1) : Rank(s[i].code) < Rank(s[i + 1].code)
      /\ \A i \in 1..Len(s) :
           /\ s[i].sourceReferences # {}
           /\ s[i].sourceReferences = StopExpectation(report, s[i].code)
      /\ \A c \in Codes : StopExpectation(report, c) # {} =>
           \E i \in 1..Len(s) : s[i].code = c
  BY Zenon DEF StopReasonsValid, Rank
<1>2. Len(s) \in Nat /\ \A n \in 1..Len(s) : s[n] \in Reason(report)
  BY SeqFacts
<1>3. Len(s) >= 1
  BY <1>1
<1>4. \A n \in 1..Len(s) :
        /\ s[n].code \in Codes
        /\ s[n] = [code |-> s[n].code,
                   sourceReferences |-> s[n].sourceReferences]
  BY <1>2 DEF Reason
<1>5. Rising(s)
  <2> DEFINE f == [k \in 1..Len(s) |-> Rank(s[k].code)]
  <2>1. \A k \in 1..Len(s) : f[k] = Rank(s[k].code) /\ f[k] \in Nat
    BY <1>4, RankFacts
  <2> HIDE DEF f
  <2>2. \A k \in 1..(Len(s) - 1) : f[k] < f[k + 1]
    BY <1>1, <1>2, <2>1
  <2>3. \A n, m \in 1..Len(s) : n < m => f[n] < f[m]
    BY <1>2, <2>1, <2>2, RisingSteps
  <2> QED BY <2>1, <2>3 DEF Rising
<1> QED BY <1>1, <1>2, <1>3, <1>4, <1>5

(* Where two valid lists have agreed so far, neither is behind the other.  *)
LEMMA NeitherIsBehind ==
  ASSUME NEW report, NEW s \in Seq(Reason(report)), NEW t \in Seq(Reason(report)),
         StopReasonsValid(report, s), StopReasonsValid(report, t),
         NEW k \in 1..Len(s),
         \A m \in 1..(k - 1) : m \in 1..Len(t) /\ s[m].code = t[m].code
  PROVE  /\ k \in 1..Len(t)
         /\ \/ t[k].code = s[k].code
            \/ Rank(t[k].code) < Rank(s[k].code)
<1>1. Len(s) \in Nat /\ Len(t) \in Nat
  BY SeqFacts
<1>2. PICK j \in 1..Len(t) : t[j].code = s[k].code
  <2>1. s[k].code \in Codes /\ StopExpectation(report, s[k].code) # {}
    BY ValidFacts, ZenonT(30)
  <2>2. \A c \in Codes : StopExpectation(report, c) # {} =>
          \E n \in 1..Len(t) : t[n].code = c
    BY ValidFacts
  <2> QED BY <2>1, <2>2
<1>3. ~(j < k)
  <2> SUFFICES ASSUME j < k PROVE FALSE
    OBVIOUS
  <2>1. j \in 1..(k - 1) /\ j \in 1..Len(s)
    BY <1>1
  <2>2. s[j].code = s[k].code
    BY <1>2, <2>1
  <2>3. Rank(s[j].code) < Rank(s[k].code)
    BY <2>1, ValidFacts DEF Rising
  <2>4. Rank(s[k].code) \in Nat
    BY ValidFacts, RankFacts
  <2> QED BY <2>2, <2>3, <2>4
<1>4. k \in 1..Len(t) /\ (k = j \/ k < j)
  BY <1>1, <1>3
<1>5. k < j => Rank(t[k].code) < Rank(t[j].code)
  BY <1>4, ValidFacts DEF Rising
<1> QED BY <1>2, <1>4, <1>5

(* Two valid lists are one: at the first place where they differ, each     *)
(* would have the lower rank.                                              *)
LEMMA OneValidList ==
  ASSUME NEW report, NEW s \in Seq(Reason(report)), NEW t \in Seq(Reason(report)),
         StopReasonsValid(report, s), StopReasonsValid(report, t)
  PROVE  s = t
<1> DEFINE Same(k) == k \in 1..Len(s) /\ k \in 1..Len(t)
                      /\ s[k].code = t[k].code
           Apart == {k \in Nat : (k \in 1..Len(s) \/ k \in 1..Len(t))
                                 /\ ~Same(k)}
<1>1. /\ Len(s) \in Nat /\ Len(t) \in Nat
      /\ DOMAIN s = 1..Len(s) /\ DOMAIN t = 1..Len(t)
  BY SeqFacts
<1>2. Apart = {}
  <2> SUFFICES ASSUME Apart # {} PROVE FALSE
    OBVIOUS
  <2>0. Apart \subseteq Nat
    OBVIOUS
  <2> HIDE DEF Apart
  <2>1. PICK k \in Apart : \A m \in Apart : k <= m
    BY <2>0, Least
  <2> USE DEF Apart
  <2>2. k \in Nat /\ k >= 1 /\ (k \in 1..Len(s) \/ k \in 1..Len(t)) /\ ~Same(k)
    BY <2>1
  <2>3. \A m \in 1..(k - 1) : Same(m)
    <3> TAKE m \in 1..(k - 1)
    <3>1. m \in Nat /\ m < k /\ (m \in 1..Len(s) \/ m \in 1..Len(t))
      BY <1>1, <2>2
    <3>2. m \notin Apart
      BY <2>1, <2>2, <3>1
    <3> QED BY <3>1, <3>2
  <2> HIDE DEF Apart
  <2>4. k \in 1..Len(s) =>
          /\ k \in 1..Len(t)
          /\ \/ t[k].code = s[k].code
             \/ Rank(t[k].code) < Rank(s[k].code)
    BY <2>3, NeitherIsBehind
  <2>5. k \in 1..Len(t) =>
          /\ k \in 1..Len(s)
          /\ \/ s[k].code = t[k].code
             \/ Rank(s[k].code) < Rank(t[k].code)
    <3>1. \A m \in 1..(k - 1) : m \in 1..Len(s) /\ t[m].code = s[m].code
      BY <2>3
    <3> QED BY <3>1, NeitherIsBehind
  <2>6. k \in 1..Len(s) /\ k \in 1..Len(t)
    BY <2>2, <2>4, <2>5
  <2>7. Rank(s[k].code) \in Nat /\ Rank(t[k].code) \in Nat
    BY <2>6, ValidFacts, RankFacts
  <2> QED BY <2>2, <2>4, <2>5, <2>6, <2>7
<1>3. \A k \in 1..Len(s) : Same(k)
  BY <1>1, <1>2
<1>4. \A k \in 1..Len(t) : Same(k)
  BY <1>1, <1>2
<1> HIDE DEF Apart
<1>5. Len(s) = Len(t)
  <2>1. Len(s) \in 1..Len(s) => Len(s) \in 1..Len(t)
    BY <1>3
  <2>2. Len(t) \in 1..Len(t) => Len(t) \in 1..Len(s)
    BY <1>4
  <2>3. \A a, b \in Nat : (a \in 1..a => a \in 1..b)
                         /\ (b \in 1..b => b \in 1..a) => a = b
    OBVIOUS
  <2> QED BY <1>1, <2>1, <2>2, <2>3, Zenon
<1>6. \A k \in 1..Len(s) : s[k] = t[k]
  <2> TAKE k \in 1..Len(s)
  <2>1. s[k].code = t[k].code /\ k \in 1..Len(t)
    BY <1>3
  <2>2. /\ s[k] = [code |-> s[k].code,
                   sourceReferences |-> StopExpectation(report, s[k].code)]
        /\ t[k] = [code |-> t[k].code,
                   sourceReferences |-> StopExpectation(report, t[k].code)]
    BY <2>1, ValidFacts
  <2> QED BY <2>1, <2>2
<1> QED BY <1>1, <1>5, <1>6

-----------------------------------------------------------------------------
(* The decision the schema accepts beside a source report.                 *)
LEMMA EngineIsValid ==
  ASSUME NEW report \in Source, WellFormed(report), Accepted(report)
  PROVE  /\ DecisionValid(report, EvaluateDecision(report))
         /\ EvaluateDecision(report) \in Decisions(report)
<1>1. CASE CollectReasons(report) = {}
  <2>1. EvaluateDecision(report) = ManualReview
    BY <1>1, Zenon DEF EvaluateDecision, BuildDecision
  <2>2. ManualReview.status = "MANUAL_REVIEW"
    BY DEF ManualReview
  <2> QED
    BY <1>1, <2>1, <2>2, NoReasonMeansAllowed, Zenon DEF DecisionValid, Decisions
<1>2. CASE CollectReasons(report) # {}
  <2> DEFINE s == Canonical(report)
  <2>1. EvaluateDecision(report) = [status |-> "STOP", reasons |-> s]
    BY <1>2, EngineIsCanonical
  <2>2. StopReasonsValid(report, s) /\ s \in Seq(Reason(report))
    BY <1>2, CanonicalIsValid, CanonicalFacts
  <2> HIDE DEF s
  <2>3. /\ EvaluateDecision(report).status = "STOP"
        /\ EvaluateDecision(report).reasons = s
    BY <2>1
  <2> QED BY <2>1, <2>2, <2>3 DEF DecisionValid, Decisions
<1> QED BY <1>1, <1>2

(* Beside a given source report the schema accepts one decision: a reader  *)
(* who validates a report needs no engine to know what the engine decides. *)
THEOREM OnlyTheEngineDecision ==
  ASSUME NEW report \in Source, WellFormed(report), Accepted(report),
         NEW d \in Decisions(report), DecisionValid(report, d)
  PROVE  d = EvaluateDecision(report)
<1>1. CASE d = ManualReview
  <2>1. ManualReviewAllowed(report)
    BY <1>1 DEF DecisionValid, ManualReview
  <2>2. CollectReasons(report) = {}
    BY <2>1, AllowedMeansNoReason
  <2> QED BY <1>1, <2>2, Zenon DEF EvaluateDecision, BuildDecision
<1>2. ASSUME NEW s \in Seq(Reason(report)),
             d = [status |-> "STOP", reasons |-> s]
      PROVE  d = EvaluateDecision(report)
  <2>1. d.status # "MANUAL_REVIEW" /\ d.reasons = s
    BY <1>2
  <2>2. StopReasonsValid(report, s)
    BY <2>1 DEF DecisionValid
  <2>3. CollectReasons(report) # {}
    <3>1. Len(s) >= 1 /\ Len(s) \in Nat
      BY <2>2, ValidFacts
    <3>2. 1 \in 1..Len(s)
      BY <3>1
    <3>3. \A n \in 1..Len(s) :
            s[n].code \in Codes /\ StopExpectation(report, s[n].code) # {}
      <4>1. \A n \in 1..Len(s) :
              /\ s[n] = [code |-> s[n].code, sourceReferences |->
                          StopExpectation(report, s[n].code)]
              /\ s[n].code \in Codes
              /\ StopExpectation(report, s[n].code) # {}
        BY <2>2, ValidFacts, Zenon
      <4> QED BY <4>1, Zenon
    <3>4. s[1].code \in Codes /\ StopExpectation(report, s[1].code) # {}
      BY <3>2, <3>3, Zenon
    <3> QED BY <3>4, TablesAgree
  <2>4. /\ EvaluateDecision(report)
             = [status |-> "STOP", reasons |-> Canonical(report)]
        /\ StopReasonsValid(report, Canonical(report))
        /\ Canonical(report) \in Seq(Reason(report))
    BY <2>3, EngineIsCanonical, CanonicalIsValid, CanonicalFacts
  <2>5. s = Canonical(report)
    BY <2>2, <2>4, OneValidList
  <2> QED BY <1>2, <2>4, <2>5
<1> QED BY <1>1, <1>2 DEF Decisions

-----------------------------------------------------------------------------
(* Other producers write decisions of the same form.                       *)
LEMMA ReverseFacts ==
  ASSUME NEW S, NEW s \in Seq(S) PROVE Reverse(s) \in Seq(S)
<1>1. Len(s) \in Nat /\ \A i \in 1..Len(s) : s[i] \in S
  BY SeqFacts
<1>2. \A i \in 1..Len(s) : (Len(s) - i) + 1 \in 1..Len(s)
  BY <1>1
<1>3. Reverse(s) \in [1..Len(s) -> S]
  BY <1>1, <1>2 DEF Reverse
<1> QED BY <1>1, <1>3

LEMMA OthersAreDecisions ==
  ASSUME NEW report, NEW d \in Decisions(report)
  PROVE  OtherDecisions(d) \subseteq Decisions(report)
<1> DEFINE R == Reason(report)
           s == d.reasons
           Stop(rs) == [status |-> "STOP", reasons |-> rs]
           Cite(i, cited) ==
             Stop([s EXCEPT ![i] = [code |-> s[i].code,
                                    sourceReferences |-> cited]])
           Spurious(c) == [code |-> c,
                           sourceReferences |-> {<<"selection", "status">>}]
<1>1. s \in Seq(R)
  <2>1. CASE d = ManualReview
    BY <2>1 DEF ManualReview
  <2>2. ASSUME NEW rs \in Seq(R), d = [status |-> "STOP", reasons |-> rs]
        PROVE  s \in Seq(R)
    BY <2>2
  <2> QED BY <2>1, <2>2, Zenon DEF Decisions
<1>2. /\ DOMAIN s = 1..Len(s) /\ Len(s) \in Nat
      /\ \A i \in DOMAIN s : s[i] \in R
  BY <1>1, SeqFacts
<1>3. \A rs \in Seq(R) : Stop(rs) \in Decisions(report)
  BY Zenon DEF Decisions
<1>4. \A c \in Codes : \A cited \in SUBSET Pointers(report) :
        [code |-> c, sourceReferences |-> cited] \in R
  BY DEF Reason
<1>5. /\ <<"selection", "status">> \in Pointers(report)
      /\ <<"simulation", "coverage">> \in Pointers(report)
  BY DEF Pointers
<1>6. \A i \in DOMAIN s : /\ s[i].code \in Codes
                          /\ s[i].sourceReferences \in SUBSET Pointers(report)
  BY <1>2 DEF Reason
<1>7. ManualReview \in Decisions(report)
  BY DEF Decisions
<1>8. \A i \in DOMAIN s : Stop(RemoveAt(s, i)) \in Decisions(report)
  BY <1>1, <1>3, RemoveAtFacts
<1>9. \A i \in DOMAIN s : Stop(Append(s, s[i])) \in Decisions(report)
  BY <1>1, <1>2, <1>3, AppendFacts
<1>10. \A c \in Codes : Stop(Append(s, Spurious(c))) \in Decisions(report)
  <2> TAKE c \in Codes
  <2>1. Spurious(c) \in R
    BY <1>4, <1>5
  <2> QED BY <1>1, <1>3, <2>1, AppendFacts
<1>11. Stop(Reverse(s)) \in Decisions(report)
  BY <1>1, <1>3, ReverseFacts
<1>12. \A i \in DOMAIN s : \A cited \in SUBSET Pointers(report) :
         Cite(i, cited) \in Decisions(report)
  <2> TAKE i \in DOMAIN s
  <2> TAKE cited \in SUBSET Pointers(report)
  <2>1. [code |-> s[i].code, sourceReferences |-> cited] \in R
    BY <1>4, <1>6
  <2> DEFINE r == [code |-> s[i].code, sourceReferences |-> cited]
  <2> HIDE DEF r
  <2>2. [s EXCEPT ![i] = r] \in Seq(R)
    BY <1>1, <1>2, <2>1 DEF r
  <2> QED BY <1>3, <2>2 DEF r
<1>13. \A i \in DOMAIN s :
         /\ \A ref : s[i].sourceReferences \ {ref} \in SUBSET Pointers(report)
         /\ s[i].sourceReferences \cup {<<"simulation", "coverage">>}
              \in SUBSET Pointers(report)
  BY <1>5, <1>6
<1>14. OtherDecisions(d) =
         {ManualReview}
         \cup {Stop(RemoveAt(s, i)) : i \in DOMAIN s}
         \cup {Stop(Append(s, s[i])) : i \in DOMAIN s}
         \cup {Stop(Append(s, Spurious(c))) : c \in Codes}
         \cup {Stop(Reverse(s))}
         \cup UNION {{Cite(i, s[i].sourceReferences \ {ref}) :
                      ref \in s[i].sourceReferences}
                     \cup {Cite(i, s[i].sourceReferences
                                     \cup {<<"simulation", "coverage">>})}
                     : i \in DOMAIN s}
  BY DEF OtherDecisions
<1>15. {Stop(RemoveAt(s, i)) : i \in DOMAIN s} \subseteq Decisions(report)
  BY <1>8, Zenon
<1>16. {Stop(Append(s, s[i])) : i \in DOMAIN s} \subseteq Decisions(report)
  BY <1>9, Zenon
<1>17. {Stop(Append(s, Spurious(c))) : c \in Codes} \subseteq Decisions(report)
  BY <1>10, Zenon
<1> HIDE DEF s, R, Stop, Cite, Spurious
<1>18. \A i \in DOMAIN s :
         {Cite(i, s[i].sourceReferences \ {ref}) :
          ref \in s[i].sourceReferences}
         \cup {Cite(i, s[i].sourceReferences \cup {<<"simulation", "coverage">>})}
           \subseteq Decisions(report)
  BY <1>12, <1>13
<1> QED
  BY <1>7, <1>11, <1>14, <1>15, <1>16, <1>17, <1>18

-----------------------------------------------------------------------------
(* The decision is the engine's until the report travels, then one of its  *)
(* form; what a reader holds has passed the schema.                        *)
IInv ==
  /\ source \in Sources
  /\ at \in Points \ {"INVALID_PREFLIGHT_REPORT"}
  /\ at \in {"SOURCE", "INVALID_DECISION_INPUT"} => decision = NoDecision
  /\ at \notin {"SOURCE", "INVALID_DECISION_INPUT"} =>
       Accepted(source) /\ decision \in Decisions(source)
  /\ at \in {"DECIDED", "REPORT"} => decision = EvaluateDecision(source)
  /\ at = "READ" => DecisionValid(source, decision)

LEMMA SourcesAreWellFormed ==
  ASSUME NEW report \in Sources PROVE report \in Source /\ WellFormed(report)
BY SourcesAssumption

LEMMA InitIInv == Init => IInv
BY DEF Init, IInv, Points

LEMMA StepIInv == IInv /\ [Next]_vars => IInv'
<1> SUFFICES ASSUME IInv, [Next]_vars PROVE IInv'
  OBVIOUS
<1>0. source \in Source /\ WellFormed(source)
  BY SourcesAreWellFormed DEF IInv
<1>1. CASE Evaluate
  <2>1. CASE Accepted(source)
    <3>1. EvaluateDecision(source) \in Decisions(source)
      BY <1>0, <2>1, EngineIsValid
    <3>2. /\ source' = source /\ at' = "DECIDED"
          /\ decision' = EvaluateDecision(source)
      BY <1>1, <2>1, Zenon DEF Evaluate
    <3> QED BY <2>1, <3>1, <3>2 DEF IInv, Points
  <2>2. CASE ~Accepted(source)
    BY <1>1, <2>2 DEF Evaluate, IInv, Points
  <2> QED BY <2>1, <2>2
<1>2. CASE Assemble
  <2>1. Accepted(source) /\ decision = EvaluateDecision(source)
    BY <1>2 DEF Assemble, IInv
  <2>2. DecisionValid(source, decision)
    BY <1>0, <2>1, EngineIsValid
  <2> QED BY <1>2, <2>2 DEF Assemble, IInv, Points
<1>3. CASE Travel
  <2>1. /\ at = "REPORT" /\ at' = "RECEIVED" /\ source' = source
        /\ decision' \in {decision} \cup OtherDecisions(decision)
    BY <1>3, Zenon DEF Travel
  <2>2. Accepted(source) /\ decision \in Decisions(source)
    BY <2>1 DEF IInv
  <2>3. decision' \in Decisions(source)
    BY <2>1, <2>2, OthersAreDecisions
  <2> QED BY <2>1, <2>2, <2>3 DEF IInv, Points
<1>4. CASE Read
  BY <1>4 DEF Read, IInv, Points
<1>5. CASE UNCHANGED vars
  BY <1>5 DEF vars, IInv
<1> QED
  BY <1>1, <1>2, <1>3, <1>4, <1>5 DEF Next

(* What every state of a report's way satisfies.                           *)
THEOREM Invariant == Spec => []IInv
BY InitIInv, StepIInv, PTL DEF Spec

(* Every decision on the way has a status and codes of the policy.         *)
THEOREM TypeCorrect == Spec => []TypeOK
<1>1. IInv => TypeOK
  <2> SUFFICES ASSUME IInv PROVE TypeOK
    OBVIOUS
  <2>1. \/ decision = NoDecision
        \/ decision = ManualReview
        \/ \E s \in Seq(Reason(source)) :
             decision = [status |-> "STOP", reasons |-> s]
    BY DEF IInv, Decisions
  <2>2. ASSUME NEW s \in Seq(Reason(source)),
               decision = [status |-> "STOP", reasons |-> s]
        PROVE  /\ decision.status = "STOP"
               /\ \A i \in DOMAIN decision.reasons :
                    decision.reasons[i].code \in Codes
    <3>1. \A i \in DOMAIN s : s[i] \in Reason(source)
      BY SeqFacts
    <3> QED BY <2>2, <3>1 DEF Reason
  <2>3. decision = NoDecision \/ decision = ManualReview =>
          /\ decision.status \in {"NONE", "MANUAL_REVIEW"}
          /\ \A i \in DOMAIN decision.reasons :
               decision.reasons[i].code \in Codes
    BY DEF NoDecision, ManualReview
  <2> QED BY <2>1, <2>2, <2>3 DEF IInv, TypeOK
<1> QED BY <1>1, Invariant, PTL

(* The assembler's last step never refuses the decision of the engine: a   *)
(* run that evaluates a decision ends in a report.                         *)
THEOREM EveryDecisionBecomesAReport == Spec => []EngineIsNeverRefused
<1>1. IInv => EngineIsNeverRefused
  BY DEF IInv, EngineIsNeverRefused
<1> QED BY <1>1, Invariant, PTL

(* What a reader accepts is the decision of the engine on the evidence     *)
(* beside it, whoever wrote the report.                                    *)
THEOREM ReadersAgreeWithTheEngine == Spec => []ReadersSeeTheEngineDecision
<1>1. IInv => ReadersSeeTheEngineDecision
  <2> SUFFICES ASSUME IInv, at = "READ"
               PROVE  decision = EvaluateDecision(source)
    BY DEF ReadersSeeTheEngineDecision
  <2>1. /\ source \in Sources /\ Accepted(source)
        /\ decision \in Decisions(source) /\ DecisionValid(source, decision)
    BY DEF IInv
  <2> QED BY <2>1, SourcesAreWellFormed, OnlyTheEngineDecision
<1> QED BY <1>1, Invariant, PTL

(* Nobody is shown MANUAL_REVIEW beside evidence that stops, whoever wrote *)
(* the decision.                                                           *)
THEOREM ReviewIsClean == Spec => []NoReviewOverStopEvidence
<1>1. IInv => NoReviewOverStopEvidence
  BY SourcesAreWellFormed, AllowedMeansNoReason
  DEF IInv, NoReviewOverStopEvidence, DecisionValid
<1> QED BY <1>1, Invariant, PTL

=============================================================================
