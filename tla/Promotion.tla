------------------------------- MODULE Promotion -------------------------------
(***************************************************************************)
(* From measurements to a proposed production setting of the group commit  *)
(* window (src/acceptance/agent_slo): calibration summaries, runs against  *)
(* staging, the promotion review, the record of a human decision and the   *)
(* change package. Every step is a program of its own that reads the files *)
(* of the steps before it; the repository's policy file, which the package *)
(* proposes to change, is edited by others meanwhile.                      *)
(*                                                                         *)
(* A file is its content, so its fingerprint is itself: a file that is     *)
(* changed back has its old fingerprint again.                             *)
(***************************************************************************)
EXTENDS Integers, FiniteSets, FiniteSetsExt

CONSTANTS Windows,       \* candidate_windows_ms
          Maxima,        \* the maximum windows the policy file may hold
          Builds,        \* git SHAs, each with its deployment
          Methods,       \* candidate windows and selection rule of a calibration
          Efficiencies,  \* records per sync, as a calibration may measure them
          PlateauPercent,\* efficiency_plateau_ratio
          Minimum,       \* minimum_calibration_evidence_files and its staging twin
          Ttl,           \* approval_ttl_minutes
          MaxRuns,       \* measurements of each kind (bound)
          MaxEdits,      \* edits of the policy file by others (bound)
          MaxReviews, MaxDecisions,  \* (bounds)
          MaxClock       \* (bound)

ASSUME PromotionAssumption ==
    /\ Windows \subseteq Nat /\ Windows # {} /\ IsFiniteSet(Windows)
    /\ Maxima \subseteq Nat /\ Maxima # {} /\ IsFiniteSet(Maxima)
    /\ Efficiencies \subseteq Nat /\ PlateauPercent \in 0..100
    /\ {MaxClock, MaxEdits} \subseteq Nat

VARIABLES
    clock, edits, reviews, decisions,
    target,      \* the policy file: default_ and max_group_commit_window_ms
    lab,         \* calibration summaries
    staging,     \* evidence of staging runs
    review,      \* the promotion review
    decision,    \* the human's decision file
    record,      \* the approval record
    package,     \* the change package
    program          \* the program that runs: it has read some of its inputs

evidence == <<lab, staging>>
documents == <<review, decision, record, package>>
bounds == <<edits, reviews, decisions>>
promotionVars == <<clock, bounds, target, evidence, documents, program>>

None == [kind |-> "none"]
NoWindow == -1
Targets == [window : Windows, max : Maxima]
NoProgram == [at |-> "idle"]

-----------------------------------------------------------------------------
(* build_calibration_summary: the smallest eligible window that reaches    *)
(* the plateau below the best efficiency.                                  *)
Selected(eligible, efficiency) ==
    LET best    == Max({efficiency[w] : w \in eligible})
        plateau == {w \in eligible : 100 * efficiency[w] >= PlateauPercent * best} IN
    IF eligible = {} THEN NoWindow ELSE Min(plateau)

Candidates ==
    {Selected(eligible, efficiency) :
        eligible \in SUBSET Windows, efficiency \in [Windows -> Efficiencies]}

Calibrate ==
    /\ review = None /\ Cardinality(lab) < MaxRuns
    /\ \E build \in Builds, method \in Methods, label \in {"lab", "staging"},
          candidate \in Candidates :
          lab' = lab \union {[run |-> Cardinality(lab) + 1, build |-> build, method |-> method,
                              label |-> label, candidate |-> candidate]}
    /\ UNCHANGED <<clock, bounds, target, staging, documents, program>>

(* The manifest of the staging environment, an operator's file: what one   *)
(* says that does not validate is never used.                              *)
Manifests == [valid : {TRUE}, build : Builds, window : Windows] \union {[valid |-> FALSE]}

(* build_representative_staging_evidence: every response, audit record and *)
(* probe was as it must be, or not. Other: so under another workload.      *)
Outcomes == {"pass", "failed", "other"}

(* A run against staging: under a valid manifest, whose build and window   *)
(* become those of the evidence.                                           *)
RunStaging ==
    /\ review = None /\ Cardinality(staging) < MaxRuns
    /\ \E manifest \in Manifests, outcome \in Outcomes :
          /\ manifest.valid
          /\ staging' = staging \union {[run |-> Cardinality(staging) + 1, build |-> manifest.build,
                                         window |-> manifest.window, outcome |-> outcome]}
    /\ UNCHANGED <<clock, bounds, target, lab, documents, program>>

-----------------------------------------------------------------------------
(* The promotion review of some of the evidence: two reports of one run, of*)
(* two methods or of two builds are refused; a staging run named twice is  *)
(* an error.                                                               *)
Agree(values) == Cardinality(values) = 1

(* validate_representative_staging_calibration_evidence: each run passed,  *)
(* in the environment of the manifest and with the window it is about.     *)
RunValid(s, manifest, candidate) ==
    /\ s.outcome # "failed"
    /\ s.build = manifest.build
    /\ s.window = manifest.window /\ s.window = candidate

StagingValid(runs, twice, manifest, candidate) ==
    /\ manifest.valid
    /\ Cardinality(runs) >= Minimum /\ ~twice
    /\ \A s \in runs : RunValid(s, manifest, candidate)
    /\ Agree({s.outcome : s \in runs})

(* build_promotion_review: what it refuses to review, the consensus of the *)
(* reports, whether their staging is the manifest's, and the status.       *)
Comparable(reports) ==
    /\ Cardinality(reports) >= Minimum
    /\ Agree({r.method : r \in reports})
    /\ Agree({r.build : r \in reports})

ClaimsStaging(reports) == {r.label : r \in reports} = {"staging"}

Representative(reports, manifest, candidate) ==
    /\ ClaimsStaging(reports) /\ manifest.valid
    /\ {r.build : r \in reports} = {manifest.build}
    /\ manifest.window = candidate

BaseStatus(reports, manifest, candidate) ==
    CASE candidate = NoWindow -> "NOT_READY"
      [] OTHER -> CASE Representative(reports, manifest, candidate) -> "READY"
                    [] ClaimsStaging(reports) /\ ~Representative(reports, manifest, candidate)
                       -> "STAGING_MANIFEST_REQUIRED"
                    [] OTHER -> "LAB_REVIEW_ONLY"

Review ==
    /\ program = NoProgram /\ reviews < MaxReviews
    /\ reviews' = reviews + 1
    /\ \E reports \in SUBSET lab, runs \in SUBSET staging, twice \in BOOLEAN, manifest \in Manifests :
          LET candidates == {r.candidate : r \in reports}
              candidate  == IF Agree(candidates) THEN CHOOSE w \in candidates : TRUE ELSE NoWindow
              base       == BaseStatus(reports, manifest, candidate)
              valid      == StagingValid(runs, twice, manifest, candidate) IN
          /\ Comparable(reports)
          /\ review' = [kind |-> "review", reports |-> reports, runs |-> runs, window |-> candidate,
                        at |-> clock,
                        status |-> IF base = "READY" /\ ~valid
                                   THEN "STAGING_CALIBRATION_EVIDENCE_REQUIRED" ELSE base]
    /\ UNCHANGED <<clock, edits, decisions, target, evidence, decision, record, package, program>>

(* _review_context                                                         *)
Approvable(r) == r # None /\ r.status = "READY"

(* A human, or something else, decides on the review there is, and writes  *)
(* down when: the date is what the file says, in the past or in the future.*)
DecideReview ==
    /\ program = NoProgram /\ review # None /\ decisions < MaxDecisions
    /\ decisions' = decisions + 1
    /\ \E verdict \in {"APPROVED", "REJECTED"}, trusted \in BOOLEAN, at \in 0..MaxClock :
          decision' = [kind |-> "decision", verdict |-> verdict, trusted |-> trusted,
                       review |-> review, at |-> at]
    /\ UNCHANGED <<clock, edits, reviews, target, evidence, review, record, package, program>>

-----------------------------------------------------------------------------
(* run_human_approval_record: the decision must be for this very review    *)
(* and not be dated before it; the value and the bytes of the target are   *)
(* read one after the other; a decision dated after the record would be is *)
(* refused; value and bytes are read again before the record is written.   *)
DecisionValid(d, r) == Approvable(r) /\ d # None /\ d.trusted /\ d.review = r /\ d.at >= r.at

Expired(d) == clock > d.at + Ttl

StartRecord ==
    /\ program = NoProgram /\ DecisionValid(decision, review)
    /\ program' = [at |-> "record_read", decision |-> decision, review |-> review,
                   from |-> target.window, bytes |-> None]
    /\ UNCHANGED <<clock, bounds, target, evidence, documents>>

ReadTargetBytes ==
    /\ program.at = "record_read"
    /\ program' = IF program.decision.at <= clock
                  THEN [program EXCEPT !.at = "record_check", !.bytes = target] ELSE NoProgram
    /\ UNCHANGED <<clock, bounds, target, evidence, documents>>

CheckRecordValue ==
    /\ program.at = "record_check"
    /\ program' = IF target.window = program.from /\ ~(program.decision.verdict = "APPROVED" /\ Expired(program.decision))
              THEN [program EXCEPT !.at = "record_write"] ELSE NoProgram
    /\ UNCHANGED <<clock, bounds, target, evidence, documents>>

WriteRecord ==
    /\ program.at = "record_write"
    /\ record' = IF target = program.bytes
                 THEN [kind |-> "record", decision |-> program.decision, review |-> program.review,
                       from |-> program.from, to |-> program.review.window, bytes |-> program.bytes]
                 ELSE record
    /\ program' = NoProgram
    /\ UNCHANGED <<clock, bounds, target, evidence, review, decision, package>>

-----------------------------------------------------------------------------
(* run_versioned_production_guardrail_change: the fingerprint of the       *)
(* target; the record is validated again (value, then bytes); the text of  *)
(* the target, then its fingerprint; the fingerprint once more; and the    *)
(* package validated against a last reading of text and fingerprint.       *)
StartPackage ==
    /\ program = NoProgram /\ record # None
    /\ program' = [at |-> "package_value", record |-> record, review |-> review, now |-> clock,
                   before |-> target, text |-> None]
    /\ UNCHANGED <<clock, bounds, target, evidence, documents>>

Continue(condition, at) == program' = IF condition THEN [program EXCEPT !.at = at] ELSE NoProgram

(* Slip: the record was checked when it was written.                       *)
OnceApproved == program.record.decision.verdict = "APPROVED"

(* validate_human_approval_record, up to the value of the target; a        *)
(* rejection stays valid for ever but is no authority.                     *)
StillApproved ==
    /\ Approvable(program.review) /\ program.record.review = program.review
    /\ program.record.decision.verdict = "APPROVED"
    /\ program.now <= program.record.decision.at + Ttl

RevalidateValue ==
    /\ program.at = "package_value"
    /\ Continue(StillApproved /\ target.window = program.record.from, "package_bytes")
    /\ UNCHANGED <<clock, bounds, target, evidence, documents>>

RevalidateBytes ==
    /\ program.at = "package_bytes"
    /\ Continue(target = program.record.bytes, "package_text")
    /\ UNCHANGED <<clock, bounds, target, evidence, documents>>

ReadText ==
    /\ program.at = "package_text"
    /\ program' = [program EXCEPT !.at = "package_build", !.text = target]
    /\ UNCHANGED <<clock, bounds, target, evidence, documents>>

BuildProposal ==
    /\ program.at = "package_build"
    /\ Continue(/\ target = program.record.bytes
                /\ program.text.window = program.record.from
                /\ program.record.to <= program.text.max, "package_after")
    /\ UNCHANGED <<clock, bounds, target, evidence, documents>>

(* An approval of the value there is needs no change, and proposes none.   *)
Proposal == IF program.record.to = program.record.from THEN None
            ELSE [program.text EXCEPT !.window = program.record.to]

CheckUntouched ==
    /\ program.at = "package_after"
    /\ Continue(target = program.before, "package_diff")
    /\ UNCHANGED <<clock, bounds, target, evidence, documents>>

(* Slip: the generator trusts what it has just generated.                  *)
ChangesTheField(p, text) == p.to # p.from => p.proposal.window = p.to

(* validate_versioned_production_guardrail_package: of the target as it is *)
(* now, the proposal changes the approved field and nothing else.          *)
ChangesOnlyTheField(p, text) ==
    /\ text.window = p.from
    /\ p.proposal = IF p.to = p.from THEN None ELSE [text EXCEPT !.window = p.to]

Package == [kind |-> "package", record |-> program.record, now |-> program.now, from |-> program.record.from,
            to |-> program.record.to, before |-> program.record.bytes, proposal |-> Proposal]

CheckDiff ==
    /\ program.at = "package_diff"
    /\ Continue(ChangesOnlyTheField(Package, target), "package_write")
    /\ UNCHANGED <<clock, bounds, target, evidence, documents>>

(* The record of the change and the proposed file are two files; what is   *)
(* used of a package is what its record says.                              *)
WritePackage ==
    /\ program.at = "package_write"
    /\ package' = IF target = Package.before THEN Package ELSE package
    /\ program' = NoProgram
    /\ UNCHANGED <<clock, bounds, target, evidence, review, decision, record>>

-----------------------------------------------------------------------------
(* Outside: time, edits of the policy file and the manual application of a *)
(* package that validates. Neither matters before a review can be approved.*)
Tick ==
    /\ clock < MaxClock /\ Approvable(review)
    /\ clock' = clock + 1
    /\ UNCHANGED <<bounds, target, evidence, documents, program>>

Edit ==
    /\ edits < MaxEdits /\ Approvable(review)
    /\ edits' = edits + 1
    /\ \E t \in Targets \ {target} : target' = t
    /\ UNCHANGED <<clock, reviews, decisions, evidence, documents, program>>

Apply ==
    /\ package # None /\ package.proposal # None /\ target = package.before /\ ChangesOnlyTheField(package, target)
    /\ target' = package.proposal
    /\ UNCHANGED <<clock, bounds, evidence, documents, program>>

PromotionInit ==
    /\ clock = 0 /\ edits = 0 /\ reviews = 0 /\ decisions = 0
    /\ target = [window |-> Min(Windows), max |-> Max(Maxima)]
    /\ lab = {} /\ staging = {}
    /\ review = None /\ decision = None /\ record = None /\ package = None
    /\ program = NoProgram

PromotionNext ==
    \/ Calibrate \/ RunStaging \/ Review \/ DecideReview
    \/ StartRecord \/ ReadTargetBytes \/ CheckRecordValue \/ WriteRecord
    \/ StartPackage \/ RevalidateValue \/ RevalidateBytes \/ ReadText \/ BuildProposal
    \/ CheckUntouched \/ CheckDiff \/ WritePackage
    \/ Tick \/ Edit \/ Apply

PromotionSpec == PromotionInit /\ [][PromotionNext]_promotionVars

-----------------------------------------------------------------------------
PromotionTypeOK ==
    /\ clock \in 0..MaxClock /\ edits \in 0..MaxEdits /\ target \in Targets
    /\ \A r \in lab : r.build \in Builds /\ r.candidate \in Windows \union {NoWindow}
    /\ \A s \in staging : s.build \in Builds /\ s.window \in Windows
    /\ review.kind \in {"none", "review"} /\ decision.kind \in {"none", "decision"}
    /\ record.kind \in {"none", "record"} /\ package.kind \in {"none", "package"}
    /\ record # None => record.bytes \in Targets /\ record.to \in Windows

(* The target is read six times while a package is generated and others    *)
(* edit it, perhaps back and forth: the proposal that is written is the    *)
(* file the human's record was bound to, with the approved field changed.  *)
(* Fewer than four edits cannot break it, four can (MisledInv of           *)
(* OperationsProofs).                                                      *)
ProposalIsOfItsBase ==
    package # None =>
        /\ package.before = package.record.bytes
        /\ package.before.window = package.from
        /\ package.proposal # None =>
              /\ package.to # package.from /\ package.to <= package.before.max
              /\ package.proposal = [package.before EXCEPT !.window = package.to]

(* A package rests on a trusted approval that was given, by its own date,  *)
(* after the review and before the package, and had not expired, of a      *)
(* review of enough distinct runs in the lab and in staging that were all  *)
(* of one build and agree on the window it proposes; those in the lab were *)
(* made by one method.                                                     *)
PackageIsAuthorized ==
    package # None =>
        LET d == package.record.decision  r == d.review IN
        /\ d.verdict = "APPROVED" /\ d.trusted
        /\ d.at \in r.at..package.now /\ package.now <= d.at + Ttl
        /\ Cardinality(r.reports) >= Minimum /\ Cardinality(r.runs) >= Minimum
        /\ Agree({e.build : e \in r.reports \union r.runs})
        /\ {e.candidate : e \in r.reports} \union {e.window : e \in r.runs} = {package.to}
        /\ Agree({e.method : e \in r.reports})

-----------------------------------------------------------------------------
(* The inductive invariant behind PackageIsAuthorized: what every document *)
(* there is, and every one a program has read, was made of.                *)
IsReview(r) ==
    /\ r.kind = "review" /\ r.at \in 0..clock
    /\ r.status = "READY" =>
          /\ Cardinality(r.reports) >= Minimum /\ Cardinality(r.runs) >= Minimum
          /\ Agree({e.build : e \in r.reports \union r.runs})
          /\ {e.candidate : e \in r.reports} \union {e.window : e \in r.runs} = {r.window}
          /\ Agree({e.method : e \in r.reports})

IsDecision(d) == d.kind = "decision" /\ d.at \in Nat /\ IsReview(d.review)

IsRecord(r) ==
    /\ r.kind = "record" /\ r.to = r.review.window
    /\ IsDecision(r.decision) /\ DecisionValid(r.decision, r.review)
    /\ r.decision.at <= clock

RecordStages == {"record_read", "record_check", "record_write"}
ApprovedStages == {"package_bytes", "package_text", "package_build", "package_after", "package_diff",
                   "package_write"}

(* What a program has validated stays so: its copies do not change, even   *)
(* when the files they were read from do.                                  *)
ProgramInv ==
    /\ program.at \in {"idle", "package_value"} \union RecordStages \union ApprovedStages
    /\ program.at \in RecordStages =>
          /\ program = [at |-> program.at, decision |-> program.decision, review |-> program.review,
                        from |-> program.from, bytes |-> program.bytes]
          /\ IsDecision(program.decision) /\ DecisionValid(program.decision, program.review)
    /\ program.at \in {"record_check", "record_write"} => program.decision.at <= clock
    /\ program.at \in {"package_value"} \union ApprovedStages =>
          /\ program = [at |-> program.at, record |-> program.record, review |-> program.review,
                        now |-> program.now, before |-> program.before, text |-> program.text]
          /\ IsRecord(program.record) /\ program.now \in program.record.decision.at..clock
    /\ program.at \in ApprovedStages => StillApproved

DocumentsInv ==
    /\ clock \in Nat /\ IsFiniteSet(lab)
    /\ review # None => IsReview(review)
    /\ decision # None => IsDecision(decision)
    /\ record # None => IsRecord(record)
=============================================================================
