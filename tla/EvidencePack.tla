----------------------------- MODULE EvidencePack -----------------------------
(***************************************************************************)
(* The evidence files in data/eval and the scripts that write and read     *)
(* them.  A script that talks to the knowledge source on :8001 and to the  *)
(* service on :8002 takes many steps; between them either may go away and  *)
(* come back, a second terminal may run a script that needs neither, and   *)
(* any script may be killed, also in the middle of writing its file.       *)
(*                                                                         *)
(* A commit is known by the behaviours it gets right (Works): that is all  *)
(* the in-process evaluations find out about it.  The code is not changed, *)
(* nor another source started on :8001, while a script talks to them or    *)
(* the scorecard is made, and the service on :8002 is started anew when the*)
(* code is.                                                                *)
(***************************************************************************)
EXTENDS Naturals

CONSTANTS
  Commits, Works,   (* Works[c]: what the evaluations find right in c      *)
  Sources,          (* what may be started on :8001                        *)
  Disks,            (* the files a checkout may begin with                 *)
  MaxScripts,       (* bound: scripts started                              *)
  None, Torn        (* a file that is not there, or was cut in the writing *)

(* parts: the shortage gate.  degrade, ground: no silent submission of a   *)
(* degraded or ungrounded run.  acl: the two refusals.  gate: the goldset. *)
(* env: .env.demo demands live.  align: the allowlist fits the ledger.     *)
Behaviours == {"parts", "degrade", "ground", "acl", "gate", "env", "align"}

ASSUME EvidenceAssumption ==
  Works \in [Commits -> SUBSET Behaviours] /\ MaxScripts \in Nat

VARIABLES
  head,      (* the commit checked out                                     *)
  rag,       (* :8001: the source, whether it is up, and whether the ticket*)
             (* of the last approval is in its inbox                       *)
  cop,       (* :8002: how the service runs                                *)
  disk,      (* data/eval                                                  *)
  newer,     (* files with an mtime newer than the scorecard's of them     *)
  missed,    (* history: one was written of which the mtimes do not tell   *)
  score,     (* the scorecard in the making                                *)
  job,       (* the script that talks to :8001 and :8002                   *)
  left,      (* scripts still to be started                                *)
  witness    (* history: what lay behind the last pack and L1 report       *)

marks == <<newer, missed, score>>

vars == <<head, rag, cop, disk, newer, missed, score, job, left, witness>>

(* func, the report of live_function_test.py, is only read here.           *)
Files == {"parts", "drill", "acl", "strict", "contract", "gate", "func", "pack", "card",
          "l1", "matrix"}

(* joint: as .env.demo has it, live or nothing.  offline: with the fixture.*)
Modes == {"down", "joint", "offline"}

(* source_mtimes.                                                          *)
Tracked == {"parts", "contract", "pack", "drill", "gate", "func"}

(* What a tolerant reader makes of a file: _load_json of synergy_checks and*)
(* governance_scorecard.  The pack builder's own _load_json raises instead.*)
Parsed(f) == IF disk[f] = Torn THEN None ELSE disk[f]

IsGreen(f) == Parsed(f) # None /\ disk[f] = TRUE

Right(b) == b \in Works[head]

(* by: the script, or the one joint_verify runs inside itself (outer).     *)
(* checked: the allowlist was.  other: --rag-base names another source than*)
(* the one on :8001.  good: its checks so far.  filed: history, the        *)
(* approval put a ticket into the inbox of the source.                     *)
Idle == [by |-> "none", pc |-> "idle", outer |-> FALSE, matrix |-> FALSE, checked |-> FALSE,
         other |-> FALSE, good |-> FALSE, pack |-> None, filed |-> FALSE]

EmptyPack ==
  [mode |-> "from_artifacts", tier |-> "artifacts", live |-> FALSE, l1 |-> FALSE,
   claim |-> FALSE, sample |-> FALSE, owned |-> "none", offline |-> FALSE,
   live_ab |-> FALSE, version |-> FALSE, required_ok |-> FALSE]

Packs ==
  [mode : {"from_artifacts", "live"}, tier : {"artifacts", "L1", "L2"}, live : BOOLEAN,
   l1 : BOOLEAN, claim : BOOLEAN, sample : BOOLEAN, owned : {"none", "yes", "no"},
   offline : BOOLEAN, live_ab : BOOLEAN, version : BOOLEAN, required_ok : BOOLEAN]

(* The contract stub says of itself that it is no more than L1.  gate: it  *)
(* demands a token, and has one configured.                                *)
ASSUME SourcesAssumption ==
  \A src \in Sources :
    /\ src.kind \in {"rag", "stub"} /\ src.gate \in BOOLEAN /\ src.lanes \in BOOLEAN
    /\ src.kind = "stub" => src.tier = "L1" /\ src.mode = "contract_stub"

(* The files that come with the checkout were written by these scripts: a  *)
(* snapshot claims nothing, a live claim had a source and a commit behind  *)
(* it if the allowlist was checked too, a scorecard came after some report.*)
ASSUME DisksAssumption ==
  \A d \in Disks :
    /\ DOMAIN d = Files
    /\ d["pack"] # None => d["pack"] \in Packs
    /\ d["pack"] # None /\ d["pack"].mode = "from_artifacts" =>
         /\ d["pack"].tier = "artifacts"
         /\ ~d["pack"].live /\ ~d["pack"].l1 /\ ~d["pack"].claim
    /\ d["matrix"] # None /\ d["matrix"].claim = "live" =>
         /\ d["matrix"].src.kind = "rag" /\ d["matrix"].src.gate
         /\ {"degrade", "env"} \subseteq Works[d["matrix"].code]
         /\ d["matrix"].checked => "align" \in Works[d["matrix"].code]
    /\ d["card"] # None => \E f \in Tracked : d[f] # None

(* A checkout gives every file a new mtime.                                *)
Init ==
  /\ head \in Commits /\ disk \in Disks /\ left = MaxScripts
  /\ rag \in [src : Sources, up : BOOLEAN, inbox : {FALSE}]
  /\ cop \in Modes
  /\ newer = {f \in Tracked : disk[f] # None} /\ missed = FALSE /\ score = None
  /\ job = Idle
  /\ witness = [kind |-> "rag", filed |-> TRUE, l1 |-> TRUE]

-----------------------------------------------------------------------------
(* evidence_tier.py.                                                       *)

(* Mutant: a source that says nothing of its tier has none.                *)
TierAsSaid(src) == src.tier

(* Mutant: whoever speaks the contract is taken for the real source.       *)
TierByContract(src) == IF src.version # "none" THEN "L2" ELSE "L1"

(* tier_from_rag_health: what /health says of itself, else its contract.   *)
StubModes == {"contract_stub", "rag_contract_stub", "fixture_http", "l1_stub"}

TierOf(src) ==
  IF src.tier \in {"L1", "L2"} THEN src.tier
  ELSE IF src.mode \notin StubModes /\ src.version # "none" THEN "L2" ELSE "L1"

(* Mutant: the snapshot is told from a live pack by its tier only.         *)
EnforcedByTier(p) ==
  CASE p.tier = "artifacts" -> [p EXCEPT !.live = FALSE, !.claim = FALSE]
    [] p.tier = "L1" -> [p EXCEPT !.live = FALSE, !.claim = p.l1]
    [] p.tier = "L2" -> p

(* enforce_pack_tier_rules.                                                *)
Enforced(p) ==
  CASE p.mode = "from_artifacts" \/ p.tier = "artifacts" ->
         [p EXCEPT !.tier = "artifacts", !.live = FALSE, !.claim = FALSE]
    [] p.mode = "live" /\ p.tier = "L1" -> [p EXCEPT !.live = FALSE, !.claim = p.l1]
    [] p.mode = "live" /\ p.tier = "L2" -> p

-----------------------------------------------------------------------------
(* synergy_checks.py: the seven required checks, over the pack and the     *)
(* files of other scripts as they lie there.                               *)

(* A skipped strict check does not count: the contract check stands in.    *)
ProbeIsNotBusiness ==
  IF Parsed("strict") # None /\ ~Parsed("strict").skipped
  THEN Parsed("strict").ok ELSE IsGreen("contract")

DegradeDrilled == Parsed("drill") # None /\ Parsed("drill").degraded

RequiredOk(p) ==
  /\ p.sample
  /\ p.owned = "yes"
  /\ ProbeIsNotBusiness
  /\ p.live_ab /\ p.offline
  /\ p.version
  /\ DegradeDrilled
  /\ IsGreen("acl")

(* apply_synergy_to_claimability: only what is live answers for its claim. *)
Synergized(p) ==
  LET q == [p EXCEPT !.required_ok = RequiredOk(p)]
  IN  IF p.live THEN [q EXCEPT !.claim = q.required_ok]
      ELSE IF p.mode = "from_artifacts" THEN [q EXCEPT !.claim = FALSE] ELSE q

-----------------------------------------------------------------------------
(* Writing a file is not atomic: a script that is killed then leaves it    *)
(* cut.  j is the script's next state if it survives.  A scorecard in the  *)
(* making takes the mtime for one of the contents it has read; one that is *)
(* made allows half a second, in which a file may be written twice.        *)
Touched(f) ==
  /\ score' = IF score # None /\ f \in Tracked THEN [score EXCEPT !.raced = TRUE] ELSE score
  /\ \/ newer' = newer \cup ({f} \cap Tracked) /\ UNCHANGED missed
     \/ /\ f \in Tracked \ newer /\ disk[f] # None
        /\ missed' = TRUE /\ UNCHANGED newer

Writes(f, content, j) ==
  /\ Touched(f)
  /\ \/ disk' = [disk EXCEPT ![f] = content] /\ job' = j
     \/ disk' = [disk EXCEPT ![f] = Torn] /\ job' = Idle

(* The second terminal: a script that sends no request, or one, runs in one*)
(* step and may do so in the middle of another.                            *)
Runs(f, content) ==
  /\ left > 0 /\ left' = left - 1
  /\ Touched(f)
  /\ \E c \in {content, Torn} : disk' = [disk EXCEPT ![f] = c]
  /\ UNCHANGED <<head, rag, cop, job, witness>>

(* parts_gate_ab_test.py: run_parts_gate_ab.                               *)
RunsPartsAB == Runs("parts", Right("parts"))

(* run_acl_matrix: the L2 cell is refused for want of grounds.             *)
RunsAclMatrix == Runs("acl", Right("acl") /\ Right("ground"))

(* build_hitl_gate_report.                                                 *)
RunsGateEval == Runs("gate", Right("gate"))

(* build_drill: what its scenes find.  The scene that probes counts as its *)
(* configuration unless the source is down: then a run must be refused.    *)
LaneScene == ProbeIsNotBusiness

Unreachable(probe, joint) ==
  IF ~probe THEN Right("env")
  ELSE joint /\ (rag.up \/ cop = "joint")

Drill(probe, joint) ==
  [degraded |-> Right("degrade"),
   all_ok   |-> /\ Unreachable(probe, joint)
                /\ Right("degrade") /\ Right("env") /\ Right("ground")
                /\ LaneScene]

RunsDrill == \E probe, joint \in BOOLEAN : Runs("drill", Drill(probe, joint))

-----------------------------------------------------------------------------
(* governance_scorecard.py, the full profile: its required metrics.        *)
GoldsetHeld == IsGreen("gate")

DegradeBlocks == Right("degrade")

(* A policy is covered by a playbook, but degrading only by the drill.     *)
PoliciesCovered == Parsed("drill") # None

LeakFree ==
  IF Parsed("pack") # None THEN Parsed("pack").owned # "no" ELSE Parsed("func") # None

(* The pack's copy is believed before the file itself.                     *)
PartsGateHeld ==
  IF Parsed("pack") # None THEN Parsed("pack").offline ELSE IsGreen("parts")

ContractHeld ==
  IF Parsed("contract") # None THEN IsGreen("contract")
  ELSE Parsed("pack") # None /\ Parsed("pack").version

CardVerdict ==
  /\ GoldsetHeld /\ LeakFree /\ PartsGateHeld
  /\ DegradeBlocks /\ PoliciesCovered /\ ContractHeld

(* build_scorecard evaluates its metrics, has git say the commit and takes *)
(* the mtimes only then; write_scorecard is last.                          *)
ScoresReports ==
  /\ score = None /\ left > 0 /\ left' = left - 1
  /\ score' = [all_ok |-> CardVerdict, raced |-> FALSE]
  /\ UNCHANGED <<head, rag, cop, disk, newer, missed, job, witness>>

WritesScorecard ==
  /\ score # None /\ score' = None
  /\ \/ /\ disk' = [disk EXCEPT !["card"] = [all_ok |-> score.all_ok, git_sha |-> head]]
        /\ newer' = {} /\ missed' = score.raced
     \/ disk' = [disk EXCEPT !["card"] = Torn] /\ UNCHANGED <<newer, missed>>
  /\ UNCHANGED <<head, rag, cop, job, left, witness>>

(* A report is deleted by hand: it has no mtime to be newer.               *)
Deletes ==
  /\ left > 0 /\ left' = left - 1
  /\ \E f \in Tracked :
       /\ disk[f] # None /\ disk' = [disk EXCEPT ![f] = None]
       /\ newer' = newer \ {f} /\ missed' = TRUE
  /\ score' = IF score # None THEN [score EXCEPT !.raced = TRUE] ELSE None
  /\ UNCHANGED <<head, rag, cop, job, witness>>

(* Mutant: the goldset's report is not among the source_mtimes.            *)
StaleButForGate == newer \ {"gate"} # {}

(* scorecard_is_stale: a file that is not there is passed over.            *)
IsStale == newer # {}

-----------------------------------------------------------------------------
(* The scripts that talk.  Each request is a step.                         *)
Goes(j) == job' = j /\ UNCHANGED <<disk, marks>>

(* A request that is not answered raises: where nobody catches it the      *)
(* script, and the one that runs it, is gone without a report.             *)
Dies == Goes(Idle)

At(by, pc) == job.by = by /\ job.pc = pc

To(pc) == [job EXCEPT !.pc = pc]

(* build_joint_evidence_pack.main, up to the first request: its own        *)
(* _load_json raises on a file that was cut.                               *)
LoadsArtifacts(j) ==
  IF disk["parts"] = Torn THEN Idle
  ELSE [j EXCEPT !.by = "pack", !.pc = "health",
                 !.pack = [EmptyPack EXCEPT !.offline = IsGreen("parts")]]

(* _enrich_live: the health of the source.  An answer that is not 200, or  *)
(* no JSON, counts as L2 without a version.                                *)
PackAsksSource ==
  /\ At("pack", "health")
  /\ \/ ~rag.up /\ Goes([To("write") EXCEPT !.pack = Enforced(job.pack)])
     \/ rag.up /\ Goes([To("cop") EXCEPT !.pack.tier = TierOf(rag.src),
                                        !.pack.version = (rag.src.version = "match")])
     \/ rag.up /\ Goes([To("cop") EXCEPT !.pack.tier = "L2"])
  /\ UNCHANGED <<rag, left, witness>>

(* The service's rag_mode is live whenever the source answers it.  An      *)
(* answer that is not 200 names no contract version.                       *)
Serves == cop # "down"

Linked == cop = "joint" /\ rag.up

PackAsksCopilot ==
  /\ At("pack", "cop")
  /\ \/ Serves /\ job.pack.version /\ Linked /\ Goes(To("p1"))
     \/ /\ Serves /\ job.pack.version /\ ~Linked
        /\ Goes([To("write") EXCEPT !.pack = Enforced(@)])
     \/ Goes([To("write") EXCEPT !.pack = Enforced([@ EXCEPT !.version = FALSE])])
  /\ UNCHANGED <<rag, left, witness>>

(* The source refuses a submission without the token, and keeps its probes *)
(* apart from the business.                                                *)
TokenDemanded == rag.src.gate

LanesApart == rag.src.lanes

(* The P1 playbook: the run waits for the chief, on the source or, where   *)
(* the service falls back, on the fixture; or there is none to approve: the*)
(* source went away, and a service that must be live refuses.  The L1      *)
(* report does not ask which of the two it ran on, but for its policy.     *)
ShortageSeen == Right("parts")

Played(run) ==
  LET j == [job EXCEPT !.filed = FALSE,
                       !.pack = IF job.by # "pack" THEN None
                                ELSE [@ EXCEPT !.sample = run = "live" /\ ShortageSeen]]
      approvable == run # "none" /\ (job.by = "l1" => ShortageSeen)
  IN  [j EXCEPT !.good = @ /\ approvable,
                !.pc = IF approvable THEN "approve" ELSE IF job.by = "pack" THEN "ab" ELSE "write"]

(* An exception inside the pack's sample is noted, and the pack stays a    *)
(* snapshot; the other scripts let it through.                             *)
SampleLost ==
  IF job.by = "pack" THEN Goes([To("write") EXCEPT !.pack = Enforced([@ EXCEPT !.sample = FALSE])])
  ELSE Dies

PlaysP1 ==
  /\ job.pc = "p1"
  /\ \/ Linked /\ Goes(Played("live"))
     \/ cop = "offline" /\ Goes(Played("fixture"))
     \/ Serves /\ Goes(Played("none"))
     \/ ~Serves /\ SampleLost
  /\ UNCHANGED <<rag, left, witness>>

(* The chief's approval submits; only what reaches the source is in its    *)
(* inbox, but the fixture answers in the same words.  Or it does not.      *)
Approves ==
  /\ job.pc = "approve"
  /\ \/ /\ Linked
        /\ Goes([To("inbox") EXCEPT !.filed = TRUE]) /\ rag' = [rag EXCEPT !.inbox = TRUE]
     \/ cop = "offline" /\ Goes(To("inbox")) /\ rag' = [rag EXCEPT !.inbox = FALSE]
     \/ Serves /\ Goes([To("inbox") EXCEPT !.good = FALSE]) /\ rag' = [rag EXCEPT !.inbox = FALSE]
     \/ ~Serves /\ SampleLost /\ UNCHANGED rag
  /\ UNCHANGED <<left, witness>>

(* The inbox is asked whose ticket it holds; demo_strict_submit_check does *)
(* not ask and believes the answer to the approval, be it the fixture's.   *)
(* The pack forgives the silence.                                          *)
Found == rag.up /\ rag.inbox

LooksIntoInbox ==
  /\ job.pc = "inbox"
  /\ CASE job.by = "strict" -> Goes(To("write"))
       [] job.by = "l1" ->
            \/ ~rag.up /\ Dies
            \/ /\ ~job.filed \/ rag.up
               /\ Goes([To("write") EXCEPT !.good = @ /\ Found /\ LanesApart])
       [] job.by = "pack" ->
            Goes([To("ab") EXCEPT !.pack.owned = IF Found THEN "yes" ELSE "no"])
  /\ UNCHANGED <<rag, left, witness>>

-----------------------------------------------------------------------------
(* The pack's verdict, once the A/B runs are in.                           *)
Verdict(p) ==
  IF p.tier = "L1"
  THEN [p EXCEPT !.l1 = p.sample /\ p.owned = "yes",
                 !.claim = p.sample /\ p.owned = "yes" /\ p.offline]
  ELSE [p EXCEPT !.claim = p.sample /\ p.offline,
                 !.live = p.sample /\ p.offline /\ p.live_ab /\ p.owned = "yes"]

ABRun(offline, live) ==
  [To("write") EXCEPT
     !.pack = Enforced(Verdict([@ EXCEPT !.mode = "live", !.offline = offline, !.live_ab = live]))]

LiveAB == IF Linked THEN {ShortageSeen, FALSE} ELSE {FALSE}

(* The offline report is believed if it is green, and made again if not.   *)
RunsABs ==
  /\ At("pack", "ab")
  /\ \/ /\ disk["parts"] = Torn
        /\ Goes([To("write") EXCEPT !.pack = Enforced([@ EXCEPT !.mode = "live"])])
     \/ IsGreen("parts") /\ \E live \in LiveAB : Goes(ABRun(TRUE, live))
     \/ /\ disk["parts"] # Torn /\ ~IsGreen("parts")
        /\ \E live \in LiveAB : Writes("parts", Right("parts"), ABRun(Right("parts"), live))
  /\ UNCHANGED <<rag, left, witness>>

(* main: the synergy, the tier once more, then the index, whose files may  *)
(* be cut.                                                                 *)
Published(p) == Enforced(Synergized(p))

Indexed == \A f \in {"card", "drill", "acl"} : disk[f] # Torn

WritesPack ==
  /\ At("pack", "write")
  /\ \/ /\ Indexed
        /\ Writes("pack", Published(job.pack),
                  IF job.outer THEN [To("verdict") EXCEPT !.by = "verify"] ELSE Idle)
        /\ witness' = [witness EXCEPT !.kind = rag.src.kind, !.filed = job.filed]
     \/ ~Indexed /\ Dies /\ UNCHANGED witness
  /\ UNCHANGED <<rag, left>>

(* --from-artifacts asks nobody.                                           *)
RunsSnapshot ==
  /\ Indexed /\ disk["parts"] # Torn
  /\ Runs("pack", Published([EmptyPack EXCEPT !.offline = IsGreen("parts")]))

-----------------------------------------------------------------------------
(* run_l1_linkage.py: a health that does not do, or is answered with other *)
(* than 200, or a gate that is off, ends it with a report that says no.    *)
Refuted == [To("write") EXCEPT !.good = FALSE]

Speaks == rag.up /\ rag.src.version = "match"

L1AsksHealth ==
  /\ At("l1", "health")
  /\ Goes(Refuted) \/ (Speaks /\ Serves /\ TokenDemanded /\ Goes(To("contract")))
  /\ UNCHANGED <<rag, left, witness>>

AfterContract(ok) ==
  CASE job.by = "l1" -> [To("red") EXCEPT !.good = @ /\ ok]
    [] job.by = "verify" ->
         [To("health") EXCEPT !.by = "strict", !.good = TRUE, !.other = FALSE,
                              !.matrix = @ /\ ok]
    [] job.by = "contract" -> Idle

(* live_rag_contract_check.check: one that finds no health leaves the old  *)
(* file where it is.  Of another source anything may be found.             *)
ChecksContract ==
  /\ job.pc = "contract"
  /\ \/ (job.other \/ ~rag.up) /\ Dies
     \/ /\ job.other \/ rag.up
        /\ \E ok \in {job.other \/ LanesApart, FALSE} : Writes("contract", ok, AfterContract(ok))
     \/ (job.other \/ rag.up) /\ Goes(AfterContract(FALSE))
  /\ UNCHANGED <<rag, left, witness>>

SubmitsRed ==
  /\ job.pc = "red"
  /\ IF rag.up THEN Goes([To("p1") EXCEPT !.good = @ /\ TokenDemanded]) ELSE Dies
  /\ UNCHANGED <<rag, left, witness>>

WritesL1 ==
  /\ At("l1", "write")
  /\ Writes("l1", job.good, Idle)
  /\ witness' = [witness EXCEPT !.l1 = job.filed]
  /\ UNCHANGED <<rag, left>>

(* demo_strict_submit_check.py, always on :8001: without the source, or    *)
(* with its gate off, it writes that it was skipped, the latter as a       *)
(* success, and so after an answer that is not 200; a gate that is on but  *)
(* has no token fails it.                                                  *)
AfterStrict(green, code) ==
  IF ~job.outer THEN Idle
  ELSE [Idle EXCEPT !.by = "verify", !.pc = "pack?", !.outer = TRUE, !.checked = job.checked,
                    !.matrix = job.matrix /\ green /\ code = 0]

Skips(code) == Writes("strict", [skipped |-> TRUE, ok |-> FALSE], AfterStrict(FALSE, code))

StrictAsksHealth ==
  /\ At("strict", "health")
  /\ \/ ~rag.up /\ Skips(1)
     \/ rag.up /\ Skips(0)
     \/ rag.up /\ ~TokenDemanded /\ Writes("strict", [skipped |-> FALSE, ok |-> FALSE],
                                           AfterStrict(FALSE, 1))
     \/ rag.up /\ TokenDemanded /\ Goes(To("red"))
  /\ UNCHANGED <<rag, left, witness>>

WritesStrict ==
  /\ At("strict", "write")
  /\ Writes("strict", [skipped |-> FALSE, ok |-> job.good],
            AfterStrict(job.good, IF job.good THEN 0 ELSE 1))
  /\ UNCHANGED <<rag, left, witness>>

-----------------------------------------------------------------------------
(* run_joint_verify.py: the allowlist, unless --skip-allowlist, and V3,    *)
(* whose drill it writes; then V2 at --rag-base and V1 at :8001, which     *)
(* write theirs; then, if all is green, the pack.                          *)
AllowlistFits == Right("align")

ConfigHolds == Right("env") /\ Right("degrade")

StartsVerify ==
  /\ job = Idle /\ left > 0 /\ left' = left - 1
  /\ \E joint, checked, other \in BOOLEAN :
       Writes("drill", Drill(FALSE, joint),
              [Idle EXCEPT !.by = "verify", !.pc = "health", !.outer = TRUE,
                           !.checked = checked, !.other = other,
                           !.matrix = ConfigHolds /\ (checked => AllowlistFits)])
  /\ UNCHANGED <<rag, witness>>

(* The source asked may be away, answer with other than 200, or not do.    *)
VerifyAsksHealth ==
  /\ At("verify", "health")
  /\ \/ (job.other \/ (Speaks /\ TokenDemanded)) /\ Goes(To("contract"))
     \/ Goes([To("pack?") EXCEPT !.matrix = FALSE, !.other = FALSE])
  /\ UNCHANGED <<rag, left, witness>>

(* What it advises to claim; whether it looked at the allowlist; and, of a *)
(* claim to be live, for history, the commit and the source it was made of.*)
Report(claim) ==
  IF claim # "live" THEN [claim |-> claim]
  ELSE [claim |-> "live", checked |-> job.checked, code |-> head, src |-> rag.src]

(* --offline-only ends here, with no claim.                                *)
EndsOffline ==
  /\ At("verify", "health")
  /\ Writes("matrix", Report("none"), Idle)
  /\ UNCHANGED <<rag, left, witness>>

(* Mutant: --pack builds the pack whatever the matrix says.                *)
PacksAnyway ==
  /\ At("verify", "pack?")
  /\ Goes(To("verdict")) \/ Goes(LoadsArtifacts(job))
  /\ UNCHANGED <<rag, left, witness>>

GoesOnToPack ==
  /\ At("verify", "pack?")
  /\ Goes(To("verdict")) \/ (job.matrix /\ Goes(LoadsArtifacts(job)))
  /\ UNCHANGED <<rag, left, witness>>

(* The pack is read back if one was made.                                  *)
Packed == job.pack # None /\ Parsed("pack") # None

Claimed ==
  IF Packed /\ disk["pack"].live /\ disk["pack"].claim THEN "live"
  ELSE IF job.matrix THEN "matrix" ELSE "design"

WritesMatrix ==
  /\ At("verify", "verdict")
  /\ Writes("matrix", Report(Claimed), Idle)
  /\ UNCHANGED <<rag, left, witness>>

-----------------------------------------------------------------------------
Starts(j) ==
  /\ job = Idle /\ left > 0 /\ left' = left - 1
  /\ Goes(j)
  /\ UNCHANGED <<rag, witness>>

From(by, pc) == Starts([Idle EXCEPT !.by = by, !.pc = pc, !.good = TRUE])

StartsPack == Starts(LoadsArtifacts(Idle))

StartsContract ==
  \E other \in BOOLEAN :
    Starts([Idle EXCEPT !.by = "contract", !.pc = "contract", !.other = other])

Steps ==
  \/ StartsPack \/ From("l1", "health") \/ From("strict", "health")
  \/ StartsContract \/ StartsVerify
  \/ PackAsksSource \/ PackAsksCopilot \/ RunsABs \/ WritesPack
  \/ L1AsksHealth \/ ChecksContract \/ SubmitsRed \/ WritesL1
  \/ StrictAsksHealth \/ WritesStrict
  \/ PlaysP1 \/ Approves \/ LooksIntoInbox
  \/ VerifyAsksHealth \/ EndsOffline \/ GoesOnToPack \/ WritesMatrix

SecondTerminal ==
  \/ RunsPartsAB \/ RunsAclMatrix \/ RunsGateEval \/ RunsDrill
  \/ ScoresReports \/ WritesScorecard \/ RunsSnapshot \/ Deletes

(* The world: the stub keeps its inbox in memory.                          *)
SourceTurns ==
  /\ \/ rag' = [rag EXCEPT !.up = ~@, !.inbox = @ /\ rag.src.kind # "stub"]
     \/ job = Idle /\ \E src \in Sources : rag' = [src |-> src, up |-> TRUE, inbox |-> FALSE]
  /\ UNCHANGED <<head, cop, disk, marks, job, left, witness>>

CopilotTurns ==
  /\ cop' \in Modes
  /\ UNCHANGED <<head, rag, disk, marks, job, left, witness>>

ChecksOut ==
  /\ job = Idle /\ score = None /\ head' \in Commits
  /\ UNCHANGED <<rag, cop, disk, marks, job, left, witness>>

Interrupted ==
  /\ \/ job # Idle /\ job' = Idle /\ UNCHANGED score
     \/ score # None /\ score' = None /\ UNCHANGED job
  /\ UNCHANGED <<head, rag, cop, disk, newer, missed, left, witness>>

Next ==
  \/ Steps /\ UNCHANGED <<head, cop>>
  \/ SecondTerminal
  \/ SourceTurns \/ CopilotTurns \/ ChecksOut \/ Interrupted

Spec == Init /\ [][Next]_vars

-----------------------------------------------------------------------------
TypeOK ==
  /\ head \in Commits /\ cop \in Modes
  /\ rag \in [src : Sources, up : BOOLEAN, inbox : BOOLEAN]
  /\ DOMAIN disk = Files /\ newer \subseteq Tracked /\ left \in 0..MaxScripts
  /\ missed \in BOOLEAN /\ (score = None \/ score \in [all_ok : BOOLEAN, raced : BOOLEAN])
  /\ job.by \in {"none", "pack", "l1", "strict", "contract", "verify"}
  /\ job.by = "pack" => job.pack.tier \in {"artifacts", "L1", "L2"}
  /\ job = Idle \/ job.pc # "idle"

(* evidence_tier.py:6: live_verified is for a real source, and l1_verified *)
(* for a closed loop, whatever went away or was restarted on the way: the  *)
(* ticket of that very build is known to have reached the inbox.           *)
ClaimsAreEarned ==
  /\ Parsed("pack") # None =>
       /\ disk["pack"].live => witness.kind = "rag" /\ witness.filed
       /\ disk["pack"].l1 => witness.filed
  /\ IsGreen("l1") => witness.l1

(* evidence_tier.py:8: a pack that was not sampled to its end on the spot, *)
(* for whatever reason, claims nothing, also if a tier was found.          *)
SnapshotClaimsNothing ==
  Parsed("pack") # None /\ disk["pack"].mode = "from_artifacts" =>
    /\ disk["pack"].tier = "artifacts"
    /\ ~disk["pack"].live /\ ~disk["pack"].l1 /\ ~disk["pack"].claim

(* governance_scorecard.py:440: a scorecard of this commit that is not     *)
(* called stale says what a new one would say, whichever script wrote, or  *)
(* cut, a file before it or after it; unless one was written while it was  *)
(* being made, twice within the tolerance of line 450, or deleted.         *)
ScorecardIsCurrent ==
  Parsed("card") # None /\ disk["card"].git_sha = head /\ ~IsStale /\ ~missed =>
    disk["card"].all_ok = CardVerdict

(* run_joint_verify.py:13: it advises to claim live only after a run whose *)
(* source on :8001 is real and demands the token, wherever --rag-base led  *)
(* it, with a commit that passes V3 and, unless the report says that it was*)
(* skipped, the allowlist.                                                 *)
LiveClaimIsBacked ==
  Parsed("matrix") # None /\ disk["matrix"].claim = "live" =>
    /\ disk["matrix"].src.kind = "rag" /\ disk["matrix"].src.gate
    /\ {"degrade", "env"} \subseteq Works[disk["matrix"].code]
    /\ disk["matrix"].checked => "align" \in Works[disk["matrix"].code]

=============================================================================
