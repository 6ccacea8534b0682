-------------------------- MODULE EvidencePack_proofs --------------------------
(***************************************************************************)
(* What the evidence files claim, for any commits, sources, checkouts and  *)
(* number of scripts: TypeOK, ClaimsAreEarned, SnapshotClaimsNothing,      *)
(* ScorecardIsCurrent and LiveClaimIsBacked.  They stand on EvidenceInv,   *)
(* which says besides what a script at work knows at each of its places.   *)
(***************************************************************************)
EXTENDS EvidencePack, TLAPS

Jobs ==
  [by : {"none", "pack", "l1", "strict", "contract", "verify"},
   pc : {"idle", "health", "cop", "p1", "approve", "inbox", "ab", "write", "contract", "red",
         "pack?", "verdict"},
   outer : BOOLEAN, matrix : BOOLEAN, checked : BOOLEAN, other : BOOLEAN, good : BOOLEAN,
   pack : Packs \cup {None}, filed : BOOLEAN]

(* The places of each script.                                              *)
Placed(j) ==
  \/ j = Idle
  \/ j.by = "pack" /\ j.pc \in {"health", "cop", "p1", "approve", "inbox", "ab", "write"}
  \/ /\ j.by = "l1"
     /\ j.pc \in {"health", "contract", "red", "p1", "approve", "inbox", "write"}
  \/ j.by = "strict" /\ j.pc \in {"health", "red", "p1", "approve", "inbox", "write"}
  \/ j.by = "contract" /\ j.pc = "contract"
  \/ j.by = "verify" /\ j.pc \in {"health", "contract", "pack?", "verdict"}

(* The pack being built: once it goes on to sample, its tier is the one of *)
(* the source that answers; what it owns was filed; what it verified, it   *)
(* owns and has sampled live.                                              *)
PackIsSound(p, pc, filed, src) ==
  /\ p \in Packs
  /\ pc \in {"health", "cop"} => p.mode = "from_artifacts"
  /\ pc = "health" => ~p.version
  /\ pc = "cop" /\ p.version => p.tier = TierOf(src)
  /\ pc \in {"p1", "approve", "inbox", "ab"} => p.tier = TierOf(src)
  /\ p.mode = "live" => p.tier = TierOf(src)
  /\ p.owned = "yes" => filed /\ pc \in {"ab", "write"}
  /\ p.live \/ p.l1 => p.mode = "live" /\ p.owned = "yes"

(* The ticket in the inbox of the source is the one of this approval; an   *)
(* L1 report that says yes has seen it.                                    *)
LoopIsSound(j, inbox) ==
  /\ j.pc = "inbox" /\ inbox => j.filed
  /\ j.by = "l1" /\ j.pc = "write" /\ j.good => j.filed

(* The joint verification behind a script goes on as it was.               *)
SameRun(j, k) == k.outer = j.outer /\ k.matrix = j.matrix /\ k.checked = j.checked

(* What a live claim says of the commit.                                   *)
Backed(checked, commit) ==
  /\ {"degrade", "env"} \subseteq Works[commit]
  /\ checked => "align" \in Works[commit]

(* A green matrix has seen V3 hold, and the allowlist if it was to be      *)
(* checked; V1 goes on only where it meets the token gate of the source on *)
(* :8001, and a matrix still green after it has met it.  Only a green one  *)
(* has a pack made, which, when it is read back, is of the source still    *)
(* there.                                                                  *)
MatrixIsSound(j, src, commit, kind) ==
  /\ j.by = "verify" => j.outer
  /\ j.outer /\ j.matrix => Backed(j.checked, commit)
  /\ j.by = "strict" /\ j.pc # "health" => src.gate
  /\ j.outer /\ j.matrix /\ (j.by = "pack" \/ j.pc \in {"pack?", "verdict"}) => src.gate
  /\ j.outer /\ (j.by = "pack" \/ j.pack # None) => j.matrix
  /\ j.outer /\ j.pack # None => j.by = "pack" \/ j.pc = "verdict"
  /\ j.by = "verify" /\ j.pc = "verdict" /\ j.pack # None => kind = src.kind

Sound(j, src, inbox, commit, kind) ==
  /\ j \in Jobs /\ Placed(j)
  /\ j.by = "pack" => PackIsSound(j.pack, j.pc, j.filed, src)
  /\ LoopIsSound(j, inbox)
  /\ MatrixIsSound(j, src, commit, kind)

(* What the files say at which the scorecard's own checks do not look.     *)
ReportsHold == GoldsetHeld /\ LeakFree /\ PartsGateHeld /\ PoliciesCovered /\ ContractHeld

(* A scorecard that is not called stale, and of which no write was missed, *)
(* says what a new one would say of the commit it names, whether or not    *)
(* that one is checked out now: another checkout in between, and back,     *)
(* changes nothing.                                                        *)
CardIsSound ==
  Parsed("card") # None /\ newer = {} /\ ~missed =>
    disk["card"].all_ok = (ReportsHold /\ "degrade" \in Works[disk["card"].git_sha])

(* A scorecard in the making says what the files do, unless one was written*)
(* after the metrics were taken.                                           *)
ScoreIsSound ==
  score # None /\ ~score.raced => score.all_ok = (ReportsHold /\ "degrade" \in Works[head])

(* What the files claim.                                                   *)
FilesAreSound ==
  ClaimsAreEarned /\ SnapshotClaimsNothing /\ CardIsSound /\ ScoreIsSound /\ LiveClaimIsBacked

Marked ==
  /\ newer \subseteq Tracked /\ missed \in BOOLEAN
  /\ score = None \/ score \in [all_ok : BOOLEAN, raced : BOOLEAN]

Basics ==
  /\ head \in Commits /\ cop \in Modes
  /\ rag \in [src : Sources, up : BOOLEAN, inbox : BOOLEAN]
  /\ DOMAIN disk = Files /\ Marked /\ left \in 0 .. MaxScripts
  /\ witness \in [kind : {"rag", "stub"}, filed : BOOLEAN, l1 : BOOLEAN]

WorkIsSound == Sound(job, rag.src, rag.inbox, head, witness.kind)

EvidenceInv == Basics /\ WorkIsSound /\ FilesAreSound

-----------------------------------------------------------------------------
(* What becomes of a pack.                                                 *)

(* Nothing a pack owns is touched by the tier rules, and nothing is made   *)
(* verified by them: only a live pack of L2 stays so.                      *)
LEMMA EnforcedFacts ==
  ASSUME NEW p \in Packs
  PROVE  /\ Enforced(p) \in Packs
         /\ Enforced(p).mode = p.mode /\ Enforced(p).l1 = p.l1 /\ Enforced(p).owned = p.owned
         /\ Enforced(p).version = p.version
         /\ Enforced(p).live => p.live /\ p.mode = "live" /\ p.tier = "L2"
         /\ p.mode = "live" => Enforced(p).tier = p.tier
         /\ p.mode = "from_artifacts" =>
              Enforced(p).tier = "artifacts" /\ ~Enforced(p).live /\ ~Enforced(p).claim
<1>1. p.mode \in {"from_artifacts", "live"} /\ p.tier \in {"artifacts", "L1", "L2"}
  BY DEF Packs
<1>2. CASE p.mode = "from_artifacts" \/ p.tier = "artifacts"
  <2>1. Enforced(p) = [p EXCEPT !.tier = "artifacts", !.live = FALSE, !.claim = FALSE]
    BY <1>2 DEF Enforced
  <2> QED BY <1>1, <1>2, <2>1 DEF Packs
<1>3. CASE p.mode = "live" /\ p.tier = "L1"
  <2>1. Enforced(p) = [p EXCEPT !.live = FALSE, !.claim = p.l1]
    BY <1>3 DEF Enforced
  <2> QED BY <1>1, <1>3, <2>1 DEF Packs
<1>4. CASE p.mode = "live" /\ p.tier = "L2"
  <2>1. Enforced(p) = p
    BY <1>4 DEF Enforced
  <2> QED BY <1>1, <1>4, <2>1
<1> QED BY <1>1, <1>2, <1>3, <1>4

(* The required checks decide about a claim, and about nothing else.       *)
LEMMA SynergizedFacts ==
  ASSUME NEW p \in Packs
  PROVE  /\ Synergized(p) \in Packs
         /\ Synergized(p).mode = p.mode /\ Synergized(p).tier = p.tier
         /\ Synergized(p).live = p.live /\ Synergized(p).l1 = p.l1
         /\ Synergized(p).owned = p.owned
<1> DEFINE q == [p EXCEPT !.required_ok = RequiredOk(p)]
<1>1. RequiredOk(p) \in BOOLEAN
  BY DEF RequiredOk
<1>2. /\ q \in Packs /\ q.mode = p.mode /\ q.tier = p.tier /\ q.live = p.live /\ q.l1 = p.l1
      /\ q.owned = p.owned /\ q.required_ok \in BOOLEAN
  BY <1>1 DEF Packs
<1>3. \/ Synergized(p) = [q EXCEPT !.claim = q.required_ok]
      \/ Synergized(p) = [q EXCEPT !.claim = FALSE]
      \/ Synergized(p) = q
  BY DEF Synergized
<1> HIDE DEF q
<1>4. ASSUME NEW c \in BOOLEAN
      PROVE  /\ [q EXCEPT !.claim = c] \in Packs
             /\ [q EXCEPT !.claim = c].mode = q.mode /\ [q EXCEPT !.claim = c].tier = q.tier
             /\ [q EXCEPT !.claim = c].live = q.live /\ [q EXCEPT !.claim = c].l1 = q.l1
             /\ [q EXCEPT !.claim = c].owned = q.owned
  BY <1>2 DEF Packs
<1>5. CASE \E c \in BOOLEAN : Synergized(p) = [q EXCEPT !.claim = c]
  BY <1>2, <1>4, <1>5
<1>6. CASE Synergized(p) = q
  BY <1>2, <1>6
<1> QED BY <1>2, <1>3, <1>5, <1>6

(* What is published of a pack.                                            *)
LEMMA PublishedFacts ==
  ASSUME NEW p \in Packs
  PROVE  /\ Published(p) \in Packs
         /\ Published(p).mode = p.mode /\ Published(p).l1 = p.l1
         /\ Published(p).live => p.live /\ p.mode = "live" /\ p.tier = "L2"
         /\ p.mode = "from_artifacts" =>
              Published(p).tier = "artifacts" /\ ~Published(p).live /\ ~Published(p).claim
<1> DEFINE q == Synergized(p)
<1>1. /\ q \in Packs /\ q.mode = p.mode /\ q.tier = p.tier /\ q.live = p.live /\ q.l1 = p.l1
  BY SynergizedFacts
<1>2. Published(p) = Enforced(q)
  BY DEF Published
<1> HIDE DEF q
<1> QED BY <1>1, <1>2, EnforcedFacts

(* The verdict verifies only a pack whose ticket is its own.               *)
LEMMA VerdictFacts ==
  ASSUME NEW p \in Packs
  PROVE  /\ Verdict(p) \in Packs
         /\ Verdict(p).mode = p.mode /\ Verdict(p).tier = p.tier /\ Verdict(p).owned = p.owned
         /\ Verdict(p).live \/ Verdict(p).l1 => p.live \/ p.l1 \/ p.owned = "yes"
<1>1. CASE p.tier = "L1"
  <2>1. Verdict(p) = [p EXCEPT !.l1 = p.sample /\ p.owned = "yes",
                               !.claim = p.sample /\ p.owned = "yes" /\ p.offline]
    BY <1>1 DEF Verdict
  <2> QED BY <2>1 DEF Packs
<1>2. CASE p.tier # "L1"
  <2>1. Verdict(p) =
          [p EXCEPT !.claim = p.sample /\ p.offline,
                    !.live = p.sample /\ p.offline /\ p.live_ab /\ p.owned = "yes"]
    BY <1>2 DEF Verdict
  <2> QED BY <2>1 DEF Packs
<1> QED BY <1>1, <1>2

(* A source has a tier, and L2 only if it is no stub.                      *)
LEMMA TierFacts ==
  ASSUME NEW src \in Sources
  PROVE  /\ TierOf(src) \in {"L1", "L2"} /\ src.kind \in {"rag", "stub"}
         /\ src.gate \in BOOLEAN /\ src.lanes \in BOOLEAN
         /\ TierOf(src) = "L2" => src.kind = "rag"
BY SourcesAssumption DEF TierOf

(* A snapshot before it is published.                                      *)
LEMMA EmptyFacts ==
  ASSUME NEW offline \in BOOLEAN
  PROVE  LET p == [EmptyPack EXCEPT !.offline = offline]
         IN  /\ p \in Packs /\ p.mode = "from_artifacts" /\ p.tier = "artifacts"
             /\ ~p.live /\ ~p.l1 /\ ~p.version /\ p.owned = "none"
BY DEF EmptyPack, Packs

-----------------------------------------------------------------------------
(* What becomes of the files.                                              *)

(* One file is written, or cut, the others are not.                        *)
Rewritten(f) ==
  DOMAIN disk' = Files /\ (\A g \in Files \ {f} : disk'[g] = disk[g]) /\ Touched(f)

(* What a write leaves of the mtimes, and of a scorecard in the making.    *)
LEMMA TouchedFacts ==
  ASSUME NEW f, Touched(f)
  PROVE  /\ Marked => Marked'
         /\ f \in Tracked => newer' # {} \/ missed'
         /\ f \notin Tracked => UNCHANGED marks
         /\ Marked /\ f \in Tracked => score' = None \/ score'.raced
<1>1. Marked => Marked'
  BY DEF Touched, Marked
<1>2. f \in Tracked => newer' # {} \/ missed'
  BY DEF Touched
<1>3. f \notin Tracked => UNCHANGED marks
  BY DEF Touched, marks
<1>4. Marked /\ f \in Tracked => score' = None \/ score'.raced
  BY DEF Touched, Marked
<1> QED BY <1>1, <1>2, <1>3, <1>4

(* A script writes its file and goes on, or is cut off.                    *)
LEMMA WritesFacts ==
  ASSUME NEW f \in Files, NEW content, NEW j, DOMAIN disk = Files, Writes(f, content, j)
  PROVE  /\ Rewritten(f)
         /\ \/ disk'[f] = content /\ job' = j
            \/ disk'[f] = Torn /\ job' = Idle
<1>1. Touched(f)
  BY DEF Writes
<1>2. CASE disk' = [disk EXCEPT ![f] = content] /\ job' = j
  BY <1>1, <1>2 DEF Rewritten
<1>3. CASE disk' = [disk EXCEPT ![f] = Torn] /\ job' = Idle
  BY <1>1, <1>3 DEF Rewritten
<1> QED BY <1>2, <1>3 DEF Writes

(* The second terminal writes its file, or is cut off.                     *)
LEMMA RunsFacts ==
  ASSUME NEW f \in Files, NEW content, DOMAIN disk = Files, Runs(f, content)
  PROVE  Rewritten(f) /\ disk'[f] \in {content, Torn}
BY DEF Runs, Rewritten

(* The reports the scorecard reads are what they were.                     *)
LEMMA SameReports ==
  ASSUME \A g \in Tracked : disk'[g] = disk[g]
  PROVE  ReportsHold' = ReportsHold
<1>1. /\ \A g \in Tracked : (Parsed(g))' = Parsed(g)
      /\ \A g \in Tracked : (IsGreen(g))' = IsGreen(g)
  BY DEF Parsed, IsGreen
<1>2. {"parts", "contract", "pack", "drill", "gate", "func"} \subseteq Tracked
  BY DEF Tracked
<1>3. /\ GoldsetHeld' = GoldsetHeld
      /\ PoliciesCovered' = PoliciesCovered
  BY <1>1, <1>2 DEF GoldsetHeld, PoliciesCovered
<1>4. LeakFree' = LeakFree
  BY <1>1, <1>2 DEF LeakFree
<1>5. PartsGateHeld' = PartsGateHeld
  BY <1>1, <1>2 DEF PartsGateHeld
<1>6. ContractHeld' = ContractHeld
  BY <1>1, <1>2 DEF ContractHeld
<1> QED BY <1>3, <1>4, <1>5, <1>6 DEF ReportsHold

(* A scorecard survives what is written after it, and one in the making    *)
(* what is written meanwhile: it is noted, or the file was none it looks   *)
(* at.                                                                     *)
LEMMA CardSurvives ==
  ASSUME CardIsSound, ScoreIsSound, Marked, NEW f \in Files \ {"card"}, Rewritten(f),
         UNCHANGED head
  PROVE  CardIsSound' /\ ScoreIsSound'
<1>1. CASE f \in Tracked
  BY <1>1, TouchedFacts DEF Rewritten, CardIsSound, ScoreIsSound
<1>2. CASE f \notin Tracked
  <2>1. \A g \in Tracked : disk'[g] = disk[g]
    BY <1>2 DEF Rewritten, Tracked, Files
  <2>2. UNCHANGED marks /\ disk'["card"] = disk["card"]
    BY <1>2, TouchedFacts DEF Rewritten, Files
  <2>3. ReportsHold' = ReportsHold
    BY <2>1, SameReports
  <2>4. (Parsed("card"))' = Parsed("card")
    BY <2>2 DEF Parsed
  <2>5. CardIsSound'
    BY <2>2, <2>3, <2>4 DEF CardIsSound, marks
  <2>6. ScoreIsSound'
    BY <2>2, <2>3 DEF ScoreIsSound, marks
  <2> QED BY <2>5, <2>6
<1> QED BY <1>1, <1>2

(* No file is written, and none was missed; what the scorecard in the      *)
(* making says, or whether there is one, is another matter.                *)
LEMMA SameFiles ==
  ASSUME FilesAreSound, UNCHANGED <<disk, newer, missed, witness>>, ScoreIsSound'
  PROVE  FilesAreSound'
<1>1. CardIsSound'
  <2>1. ReportsHold' = ReportsHold
    BY SameReports
  <2> QED BY <2>1 DEF FilesAreSound, CardIsSound, Parsed
<1>2. ClaimsAreEarned'
  BY DEF FilesAreSound, ClaimsAreEarned, Parsed, IsGreen
<1>3. SnapshotClaimsNothing' /\ LiveClaimIsBacked'
  BY DEF FilesAreSound, SnapshotClaimsNothing, LiveClaimIsBacked, Parsed
<1> QED BY <1>1, <1>2, <1>3 DEF FilesAreSound

(* Nothing is written.                                                     *)
LEMMA QuietFiles ==
  ASSUME FilesAreSound, UNCHANGED <<head, disk, marks, witness>>
  PROVE  FilesAreSound'
<1>1. ReportsHold' = ReportsHold
  BY SameReports
<1>2. ScoreIsSound'
  BY <1>1 DEF FilesAreSound, ScoreIsSound, marks
<1> QED BY <1>2, SameFiles DEF marks

(* A file is written that claims nothing itself.                           *)
LEMMA OtherFile ==
  ASSUME FilesAreSound, Marked, NEW f \in Files \ {"card", "pack", "l1", "matrix"},
         Rewritten(f), UNCHANGED <<head, witness>>
  PROVE  FilesAreSound'
<1>1. CardIsSound' /\ ScoreIsSound'
  BY CardSurvives DEF FilesAreSound
<1>2. disk'["pack"] = disk["pack"] /\ disk'["l1"] = disk["l1"] /\ disk'["matrix"] = disk["matrix"]
  BY DEF Rewritten, Files
<1>3. ClaimsAreEarned'
  BY <1>2 DEF FilesAreSound, ClaimsAreEarned, Parsed, IsGreen
<1>4. SnapshotClaimsNothing' /\ LiveClaimIsBacked'
  BY <1>2 DEF FilesAreSound, SnapshotClaimsNothing, LiveClaimIsBacked, Parsed
<1> QED BY <1>1, <1>3, <1>4 DEF FilesAreSound

(* A pack is published: what it claims has to be behind it.                *)
LEMMA PackIsPublished ==
  ASSUME FilesAreSound, Marked, NEW p \in Packs, Rewritten("pack"), disk'["pack"] \in {p, Torn},
         UNCHANGED head, witness'.l1 = witness.l1,
         p.live => witness'.kind = "rag" /\ witness'.filed,
         p.l1 => witness'.filed,
         p.mode = "from_artifacts" => p.tier = "artifacts" /\ ~p.live /\ ~p.l1 /\ ~p.claim
  PROVE  FilesAreSound'
<1>1. CardIsSound' /\ ScoreIsSound'
  BY CardSurvives DEF FilesAreSound, Files
<1>2. disk'["l1"] = disk["l1"] /\ disk'["matrix"] = disk["matrix"]
  BY DEF Rewritten, Files
<1>3. (Parsed("pack"))' # None => disk'["pack"] = p
  BY DEF Parsed
<1>4. ClaimsAreEarned'
  BY <1>2, <1>3 DEF FilesAreSound, ClaimsAreEarned, IsGreen, Parsed
<1>5. SnapshotClaimsNothing'
  BY <1>3 DEF SnapshotClaimsNothing
<1>6. LiveClaimIsBacked'
  BY <1>2 DEF FilesAreSound, LiveClaimIsBacked, Parsed
<1> QED BY <1>1, <1>4, <1>5, <1>6 DEF FilesAreSound

-----------------------------------------------------------------------------
(* What becomes of a script at work.                                       *)

(* No script is at work.                                                   *)
LEMMA IdleIsSound ==
  ASSUME NEW src, NEW inbox, NEW commit, NEW kind
  PROVE  Sound(Idle, src, inbox, commit, kind)
<1>1. /\ Idle \in Jobs /\ Idle.by = "none" /\ Idle.pc = "idle" /\ ~Idle.outer /\ ~Idle.matrix
      /\ ~Idle.good /\ Idle.pack = None
  BY DEF Idle, Jobs
<1> QED BY <1>1 DEF Sound, Placed, LoopIsSound, MatrixIsSound

(* The source goes away and comes back, the stub without its inbox.        *)
LEMMA InboxIsLost ==
  ASSUME NEW j, NEW src, NEW inbox, NEW commit, NEW kind, NEW after,
         Sound(j, src, inbox, commit, kind), after => inbox
  PROVE  Sound(j, src, after, commit, kind)
BY DEF Sound, LoopIsSound

(* The script that builds the pack goes on.                                *)
LEMMA PackMoves ==
  ASSUME NEW j, NEW k \in Jobs, NEW src, NEW inbox, NEW after, NEW commit, NEW kind,
         Sound(j, src, inbox, commit, kind), j.by = "pack", k.by = "pack",
         k.pc \in {"cop", "p1", "approve", "inbox", "ab", "write"}, SameRun(j, k),
         k.pc = "inbox" /\ after => k.filed,
         PackIsSound(k.pack, k.pc, k.filed, src)
  PROVE  Sound(k, src, after, commit, kind)
<1>1. MatrixIsSound(k, src, commit, kind)
  BY DEF Sound, MatrixIsSound, SameRun
<1>2. Placed(k) /\ LoopIsSound(k, after)
  BY DEF Placed, LoopIsSound
<1> QED BY <1>1, <1>2 DEF Sound

(* The scripts of L1 and of strict submission go on; they build no pack.   *)
LEMMA OthersMove ==
  ASSUME NEW j, NEW k \in Jobs, NEW src, NEW inbox, NEW after, NEW commit, NEW kind,
         Sound(j, src, inbox, commit, kind), j.by \in {"l1", "strict"}, k.by = j.by,
         k.pc \in {"contract", "red", "p1", "approve", "inbox", "write"},
         k.pc = "contract" => k.by = "l1",
         SameRun(j, k), k.pack \in {None, j.pack},
         k.by = "strict" /\ j.pc = "health" => src.gate,
         k.pc = "inbox" /\ after => k.filed,
         k.by = "l1" /\ k.pc = "write" /\ k.good => k.filed
  PROVE  Sound(k, src, after, commit, kind)
<1>1. j.outer => j.pack = None
  <2>1. Idle.by = "none"
    BY DEF Idle
  <2>2. j.pc # "verdict" /\ j.by # "pack"
    BY <2>1 DEF Sound, Placed
  <2> QED BY <2>2 DEF Sound, MatrixIsSound
<1>2. MatrixIsSound(k, src, commit, kind)
  BY <1>1 DEF Sound, MatrixIsSound, SameRun
<1>3. Placed(k) /\ LoopIsSound(k, after)
  BY DEF Placed, LoopIsSound
<1> QED BY <1>2, <1>3 DEF Sound

(* What is left of a pack under the tier rules can be written.             *)
LEMMA EnforcedIsSound ==
  ASSUME NEW p, NEW pc, NEW filed, NEW src, PackIsSound(p, pc, filed, src)
  PROVE  PackIsSound(Enforced(p), "write", filed, src)
BY EnforcedFacts DEF PackIsSound

(* A step that writes no file.                                             *)
LEMMA QuietStep ==
  ASSUME EvidenceInv, UNCHANGED <<head, disk, marks, witness>>, Basics', WorkIsSound'
  PROVE  EvidenceInv'
BY QuietFiles DEF EvidenceInv

-----------------------------------------------------------------------------
(* The script that builds the pack.                                        *)

(* What is known while it works.                                           *)
LEMMA PackFacts ==
  ASSUME EvidenceInv, job.by = "pack"
  PROVE  /\ job \in Jobs /\ job # Idle /\ rag.src \in Sources
         /\ PackIsSound(job.pack, job.pc, job.filed, rag.src)
         /\ job.pc = "inbox" /\ rag.inbox => job.filed
BY DEF EvidenceInv, Basics, WorkIsSound, Sound, LoopIsSound, Idle

(* A step after which it goes on with another pack, at another place.      *)
LEMMA PackStep ==
  ASSUME EvidenceInv, job.by = "pack", UNCHANGED <<head, cop, disk, marks, left, witness>>,
         rag' \in [src : Sources, up : BOOLEAN, inbox : BOOLEAN], rag'.src = rag.src,
         job' \in Jobs, job'.by = "pack", SameRun(job, job'),
         job'.pc \in {"cop", "p1", "approve", "inbox", "ab", "write"},
         job'.pc = "inbox" /\ rag'.inbox => job'.filed,
         PackIsSound(job'.pack, job'.pc, job'.filed, rag.src)
  PROVE  EvidenceInv'
<1>1. WorkIsSound'
  BY PackMoves DEF EvidenceInv, WorkIsSound
<1>2. Basics'
  BY DEF EvidenceInv, Basics, Marked, marks
<1> QED BY <1>1, <1>2, QuietStep

(* It goes on to write what it has, as a snapshot or as it is.             *)
LEMMA GoesOnToWrite ==
  ASSUME EvidenceInv, job.by = "pack", UNCHANGED <<head, cop, disk, marks, left, witness, rag>>,
         NEW p, PackIsSound(p, job.pc, job.filed, rag.src),
         job' = [To("write") EXCEPT !.pack = Enforced(p)]
  PROVE  EvidenceInv'
<1>1. job \in Jobs /\ p \in Packs /\ Enforced(p) \in Packs
  BY PackFacts, EnforcedFacts DEF PackIsSound
<1>2. PackIsSound(Enforced(p), "write", job.filed, rag.src)
  BY EnforcedIsSound
<1> DEFINE q == Enforced(p)
<1> HIDE DEF q
<1>3. job' = [To("write") EXCEPT !.pack = q]
  BY DEF q
<1>4. /\ job' \in Jobs /\ job'.by = "pack" /\ job'.pc = "write" /\ SameRun(job, job')
      /\ job'.pack = q /\ job'.filed = job.filed
  BY <1>1, <1>3 DEF To, Jobs, SameRun, q
<1>5. rag' \in [src : Sources, up : BOOLEAN, inbox : BOOLEAN]
  BY DEF EvidenceInv, Basics
<1> QED BY <1>2, <1>4, <1>5, PackStep DEF q

(* The health of the source is asked for.                                  *)
LEMMA PackAsksSourceIsSound ==
  ASSUME EvidenceInv, PackAsksSource, UNCHANGED <<head, cop>>
  PROVE  EvidenceInv'
<1>1. job.by = "pack" /\ job.pc = "health" /\ UNCHANGED <<rag, left, witness>>
  BY DEF PackAsksSource, At
<1>2. /\ job \in Jobs /\ rag.src \in Sources /\ TierOf(rag.src) \in {"L1", "L2"}
      /\ PackIsSound(job.pack, "health", job.filed, rag.src)
      /\ rag \in [src : Sources, up : BOOLEAN, inbox : BOOLEAN]
  BY <1>1, PackFacts, TierFacts DEF EvidenceInv, Basics
<1>3. CASE ~rag.up /\ Goes([To("write") EXCEPT !.pack = Enforced(job.pack)])
  BY <1>1, <1>2, <1>3, GoesOnToWrite DEF Goes
<1>4. CASE Goes([To("cop") EXCEPT !.pack.tier = TierOf(rag.src),
                                  !.pack.version = (rag.src.version = "match")])
  <2> DEFINE p == [job.pack EXCEPT !.tier = TierOf(rag.src),
                                   !.version = (rag.src.version = "match")]
  <2>1. /\ p \in Packs /\ p.mode = job.pack.mode /\ p.tier = TierOf(rag.src)
        /\ p.owned = job.pack.owned /\ p.live = job.pack.live /\ p.l1 = job.pack.l1
    BY <1>2 DEF PackIsSound, Packs
  <2>2. /\ job' \in Jobs /\ job'.by = "pack" /\ job'.pc = "cop" /\ SameRun(job, job')
        /\ job'.pack = p /\ job'.filed = job.filed
    BY <1>1, <1>2, <1>4, <2>1 DEF Goes, To, Jobs, SameRun
  <2> HIDE DEF p
  <2>3. PackIsSound(p, "cop", job.filed, rag.src)
    BY <1>2, <2>1 DEF PackIsSound
  <2> QED BY <1>1, <1>2, <1>4, <2>2, <2>3, PackStep DEF Goes
<1>5. CASE Goes([To("cop") EXCEPT !.pack.tier = "L2"])
  <2> DEFINE p == [job.pack EXCEPT !.tier = "L2"]
  <2>1. /\ p \in Packs /\ p.mode = job.pack.mode /\ p.version = job.pack.version
        /\ p.owned = job.pack.owned /\ p.live = job.pack.live /\ p.l1 = job.pack.l1
    BY <1>2 DEF PackIsSound, Packs
  <2>2. /\ job' \in Jobs /\ job'.by = "pack" /\ job'.pc = "cop" /\ SameRun(job, job')
        /\ job'.pack = p /\ job'.filed = job.filed
    BY <1>1, <1>2, <1>5, <2>1 DEF Goes, To, Jobs, SameRun
  <2> HIDE DEF p
  <2>3. PackIsSound(p, "cop", job.filed, rag.src)
    BY <1>2, <2>1 DEF PackIsSound
  <2> QED BY <1>1, <1>2, <1>5, <2>2, <2>3, PackStep DEF Goes
<1> QED BY <1>3, <1>4, <1>5 DEF PackAsksSource

(* The health of the service is asked for: only a version of the source's  *)
(* own saying lets the build go on to its sample.                          *)
LEMMA PackAsksCopilotIsSound ==
  ASSUME EvidenceInv, PackAsksCopilot, UNCHANGED <<head, cop>>
  PROVE  EvidenceInv'
<1>1. job.by = "pack" /\ job.pc = "cop" /\ UNCHANGED <<rag, left, witness>>
  BY DEF PackAsksCopilot, At
<1>2. /\ job \in Jobs /\ PackIsSound(job.pack, "cop", job.filed, rag.src)
      /\ rag \in [src : Sources, up : BOOLEAN, inbox : BOOLEAN]
  BY <1>1, PackFacts DEF EvidenceInv, Basics
<1>3. CASE job.pack.version /\ Goes(To("p1"))
  <2>1. /\ job' \in Jobs /\ job'.by = "pack" /\ job'.pc = "p1" /\ SameRun(job, job')
        /\ job'.pack = job.pack /\ job'.filed = job.filed
    BY <1>1, <1>2, <1>3 DEF Goes, To, Jobs, SameRun
  <2>2. PackIsSound(job.pack, "p1", job.filed, rag.src)
    BY <1>2, <1>3 DEF PackIsSound
  <2> QED BY <1>1, <1>2, <1>3, <2>1, <2>2, PackStep DEF Goes
<1>4. CASE Goes([To("write") EXCEPT !.pack = Enforced(@)])
  <2>1. job' = [To("write") EXCEPT !.pack = Enforced(job.pack)]
    BY <1>1, <1>2, <1>4 DEF Goes, To, Jobs
  <2> QED BY <1>1, <1>2, <1>4, <2>1, GoesOnToWrite DEF Goes
<1>5. CASE Goes([To("write") EXCEPT !.pack = Enforced([@ EXCEPT !.version = FALSE])])
  <2> DEFINE p == [job.pack EXCEPT !.version = FALSE]
  <2>1. /\ p \in Packs /\ p.mode = job.pack.mode /\ p.tier = job.pack.tier
        /\ p.owned = job.pack.owned /\ p.live = job.pack.live /\ p.l1 = job.pack.l1
        /\ ~p.version
    BY <1>2 DEF PackIsSound, Packs
  <2>2. job' = [To("write") EXCEPT !.pack = Enforced(p)]
    BY <1>1, <1>2, <1>5 DEF Goes, To, Jobs
  <2> HIDE DEF p
  <2>3. PackIsSound(p, "cop", job.filed, rag.src)
    BY <1>2, <2>1 DEF PackIsSound
  <2> QED BY <1>1, <1>5, <2>2, <2>3, GoesOnToWrite DEF Goes
<1> QED BY <1>3, <1>4, <1>5 DEF PackAsksCopilot

(* A script ends, or is gone.                                              *)
LEMMA EndsStep ==
  ASSUME Basics', FilesAreSound', job' = Idle
  PROVE  EvidenceInv'
BY IdleIsSound DEF EvidenceInv, WorkIsSound

(* An answer that does not come, and nobody to catch it.                   *)
LEMMA DiesIsSound ==
  ASSUME EvidenceInv, Dies, UNCHANGED <<head, cop, rag, left, witness>>
  PROVE  EvidenceInv'
<1>1. UNCHANGED <<disk, marks>> /\ job' = Idle
  BY DEF Dies, Goes
<1>2. Basics' /\ FilesAreSound'
  BY <1>1, QuietFiles DEF EvidenceInv, Basics, Marked, marks
<1> QED BY <1>1, <1>2, EndsStep

(* What is known while L1 or strict submission is at work.                 *)
LEMMA OthersStep ==
  ASSUME EvidenceInv, job.by \in {"l1", "strict"},
         UNCHANGED <<head, cop, disk, marks, left, witness>>,
         rag' \in [src : Sources, up : BOOLEAN, inbox : BOOLEAN], rag'.src = rag.src,
         job' \in Jobs, job'.by = job.by, SameRun(job, job'),
         job'.pc \in {"contract", "red", "p1", "approve", "inbox", "write"},
         job'.pc = "contract" => job'.by = "l1",
         job'.pack \in {None, job.pack},
         job.by = "strict" /\ job.pc = "health" => rag.src.gate,
         job'.pc = "inbox" /\ rag'.inbox => job'.filed,
         job'.by = "l1" /\ job'.pc = "write" /\ job'.good => job'.filed
  PROVE  EvidenceInv'
<1>1. WorkIsSound'
  BY OthersMove DEF EvidenceInv, WorkIsSound
<1>2. Basics'
  BY DEF EvidenceInv, Basics, Marked, marks
<1> QED BY <1>1, <1>2, QuietStep

(* Who may be where.                                                       *)
LEMMA WhoIsThere ==
  ASSUME EvidenceInv
  PROVE  /\ job \in Jobs
         /\ job.pc \in {"p1", "approve", "inbox"} => job.by \in {"pack", "l1", "strict"}
         /\ job.pc = "red" => job.by \in {"l1", "strict"}
         /\ job.pc = "contract" => job.by \in {"l1", "verify", "contract"}
         /\ job.pc = "inbox" /\ rag.inbox => job.filed
         /\ rag \in [src : Sources, up : BOOLEAN, inbox : BOOLEAN]
<1>1. Idle.pc = "idle"
  BY DEF Idle
<1>2. Placed(job) /\ job \in Jobs /\ LoopIsSound(job, rag.inbox)
  BY DEF EvidenceInv, WorkIsSound, Sound
<1> QED BY <1>1, <1>2 DEF Placed, LoopIsSound, EvidenceInv, Basics

(* The P1 run is played: it waits for the chief, or there is none to wait. *)
LEMMA PlayedIsSound ==
  ASSUME EvidenceInv, job.pc = "p1", NEW run \in {"none", "live", "fixture"}, Goes(Played(run)),
         UNCHANGED <<head, cop, rag, left, witness>>
  PROVE  EvidenceInv'
<1> DEFINE approvable == run # "none" /\ (job.by = "l1" => ShortageSeen)
           sampled == [job.pack EXCEPT !.sample = run = "live" /\ ShortageSeen]
           p == IF job.by # "pack" THEN None ELSE sampled
           pc == IF approvable THEN "approve" ELSE IF job.by = "pack" THEN "ab" ELSE "write"
<1>1. job \in Jobs /\ job.by \in {"pack", "l1", "strict"}
  BY WhoIsThere
<1>2. job' = [[job EXCEPT !.filed = FALSE, !.pack = p] EXCEPT
                !.good = job.good /\ approvable, !.pc = pc]
  BY <1>1 DEF Goes, Played, Jobs
<1>3. job.by = "pack" =>
        /\ sampled \in Packs /\ sampled.mode = job.pack.mode /\ sampled.tier = job.pack.tier
        /\ sampled.owned = job.pack.owned /\ sampled.live = job.pack.live
        /\ sampled.l1 = job.pack.l1
  BY PackFacts DEF PackIsSound, Packs
<1>4. p \in Packs \cup {None} /\ pc \in {"approve", "ab", "write"} /\ approvable \in BOOLEAN
  BY <1>3
<1>5. /\ job.by = "pack" => p = sampled /\ pc \in {"approve", "ab"}
      /\ job.by # "pack" => p = None /\ pc \in {"approve", "write"}
      /\ pc = "write" => ~approvable
  OBVIOUS
<1> HIDE DEF approvable, p, pc
<1>6. /\ job' \in Jobs /\ job'.by = job.by /\ SameRun(job, job')
      /\ job'.pc = pc /\ job'.pack = p /\ job'.filed = FALSE
      /\ job'.good = (job.good /\ approvable)
  <2> DEFINE j == [job EXCEPT !.filed = FALSE, !.pack = p]
  <2>1. /\ j \in Jobs /\ j.by = job.by /\ SameRun(job, j)
        /\ j.good = job.good /\ j.good \in BOOLEAN /\ j.pack = p /\ j.filed = FALSE
    BY <1>1, <1>4 DEF Jobs, SameRun
  <2>2. job' = [j EXCEPT !.good = job.good /\ approvable, !.pc = pc]
    BY <1>2
  <2> HIDE DEF j
  <2> QED BY <1>4, <2>1, <2>2 DEF Jobs, SameRun
<1>7. /\ UNCHANGED <<head, cop, disk, marks, left, witness, rag>>
      /\ rag' \in [src : Sources, up : BOOLEAN, inbox : BOOLEAN]
  BY WhoIsThere DEF Goes
<1>8. CASE job.by = "pack"
  <2>1. PackIsSound(job.pack, "p1", job.filed, rag.src)
    BY <1>8, PackFacts
  <2> HIDE DEF sampled
  <2>2. PackIsSound(p, pc, FALSE, rag.src)
    BY <1>3, <1>5, <1>8, <2>1 DEF PackIsSound
  <2> QED BY <1>5, <1>6, <1>7, <1>8, <2>2, PackStep
<1>9. CASE job.by \in {"l1", "strict"}
  BY <1>5, <1>6, <1>7, <1>9, OthersStep
<1> QED BY <1>1, <1>8, <1>9

(* The service is gone in the middle of the sample.                        *)
LEMMA SampleLostIsSound ==
  ASSUME EvidenceInv, SampleLost, UNCHANGED <<head, cop, rag, left, witness>>
  PROVE  EvidenceInv'
<1>1. CASE job.by = "pack"
  <2> DEFINE p == [job.pack EXCEPT !.sample = FALSE]
  <2>1. job \in Jobs /\ PackIsSound(job.pack, job.pc, job.filed, rag.src)
    BY <1>1, PackFacts
  <2>2. Goes([To("write") EXCEPT !.pack = Enforced([@ EXCEPT !.sample = FALSE])])
    BY <1>1 DEF SampleLost
  <2>3. job' = [To("write") EXCEPT !.pack = Enforced(p)] /\ UNCHANGED <<disk, marks>>
    BY <2>1, <2>2 DEF Goes, To, Jobs, SameRun
  <2>4. /\ p \in Packs /\ p.mode = job.pack.mode /\ p.tier = job.pack.tier
        /\ p.owned = job.pack.owned /\ p.live = job.pack.live /\ p.l1 = job.pack.l1
        /\ p.version = job.pack.version
    BY <2>1 DEF PackIsSound, Packs
  <2> HIDE DEF p
  <2>5. PackIsSound(p, job.pc, job.filed, rag.src)
    BY <2>1, <2>4 DEF PackIsSound
  <2> QED BY <1>1, <2>3, <2>5, GoesOnToWrite
<1>2. CASE job.by # "pack"
  BY <1>2, DiesIsSound DEF SampleLost
<1> QED BY <1>1, <1>2

(* The P1 playbook.                                                        *)
LEMMA PlaysP1IsSound ==
  ASSUME EvidenceInv, PlaysP1, UNCHANGED <<head, cop>>
  PROVE  EvidenceInv'
<1>1. job.pc = "p1" /\ UNCHANGED <<rag, left, witness>>
  BY DEF PlaysP1
<1>2. CASE \E run \in {"none", "live", "fixture"} : Goes(Played(run))
  BY <1>1, <1>2, PlayedIsSound
<1>3. CASE SampleLost
  BY <1>1, <1>3, SampleLostIsSound
<1> QED BY <1>2, <1>3 DEF PlaysP1

(* The chief approves: the ticket reaches the inbox of the source, or not. *)
LEMMA ApprovesIsSound ==
  ASSUME EvidenceInv, Approves, UNCHANGED <<head, cop>>
  PROVE  EvidenceInv'
<1>1. /\ job \in Jobs /\ job.by \in {"pack", "l1", "strict"} /\ job.pc = "approve"
      /\ UNCHANGED <<left, witness>> /\ rag \in [src : Sources, up : BOOLEAN, inbox : BOOLEAN]
  BY WhoIsThere DEF Approves
<1>2. ASSUME NEW filed \in BOOLEAN, filed \/ ~rag'.inbox,
             rag' \in [src : Sources, up : BOOLEAN, inbox : BOOLEAN], rag'.src = rag.src,
             UNCHANGED <<disk, marks>>, job' \in Jobs, job'.by = job.by,
             SameRun(job, job'), job'.pc = "inbox",
             job'.pack = job.pack, job'.filed = filed
      PROVE  EvidenceInv'
  <2>1. CASE job.by = "pack"
    <3>1. PackIsSound(job.pack, "approve", job.filed, rag.src)
      BY <1>1, <2>1, PackFacts
    <3>2. PackIsSound(job.pack, "inbox", filed, rag.src)
      BY <3>1 DEF PackIsSound
    <3> QED BY <1>1, <1>2, <2>1, <3>2, PackStep
  <2>2. CASE job.by \in {"l1", "strict"}
    BY <1>1, <1>2, <2>2, OthersStep
  <2> QED BY <1>1, <2>1, <2>2
<1>3. CASE Goes([To("inbox") EXCEPT !.filed = TRUE]) /\ rag' = [rag EXCEPT !.inbox = TRUE]
  <2>1. /\ UNCHANGED <<disk, marks>> /\ job' \in Jobs /\ job'.by = job.by
        /\ SameRun(job, job') /\ job'.pc = "inbox"
        /\ job'.pack = job.pack /\ job'.filed = TRUE
    BY <1>1, <1>3 DEF Goes, To, Jobs, SameRun
  <2>2. rag' \in [src : Sources, up : BOOLEAN, inbox : BOOLEAN] /\ rag'.src = rag.src
    BY <1>1, <1>3
  <2> QED BY <1>2, <2>1, <2>2
<1>4. CASE Goes(To("inbox")) /\ rag' = [rag EXCEPT !.inbox = FALSE]
  <2>1. /\ UNCHANGED <<disk, marks>> /\ job' \in Jobs /\ job'.by = job.by
        /\ SameRun(job, job') /\ job'.pc = "inbox"
        /\ job'.pack = job.pack /\ job'.filed = job.filed /\ job.filed \in BOOLEAN
    BY <1>1, <1>4 DEF Goes, To, Jobs, SameRun
  <2>2. /\ rag' \in [src : Sources, up : BOOLEAN, inbox : BOOLEAN] /\ rag'.src = rag.src
        /\ ~rag'.inbox
    BY <1>1, <1>4
  <2> QED BY <1>2, <2>1, <2>2
<1>5. CASE Goes([To("inbox") EXCEPT !.good = FALSE]) /\ rag' = [rag EXCEPT !.inbox = FALSE]
  <2>1. /\ UNCHANGED <<disk, marks>> /\ job' \in Jobs /\ job'.by = job.by
        /\ SameRun(job, job') /\ job'.pc = "inbox"
        /\ job'.pack = job.pack /\ job'.filed = job.filed /\ job.filed \in BOOLEAN
    BY <1>1, <1>5 DEF Goes, To, Jobs, SameRun
  <2>2. /\ rag' \in [src : Sources, up : BOOLEAN, inbox : BOOLEAN] /\ rag'.src = rag.src
        /\ ~rag'.inbox
    BY <1>1, <1>5
  <2> QED BY <1>2, <2>1, <2>2
<1>6. CASE SampleLost /\ UNCHANGED rag
  BY <1>1, <1>6, SampleLostIsSound
<1> QED BY <1>3, <1>4, <1>5, <1>6 DEF Approves

(* The inbox of the source is asked whose ticket it holds.                 *)
LEMMA LooksIntoInboxIsSound ==
  ASSUME EvidenceInv, LooksIntoInbox, UNCHANGED <<head, cop>>
  PROVE  EvidenceInv'
<1>1. /\ job \in Jobs /\ job.by \in {"pack", "l1", "strict"} /\ job.pc = "inbox"
      /\ UNCHANGED <<rag, left, witness>>
      /\ rag.inbox => job.filed
      /\ rag' \in [src : Sources, up : BOOLEAN, inbox : BOOLEAN]
  BY WhoIsThere DEF LooksIntoInbox
<1>2. CASE job.by = "strict"
  <2>1. Goes(To("write"))
    BY <1>2 DEF LooksIntoInbox
  <2>2. /\ UNCHANGED <<disk, marks>> /\ job' \in Jobs /\ job'.by = job.by
        /\ SameRun(job, job') /\ job'.pc = "write"
        /\ job'.pack = job.pack
    BY <1>1, <2>1 DEF Goes, To, Jobs, SameRun
  <2> QED BY <1>1, <1>2, <2>2, OthersStep
<1>3. CASE job.by = "l1"
  <2>1. \/ Dies
        \/ Goes([To("write") EXCEPT !.good = @ /\ Found /\ LanesApart])
    BY <1>3 DEF LooksIntoInbox
  <2>2. CASE Goes([To("write") EXCEPT !.good = @ /\ Found /\ LanesApart])
    <3>1. /\ UNCHANGED <<disk, marks>> /\ job' \in Jobs /\ job'.by = job.by
          /\ SameRun(job, job') /\ job'.pc = "write"
          /\ job'.pack = job.pack /\ job'.filed = job.filed
          /\ job'.good => Found
      BY <1>1, <2>2 DEF Goes, To, Jobs, SameRun
    <3>2. job'.good => job'.filed
      BY <1>1, <3>1 DEF Found
    <3> QED BY <1>1, <1>3, <3>1, <3>2, OthersStep
  <2> QED BY <1>1, <2>1, <2>2, DiesIsSound
<1>4. CASE job.by = "pack"
  <2> DEFINE owned == IF Found THEN "yes" ELSE "no"
             p == [job.pack EXCEPT !.owned = owned]
  <2>1. Goes([To("ab") EXCEPT !.pack.owned = owned])
    BY <1>4 DEF LooksIntoInbox
  <2>2. PackIsSound(job.pack, "inbox", job.filed, rag.src)
    BY <1>1, <1>4, PackFacts
  <2>3. owned \in {"yes", "no"} /\ (owned = "yes" => job.filed)
    BY <1>1 DEF Found
  <2> HIDE DEF owned
  <2>4. /\ p \in Packs /\ p.mode = job.pack.mode /\ p.tier = job.pack.tier
        /\ p.owned = owned /\ p.live = job.pack.live /\ p.l1 = job.pack.l1
    BY <2>2, <2>3 DEF PackIsSound, Packs
  <2>5. /\ UNCHANGED <<disk, marks>> /\ job' \in Jobs /\ job'.by = job.by
        /\ SameRun(job, job') /\ job'.pc = "ab"
        /\ job'.pack = p /\ job'.filed = job.filed
    BY <1>1, <2>1, <2>4 DEF Goes, To, Jobs, SameRun
  <2> HIDE DEF p
  <2>6. PackIsSound(p, "ab", job.filed, rag.src)
    BY <2>2, <2>3, <2>4 DEF PackIsSound
  <2> QED BY <1>1, <1>4, <2>5, <2>6, PackStep
<1> QED BY <1>1, <1>2, <1>3, <1>4

(* A pack whose A/B runs are in.                                           *)
LEMMA ABFacts ==
  ASSUME EvidenceInv, At("pack", "ab"), NEW offline \in BOOLEAN, NEW live \in BOOLEAN
  PROVE  /\ Sound(ABRun(offline, live), rag.src, rag.inbox, head, witness.kind)
         /\ ABRun(offline, live) \in Jobs
<1> DEFINE a == [job.pack EXCEPT !.mode = "live", !.offline = offline, !.live_ab = live]
           v == Verdict(a)
           e == Enforced(v)
           k == ABRun(offline, live)
<1>1. /\ job \in Jobs /\ job.by = "pack" /\ job.pc = "ab" /\ TierOf(rag.src) \in {"L1", "L2"}
      /\ PackIsSound(job.pack, "ab", job.filed, rag.src)
  BY PackFacts, TierFacts DEF At
<1>2. /\ a \in Packs /\ a.mode = "live" /\ a.tier = job.pack.tier /\ a.owned = job.pack.owned
      /\ a.live = job.pack.live /\ a.l1 = job.pack.l1
  BY <1>1 DEF PackIsSound, Packs
<1>3. k = [To("write") EXCEPT !.pack = e]
  BY <1>1 DEF ABRun, To, Jobs
<1> HIDE DEF a
<1>4. /\ v \in Packs /\ v.mode = "live" /\ v.tier = a.tier /\ v.owned = a.owned
      /\ v.live \/ v.l1 => a.live \/ a.l1 \/ a.owned = "yes"
  BY <1>2, VerdictFacts
<1> HIDE DEF v
<1>5. PackIsSound(v, "ab", job.filed, rag.src)
  BY <1>1, <1>2, <1>4 DEF PackIsSound
<1>6. PackIsSound(e, "write", job.filed, rag.src) /\ e \in Packs
  BY <1>4, <1>5, EnforcedIsSound, EnforcedFacts
<1> HIDE DEF e
<1>7. /\ k \in Jobs /\ k.by = "pack" /\ k.pc = "write" /\ SameRun(job, k)
      /\ k.pack = e /\ k.filed = job.filed
  BY <1>1, <1>3, <1>6 DEF To, Jobs, SameRun
<1>8. Sound(job, rag.src, rag.inbox, head, witness.kind)
  BY DEF EvidenceInv, WorkIsSound
<1> HIDE DEF k
<1>9. Sound(k, rag.src, rag.inbox, head, witness.kind)
  BY <1>1, <1>6, <1>7, <1>8, PackMoves
<1> QED BY <1>7, <1>9 DEF k

(* A step that writes a file which claims nothing itself.                  *)
LEMMA OtherFileStep ==
  ASSUME EvidenceInv, UNCHANGED <<head, cop, rag, witness>>, left' \in 0 .. MaxScripts,
         NEW f \in Files \ {"card", "pack", "l1", "matrix"}, NEW content, NEW j,
         Writes(f, content, j), Sound(j, rag.src, rag.inbox, head, witness.kind)
  PROVE  EvidenceInv'
<1>1. /\ Rewritten(f)
      /\ job' = j \/ job' = Idle
  BY WritesFacts DEF EvidenceInv, Basics
<1>2. FilesAreSound'
  BY <1>1, OtherFile DEF EvidenceInv, Basics
<1>3. Basics'
  BY <1>1, TouchedFacts DEF EvidenceInv, Basics, Rewritten
<1>4. CASE job' = Idle
  BY <1>2, <1>3, <1>4, EndsStep
<1>5. CASE job' = j
  BY <1>2, <1>3, <1>5 DEF EvidenceInv, WorkIsSound
<1> QED BY <1>1, <1>4, <1>5

(* The A/B runs, the one without the source made anew if it was not green. *)
LEMMA RunsABsIsSound ==
  ASSUME EvidenceInv, RunsABs, UNCHANGED <<head, cop>>
  PROVE  EvidenceInv'
<1>1. /\ At("pack", "ab") /\ job.by = "pack" /\ job.pc = "ab" /\ UNCHANGED <<rag, left, witness>>
      /\ left' \in 0 .. MaxScripts
  BY DEF RunsABs, At, EvidenceInv, Basics
<1>2. LiveAB \subseteq BOOLEAN /\ Right("parts") \in BOOLEAN
  <2>1. ShortageSeen \in BOOLEAN /\ Right("parts") \in BOOLEAN
    BY DEF ShortageSeen, Right
  <2> QED BY <2>1 DEF LiveAB
<1>3. CASE Goes([To("write") EXCEPT !.pack = Enforced([@ EXCEPT !.mode = "live"])])
  <2> DEFINE p == [job.pack EXCEPT !.mode = "live"]
  <2>1. job \in Jobs /\ PackIsSound(job.pack, "ab", job.filed, rag.src)
    BY <1>1, PackFacts
  <2>2. job' = [To("write") EXCEPT !.pack = Enforced(p)] /\ UNCHANGED <<disk, marks>>
    BY <1>3, <2>1 DEF Goes, To, Jobs, SameRun
  <2>3. /\ p \in Packs /\ p.mode = "live" /\ p.tier = job.pack.tier
        /\ p.owned = job.pack.owned /\ p.live = job.pack.live /\ p.l1 = job.pack.l1
    BY <2>1 DEF PackIsSound, Packs
  <2> HIDE DEF p
  <2>4. PackIsSound(p, "ab", job.filed, rag.src)
    BY <2>1, <2>3 DEF PackIsSound
  <2> QED BY <1>1, <2>2, <2>4, GoesOnToWrite
<1>4. CASE \E live \in LiveAB : Goes(ABRun(TRUE, live))
  <2>1. PICK live \in LiveAB : Goes(ABRun(TRUE, live))
    BY <1>4
  <2>2. /\ job' = ABRun(TRUE, live) /\ UNCHANGED <<disk, marks>>
        /\ Sound(ABRun(TRUE, live), rag.src, rag.inbox, head, witness.kind)
    BY <1>1, <1>2, <2>1, ABFacts DEF Goes
  <2>3. WorkIsSound' /\ Basics'
    BY <1>1, <2>2 DEF WorkIsSound, EvidenceInv, Basics, Marked, marks
  <2> QED BY <1>1, <2>2, <2>3, QuietStep
<1>5. CASE \E live \in LiveAB : Writes("parts", Right("parts"), ABRun(Right("parts"), live))
  <2>1. PICK live \in LiveAB : Writes("parts", Right("parts"), ABRun(Right("parts"), live))
    BY <1>5
  <2>2. PICK k : k = ABRun(Right("parts"), live)
    OBVIOUS
  <2>3. PICK content : content = Right("parts")
    OBVIOUS
  <2>4. Sound(k, rag.src, rag.inbox, head, witness.kind)
    BY <1>1, <1>2, <2>2, ABFacts
  <2>5. Writes("parts", content, k)
    BY <2>1, <2>2, <2>3
  <2>6. "parts" \in Files \ {"card", "pack", "l1", "matrix"}
    BY DEF Files
  <2> QED BY <1>1, <2>4, <2>5, <2>6, OtherFileStep
<1> QED BY <1>3, <1>4, <1>5 DEF RunsABs

(* The pack is published.                                                  *)
LEMMA WritesPackIsSound ==
  ASSUME EvidenceInv, WritesPack, UNCHANGED <<head, cop>>
  PROVE  EvidenceInv'
<1>1. /\ job.by = "pack" /\ job.pc = "write" /\ UNCHANGED <<rag, left>>
      /\ job \in Jobs /\ PackIsSound(job.pack, "write", job.filed, rag.src)
      /\ rag.src \in Sources /\ job.pack \in Packs
      /\ MatrixIsSound(job, rag.src, head, witness.kind)
  BY PackFacts DEF WritesPack, At, EvidenceInv, WorkIsSound, Sound, PackIsSound
<1>2. CASE ~Indexed /\ Dies /\ UNCHANGED witness
  BY <1>1, <1>2, DiesIsSound
<1>3. CASE /\ Writes("pack", Published(job.pack),
                     IF job.outer THEN [To("verdict") EXCEPT !.by = "verify"] ELSE Idle)
           /\ witness' = [witness EXCEPT !.kind = rag.src.kind, !.filed = job.filed]
  <2>1. PICK q : q = Published(job.pack)
    OBVIOUS
  <2>2. PICK k : k = IF job.outer THEN [To("verdict") EXCEPT !.by = "verify"] ELSE Idle
    OBVIOUS
  <2>3. "pack" \in Files /\ DOMAIN disk = Files
    BY DEF Files, EvidenceInv, Basics
  <2>4. /\ Rewritten("pack") /\ disk'["pack"] \in {q, Torn}
        /\ job' = k \/ job' = Idle
    <3>1. Writes("pack", q, k)
      BY <1>3, <2>1, <2>2
    <3> QED BY <2>3, <3>1, WritesFacts
  <2>5. /\ witness' \in [kind : {"rag", "stub"}, filed : BOOLEAN, l1 : BOOLEAN]
        /\ witness'.kind = rag.src.kind /\ witness'.filed = job.filed
        /\ witness'.l1 = witness.l1
    BY <1>1, <1>3, TierFacts DEF EvidenceInv, Basics, Jobs
  <2>6. /\ q \in Packs /\ q.mode = job.pack.mode /\ q.l1 = job.pack.l1
        /\ q.live => job.pack.live /\ job.pack.mode = "live" /\ job.pack.tier = "L2"
        /\ q.mode = "from_artifacts" => q.tier = "artifacts" /\ ~q.live /\ ~q.claim
    BY <1>1, <2>1, PublishedFacts
  <2>7. /\ q.live => rag.src.kind = "rag" /\ job.filed
        /\ q.l1 => job.filed
        /\ q.mode = "from_artifacts" => ~q.l1
    BY <1>1, <2>6, TierFacts DEF PackIsSound
  <2>8. FilesAreSound'
    BY <2>4, <2>5, <2>6, <2>7, PackIsPublished DEF EvidenceInv, Basics
  <2>9. Basics'
    BY <1>1, <2>4, <2>5, TouchedFacts DEF EvidenceInv, Basics, Rewritten
  <2>10. CASE job.outer /\ job' = k
    <3>1. /\ k \in Jobs /\ k.by = "verify" /\ k.pc = "verdict" /\ k.outer
          /\ SameRun(job, k)
      BY <1>1, <2>2, <2>10 DEF To, Jobs, SameRun
    <3>2. MatrixIsSound(k, rag.src, head, rag.src.kind)
      BY <1>1, <2>10, <3>1 DEF MatrixIsSound, SameRun
    <3>3. Sound(k, rag.src, rag.inbox, head, rag.src.kind)
      BY <3>1, <3>2 DEF Sound, Placed, LoopIsSound
    <3> QED BY <1>1, <2>5, <2>8, <2>9, <2>10, <3>3 DEF EvidenceInv, WorkIsSound
  <2>11. CASE job' = Idle
    BY <2>8, <2>9, <2>11, EndsStep
  <2> QED BY <2>2, <2>4, <2>10, <2>11
<1> QED BY <1>2, <1>3 DEF WritesPack

-----------------------------------------------------------------------------
(* The scripts of L1, strict submission and the contract.                  *)

(* The L1 script asks for the health of both.                              *)
LEMMA L1AsksHealthIsSound ==
  ASSUME EvidenceInv, L1AsksHealth, UNCHANGED <<head, cop>>
  PROVE  EvidenceInv'
<1>1. /\ job \in Jobs /\ job.by = "l1" /\ UNCHANGED <<rag, left, witness>>
      /\ rag' \in [src : Sources, up : BOOLEAN, inbox : BOOLEAN]
  BY WhoIsThere DEF L1AsksHealth, At
<1>2. CASE Goes(To("contract"))
  <2>1. /\ UNCHANGED <<disk, marks>> /\ job' \in Jobs /\ job'.by = "l1"
        /\ SameRun(job, job') /\ job'.pc = "contract"
        /\ job'.pack = job.pack
    BY <1>1, <1>2 DEF Goes, To, Jobs, SameRun
  <2> QED BY <1>1, <2>1, OthersStep
<1>3. CASE Goes(Refuted)
  <2>1. /\ UNCHANGED <<disk, marks>> /\ job' \in Jobs /\ job'.by = "l1"
        /\ SameRun(job, job') /\ job'.pc = "write"
        /\ job'.pack = job.pack /\ ~job'.good
    BY <1>1, <1>3 DEF Goes, To, Jobs, SameRun, Refuted
  <2> QED BY <1>1, <2>1, OthersStep
<1> QED BY <1>2, <1>3 DEF L1AsksHealth

(* The contract was checked.                                               *)
LEMMA AfterContractIsSound ==
  ASSUME EvidenceInv, job.pc = "contract", NEW ok \in BOOLEAN
  PROVE  Sound(AfterContract(ok), rag.src, rag.inbox, head, witness.kind)
<1>1. /\ job \in Jobs /\ job.by \in {"l1", "verify", "contract"}
      /\ Sound(job, rag.src, rag.inbox, head, witness.kind)
  BY WhoIsThere DEF EvidenceInv, WorkIsSound
<1>2. CASE job.by = "l1"
  <2> DEFINE k == [To("red") EXCEPT !.good = @ /\ ok]
  <2>1. AfterContract(ok) = k
    BY <1>2 DEF AfterContract
  <2>2. /\ k \in Jobs /\ k.by = "l1" /\ k.pc = "red" /\ SameRun(job, k) /\ k.pack = job.pack
    BY <1>1, <1>2 DEF To, Jobs, SameRun
  <2> HIDE DEF k
  <2> QED BY <1>1, <1>2, <2>1, <2>2, OthersMove
<1>3. CASE job.by = "verify"
  <2> DEFINE k == [To("health") EXCEPT !.by = "strict", !.good = TRUE, !.other = FALSE,
                                       !.matrix = @ /\ ok]
  <2>1. AfterContract(ok) = k
    BY <1>3 DEF AfterContract
  <2>2. /\ k \in Jobs /\ k.by = "strict" /\ k.pc = "health" /\ k.outer = job.outer
        /\ k.matrix => job.matrix
        /\ k.checked = job.checked /\ k.pack = job.pack
    BY <1>1, <1>3 DEF To, Jobs, SameRun
  <2> HIDE DEF k
  <2>3. MatrixIsSound(k, rag.src, head, witness.kind)
    BY <1>1, <1>3, <2>2 DEF Sound, MatrixIsSound
  <2> QED BY <2>1, <2>2, <2>3 DEF Sound, Placed, LoopIsSound
<1>4. CASE job.by = "contract"
  BY <1>4, IdleIsSound DEF AfterContract
<1> QED BY <1>1, <1>2, <1>3, <1>4

(* A step after which the script is at work as it should, with no file     *)
(* written.                                                                *)
LEMMA GoesStep ==
  ASSUME EvidenceInv, NEW k, Goes(k), UNCHANGED <<head, cop, rag, witness>>,
         left' \in 0 .. MaxScripts, Sound(k, rag.src, rag.inbox, head, witness.kind)
  PROVE  EvidenceInv'
<1>1. WorkIsSound'
  BY DEF Goes, WorkIsSound
<1>2. Basics'
  BY DEF Goes, EvidenceInv, Basics, Marked, marks
<1> QED BY <1>1, <1>2, QuietStep DEF Goes

(* The contract is checked, and reported unless there was no health.       *)
LEMMA ChecksContractIsSound ==
  ASSUME EvidenceInv, ChecksContract, UNCHANGED <<head, cop>>
  PROVE  EvidenceInv'
<1>1. /\ job.pc = "contract" /\ UNCHANGED <<rag, left, witness>> /\ left' \in 0 .. MaxScripts
      /\ rag.src \in Sources
  BY DEF ChecksContract, EvidenceInv, Basics
<1>2. {job.other \/ LanesApart, FALSE} \subseteq BOOLEAN
  BY <1>1, TierFacts DEF LanesApart
<1>3. CASE Dies
  BY <1>1, <1>3, DiesIsSound
<1>4. CASE \E ok \in {job.other \/ LanesApart, FALSE} : Writes("contract", ok, AfterContract(ok))
  <2>1. PICK ok \in BOOLEAN : Writes("contract", ok, AfterContract(ok))
    BY <1>2, <1>4
  <2>2. PICK k : k = AfterContract(ok)
    OBVIOUS
  <2>3. Sound(k, rag.src, rag.inbox, head, witness.kind)
    BY <1>1, <2>2, AfterContractIsSound
  <2>4. Writes("contract", ok, k) /\ "contract" \in Files \ {"card", "pack", "l1", "matrix"}
    BY <2>1, <2>2 DEF Files
  <2> QED BY <1>1, <2>3, <2>4, OtherFileStep
<1>5. CASE Goes(AfterContract(FALSE))
  <2>1. PICK k : k = AfterContract(FALSE)
    OBVIOUS
  <2>2. Sound(k, rag.src, rag.inbox, head, witness.kind)
    BY <1>1, <2>1, AfterContractIsSound
  <2> QED BY <1>1, <1>5, <2>1, <2>2, GoesStep
<1> QED BY <1>3, <1>4, <1>5 DEF ChecksContract

(* A submission without the token.                                         *)
LEMMA SubmitsRedIsSound ==
  ASSUME EvidenceInv, SubmitsRed, UNCHANGED <<head, cop>>
  PROVE  EvidenceInv'
<1>1. /\ job \in Jobs /\ job.by \in {"l1", "strict"} /\ job.pc = "red"
      /\ UNCHANGED <<rag, left, witness>>
      /\ rag' \in [src : Sources, up : BOOLEAN, inbox : BOOLEAN]
  BY WhoIsThere DEF SubmitsRed
<1>2. CASE Goes([To("p1") EXCEPT !.good = @ /\ TokenDemanded])
  <2>1. /\ UNCHANGED <<disk, marks>> /\ job' \in Jobs /\ job'.by = job.by
        /\ SameRun(job, job') /\ job'.pc = "p1"
        /\ job'.pack = job.pack
    BY <1>1, <1>2 DEF Goes, To, Jobs, SameRun
  <2> QED BY <1>1, <2>1, OthersStep
<1>3. CASE Dies
  BY <1>1, <1>3, DiesIsSound
<1> QED BY <1>2, <1>3 DEF SubmitsRed

(* The L1 report says yes only of a ticket that was filed.                 *)
LEMMA WritesL1IsSound ==
  ASSUME EvidenceInv, WritesL1, UNCHANGED <<head, cop>>
  PROVE  EvidenceInv'
<1>1. /\ job \in Jobs /\ UNCHANGED <<rag, left>> /\ witness' = [witness EXCEPT !.l1 = job.filed]
      /\ job.good => job.filed
  BY WhoIsThere DEF WritesL1, At, EvidenceInv, WorkIsSound, Sound, LoopIsSound
<1>2. /\ witness' \in [kind : {"rag", "stub"}, filed : BOOLEAN, l1 : BOOLEAN]
      /\ witness'.kind = witness.kind /\ witness'.filed = witness.filed
      /\ witness'.l1 = job.filed
  BY <1>1 DEF EvidenceInv, Basics, Jobs
<1>3. PICK good : good = job.good
  OBVIOUS
<1>4. "l1" \in Files /\ DOMAIN disk = Files /\ Writes("l1", good, Idle)
  BY <1>3 DEF WritesL1, EvidenceInv, Basics, Files
<1>5. PICK idle : idle = Idle
  OBVIOUS
<1>6. Rewritten("l1") /\ disk'["l1"] \in {good, Torn} /\ job' = Idle
  BY <1>4, <1>5, WritesFacts
<1>7. FilesAreSound'
  <2>1. CardIsSound' /\ ScoreIsSound'
    BY <1>4, <1>6, CardSurvives DEF EvidenceInv, Basics, FilesAreSound
  <2>2. disk'["pack"] = disk["pack"] /\ disk'["matrix"] = disk["matrix"]
    BY <1>6 DEF Rewritten, Files
  <2>3. (IsGreen("l1"))' => good
    BY <1>6 DEF IsGreen, Parsed
  <2>4. ClaimsAreEarned'
    BY <1>1, <1>2, <1>3, <2>2, <2>3 DEF EvidenceInv, FilesAreSound, ClaimsAreEarned, Parsed
  <2>5. SnapshotClaimsNothing' /\ LiveClaimIsBacked'
    BY <2>2 DEF EvidenceInv, FilesAreSound, SnapshotClaimsNothing, LiveClaimIsBacked, Parsed
  <2> QED BY <2>1, <2>4, <2>5 DEF FilesAreSound
<1>8. Basics'
  BY <1>1, <1>2, <1>6, TouchedFacts DEF EvidenceInv, Basics, Rewritten
<1> QED BY <1>6, <1>7, <1>8, EndsStep

(* Strict submission was checked: green only where the gate was met.       *)
LEMMA AfterStrictIsSound ==
  ASSUME EvidenceInv, job.by = "strict", NEW green \in BOOLEAN, NEW code,
         green => rag.src.gate
  PROVE  Sound(AfterStrict(green, code), rag.src, rag.inbox, head, witness.kind)
<1>1. job \in Jobs /\ Placed(job) /\ MatrixIsSound(job, rag.src, head, witness.kind)
  BY DEF EvidenceInv, WorkIsSound, Sound
<1>2. CASE ~job.outer
  BY <1>2, IdleIsSound DEF AfterStrict
<1>3. CASE job.outer
  <2> DEFINE k == [Idle EXCEPT !.by = "verify", !.pc = "pack?", !.outer = TRUE,
                               !.checked = job.checked,
                               !.matrix = job.matrix /\ green /\ code = 0]
  <2>1. AfterStrict(green, code) = k
    BY <1>3 DEF AfterStrict
  <2>2. /\ k.by = "verify" /\ k.pc = "pack?" /\ k.outer
        /\ k.matrix => job.matrix /\ green
        /\ k.checked = job.checked /\ k.pack = None
    BY DEF Idle
  <2>3. (job.matrix /\ green /\ code = 0) \in BOOLEAN /\ job.checked \in BOOLEAN
    BY <1>1 DEF Jobs
  <2>4. k \in Jobs
    BY <2>3 DEF Idle, Jobs
  <2> HIDE DEF k
  <2>5. MatrixIsSound(k, rag.src, head, witness.kind)
    BY <1>1, <1>3, <2>2 DEF MatrixIsSound
  <2> QED BY <2>1, <2>2, <2>4, <2>5 DEF Sound, Placed, LoopIsSound
<1> QED BY <1>2, <1>3

(* The report of strict submission is written.                             *)
LEMMA ReportsStrict ==
  ASSUME EvidenceInv, job.by = "strict", NEW green \in BOOLEAN, NEW code, NEW content,
         green => rag.src.gate, Writes("strict", content, AfterStrict(green, code)),
         UNCHANGED <<head, cop, rag, left, witness>>
  PROVE  EvidenceInv'
<1>1. PICK k : k = AfterStrict(green, code)
  OBVIOUS
<1>2. Sound(k, rag.src, rag.inbox, head, witness.kind)
  BY <1>1, AfterStrictIsSound
<1>3. "strict" \in Files \ {"card", "pack", "l1", "matrix"} /\ left' \in 0 .. MaxScripts
  BY DEF Files, EvidenceInv, Basics
<1> QED BY <1>1, <1>2, <1>3, OtherFileStep

(* The strict script asks for the health, and skips, or goes on.           *)
LEMMA StrictAsksHealthIsSound ==
  ASSUME EvidenceInv, StrictAsksHealth, UNCHANGED <<head, cop>>
  PROVE  EvidenceInv'
<1>1. /\ job \in Jobs /\ job.by = "strict" /\ UNCHANGED <<rag, left, witness>>
      /\ rag' \in [src : Sources, up : BOOLEAN, inbox : BOOLEAN]
  BY WhoIsThere DEF StrictAsksHealth, At
<1>2. CASE \E code \in {0, 1} : Skips(code)
  <2>1. PICK code \in {0, 1} : Skips(code)
    BY <1>2
  <2>2. Writes("strict", [skipped |-> TRUE, ok |-> FALSE], AfterStrict(FALSE, code))
    BY <2>1 DEF Skips
  <2> QED BY <1>1, <2>2, ReportsStrict
<1>3. CASE Writes("strict", [skipped |-> FALSE, ok |-> FALSE], AfterStrict(FALSE, 1))
  BY <1>1, <1>3, ReportsStrict
<1>4. CASE TokenDemanded /\ Goes(To("red"))
  <2>1. /\ UNCHANGED <<disk, marks>> /\ job' \in Jobs /\ job'.by = job.by
        /\ SameRun(job, job') /\ job'.pc = "red"
        /\ job'.pack = job.pack
    BY <1>1, <1>4 DEF Goes, To, Jobs, SameRun
  <2> QED BY <1>1, <1>4, <2>1, OthersStep DEF TokenDemanded
<1> QED BY <1>2, <1>3, <1>4 DEF StrictAsksHealth

(* The strict script is done.                                              *)
LEMMA WritesStrictIsSound ==
  ASSUME EvidenceInv, WritesStrict, UNCHANGED <<head, cop>>
  PROVE  EvidenceInv'
<1>1. /\ job \in Jobs /\ job.good \in BOOLEAN /\ job.by = "strict" /\ job.pc = "write"
      /\ UNCHANGED <<rag, left, witness>>
  BY WhoIsThere DEF WritesStrict, At, Jobs
<1>2. PICK good \in BOOLEAN : good = job.good
  BY <1>1
<1>3. PICK code : code = IF good THEN 0 ELSE 1
  OBVIOUS
<1>4. Writes("strict", [skipped |-> FALSE, ok |-> good], AfterStrict(good, code))
  BY <1>2, <1>3 DEF WritesStrict
<1>5. rag.src.gate
  BY <1>1 DEF EvidenceInv, WorkIsSound, Sound, MatrixIsSound
<1> QED BY <1>1, <1>4, <1>5, ReportsStrict

-----------------------------------------------------------------------------
(* The joint verification.                                                 *)

(* It starts with V3, and with the allowlist unless that is skipped, as    *)
(* they are in this commit.                                                *)
LEMMA StartsVerifyIsSound ==
  ASSUME EvidenceInv, StartsVerify, UNCHANGED <<head, cop>>
  PROVE  EvidenceInv'
<1>1. UNCHANGED <<rag, witness>> /\ left' \in 0 .. MaxScripts
  BY EvidenceAssumption DEF StartsVerify, EvidenceInv, Basics
<1> DEFINE start(checked, other) ==
             [Idle EXCEPT !.by = "verify", !.pc = "health", !.outer = TRUE,
                          !.checked = checked, !.other = other,
                          !.matrix = ConfigHolds /\ (checked => AllowlistFits)]
<1>2. PICK joint \in BOOLEAN, checked \in BOOLEAN, other \in BOOLEAN :
        Writes("drill", Drill(FALSE, joint), start(checked, other))
  BY DEF StartsVerify
<1>3. PICK k : k = start(checked, other)
  OBVIOUS
<1>4. PICK content : content = Drill(FALSE, joint)
  OBVIOUS
<1>5. /\ k \in Jobs /\ k.by = "verify" /\ k.pc = "health" /\ k.outer /\ k.pack = None
      /\ k.matrix => Backed(k.checked, head)
  BY <1>3 DEF Idle, Jobs, ConfigHolds, AllowlistFits, Right, Backed
<1>6. Sound(k, rag.src, rag.inbox, head, witness.kind)
  BY <1>5 DEF Sound, Placed, LoopIsSound, MatrixIsSound
<1>7. "drill" \in Files \ {"card", "pack", "l1", "matrix"} /\ Writes("drill", content, k)
  BY <1>2, <1>3, <1>4 DEF Files
<1> QED BY <1>1, <1>6, <1>7, OtherFileStep

(* What is known while it is at work itself.                               *)
LEMMA VerifyFacts ==
  ASSUME EvidenceInv, job.by = "verify"
  PROVE  /\ job \in Jobs /\ job.outer /\ MatrixIsSound(job, rag.src, head, witness.kind)
         /\ left \in 0 .. MaxScripts
BY DEF EvidenceInv, WorkIsSound, Sound, MatrixIsSound, Basics

(* A source that does not do ends the matrix; one that does, or another,   *)
(* has its contract checked.                                               *)
LEMMA VerifyAsksHealthIsSound ==
  ASSUME EvidenceInv, VerifyAsksHealth, UNCHANGED <<head, cop>>
  PROVE  EvidenceInv'
<1>1. job.by = "verify" /\ job.pc = "health" /\ UNCHANGED <<rag, left, witness>>
  BY DEF VerifyAsksHealth, At
<1>2. CASE Goes(To("contract"))
  <2>1. PICK k : k = To("contract")
    OBVIOUS
  <2>2. /\ k \in Jobs /\ k.by = "verify" /\ k.pc = "contract" /\ k.outer
        /\ SameRun(job, k) /\ k.pack = job.pack
    BY <1>1, <2>1, VerifyFacts DEF To, Jobs, SameRun
  <2>3. MatrixIsSound(k, rag.src, head, witness.kind)
    BY <1>1, <2>2, VerifyFacts DEF MatrixIsSound, SameRun
  <2>4. Sound(k, rag.src, rag.inbox, head, witness.kind)
    BY <2>2, <2>3 DEF Sound, Placed, LoopIsSound
  <2> QED BY <1>1, <1>2, <2>1, <2>4, GoesStep, VerifyFacts
<1>3. CASE Goes([To("pack?") EXCEPT !.matrix = FALSE, !.other = FALSE])
  <2>1. PICK k : k = [To("pack?") EXCEPT !.matrix = FALSE, !.other = FALSE]
    OBVIOUS
  <2>2. /\ k \in Jobs /\ k.by = "verify" /\ k.pc = "pack?" /\ k.outer
        /\ ~k.matrix /\ k.pack = job.pack
    BY <1>1, <2>1, VerifyFacts DEF To, Jobs
  <2>3. MatrixIsSound(k, rag.src, head, witness.kind)
    BY <1>1, <2>2, VerifyFacts DEF MatrixIsSound
  <2>4. Sound(k, rag.src, rag.inbox, head, witness.kind)
    BY <2>2, <2>3 DEF Sound, Placed, LoopIsSound
  <2> QED BY <1>1, <1>3, <2>1, <2>4, GoesStep, VerifyFacts
<1> QED BY <1>2, <1>3 DEF VerifyAsksHealth

(* The build of a pack begins, on its own or after a green matrix.         *)
LEMMA LoadsArtifactsIsSound ==
  ASSUME NEW j \in Jobs, NEW src, NEW inbox, NEW commit, NEW kind,
         Sound(j, src, inbox, commit, kind),
         j.outer => j.by = "verify" /\ j.pc = "pack?" /\ j.matrix
  PROVE  Sound(LoadsArtifacts(j), src, inbox, commit, kind)
<1>1. CASE disk["parts"] = Torn
  BY <1>1, IdleIsSound DEF LoadsArtifacts
<1>2. CASE disk["parts"] # Torn
  <2> DEFINE p == [EmptyPack EXCEPT !.offline = IsGreen("parts")]
             k == [j EXCEPT !.by = "pack", !.pc = "health", !.pack = p]
  <2>1. IsGreen("parts") \in BOOLEAN
    BY DEF IsGreen
  <2>2. /\ p \in Packs /\ p.mode = "from_artifacts" /\ ~p.live /\ ~p.l1 /\ ~p.version
        /\ p.owned = "none"
    BY <2>1, EmptyFacts
  <2>3. LoadsArtifacts(j) = k
    BY <1>2 DEF LoadsArtifacts
  <2> HIDE DEF p
  <2>4. /\ k \in Jobs /\ k.by = "pack" /\ k.pc = "health" /\ SameRun(j, k) /\ k.pack = p
    BY <2>2 DEF Jobs, SameRun
  <2> HIDE DEF k
  <2>5. PackIsSound(p, "health", k.filed, src)
    BY <2>2 DEF PackIsSound
  <2>6. MatrixIsSound(k, src, commit, kind)
    BY <2>4 DEF Sound, MatrixIsSound, SameRun
  <2> QED BY <2>3, <2>4, <2>5, <2>6 DEF Sound, Placed, LoopIsSound
<1> QED BY <1>1, <1>2

(* Only a green matrix has a pack built.                                   *)
LEMMA GoesOnToPackIsSound ==
  ASSUME EvidenceInv, GoesOnToPack, UNCHANGED <<head, cop>>
  PROVE  EvidenceInv'
<1>1. job.by = "verify" /\ job.pc = "pack?" /\ UNCHANGED <<rag, left, witness>>
  BY DEF GoesOnToPack, At
<1>2. CASE Goes(To("verdict"))
  <2>1. PICK k : k = To("verdict")
    OBVIOUS
  <2>2. /\ k \in Jobs /\ k.by = "verify" /\ k.pc = "verdict" /\ k.outer
        /\ SameRun(job, k) /\ k.pack = job.pack
    BY <1>1, <2>1, VerifyFacts DEF To, Jobs, SameRun
  <2>3. MatrixIsSound(k, rag.src, head, witness.kind)
    BY <1>1, <2>2, VerifyFacts DEF MatrixIsSound, SameRun
  <2>4. Sound(k, rag.src, rag.inbox, head, witness.kind)
    BY <2>2, <2>3 DEF Sound, Placed, LoopIsSound
  <2> QED BY <1>1, <1>2, <2>1, <2>4, GoesStep, VerifyFacts
<1>3. CASE job.matrix /\ Goes(LoadsArtifacts(job))
  <2>1. PICK k : k = LoadsArtifacts(job)
    OBVIOUS
  <2>2. Sound(job, rag.src, rag.inbox, head, witness.kind)
    BY DEF EvidenceInv, WorkIsSound
  <2>3. Sound(k, rag.src, rag.inbox, head, witness.kind)
    BY <1>1, <1>3, <2>1, <2>2, VerifyFacts, LoadsArtifactsIsSound
  <2> QED BY <1>1, <1>3, <2>1, <2>3, GoesStep, VerifyFacts
<1> QED BY <1>2, <1>3 DEF GoesOnToPack

(* The matrix is written: what it claims has to be behind it.              *)
LEMMA MatrixIsWritten ==
  ASSUME EvidenceInv, UNCHANGED <<head, cop, rag, left, witness>>,
         NEW m, Writes("matrix", m, Idle),
         m.claim = "live" => /\ m.src.kind = "rag" /\ m.src.gate
                             /\ Backed(m.checked, m.code)
  PROVE  EvidenceInv'
<1>1. PICK idle : idle = Idle
  OBVIOUS
<1>2. "matrix" \in Files /\ DOMAIN disk = Files /\ Writes("matrix", m, idle)
  BY <1>1 DEF EvidenceInv, Basics, Files
<1>3. Rewritten("matrix") /\ disk'["matrix"] \in {m, Torn} /\ job' = Idle
  BY <1>1, <1>2, WritesFacts
<1>4. FilesAreSound'
  <2>1. CardIsSound' /\ ScoreIsSound'
    BY <1>2, <1>3, CardSurvives DEF EvidenceInv, Basics, FilesAreSound
  <2>2. disk'["pack"] = disk["pack"] /\ disk'["l1"] = disk["l1"]
    BY <1>3 DEF Rewritten, Files
  <2>3. ClaimsAreEarned' /\ SnapshotClaimsNothing'
    BY <2>2
    DEF EvidenceInv, FilesAreSound, ClaimsAreEarned, SnapshotClaimsNothing, IsGreen, Parsed
  <2>4. LiveClaimIsBacked'
    BY <1>3 DEF LiveClaimIsBacked, Backed, Parsed
  <2> QED BY <2>1, <2>3, <2>4 DEF FilesAreSound
<1>5. Basics'
  BY <1>3, TouchedFacts DEF EvidenceInv, Basics, Rewritten
<1> QED BY <1>3, <1>4, <1>5, EndsStep

(* Offline the matrix claims nothing.                                      *)
LEMMA EndsOfflineIsSound ==
  ASSUME EvidenceInv, EndsOffline, UNCHANGED <<head, cop>>
  PROVE  EvidenceInv'
<1>1. PICK m : m = Report("none")
  OBVIOUS
<1>2. m.claim # "live" /\ Writes("matrix", m, Idle) /\ UNCHANGED <<rag, left, witness>>
  BY <1>1 DEF EndsOffline, Report
<1> QED BY <1>2, MatrixIsWritten

(* A live pack that lies there at the verdict of a run that made one was   *)
(* made with the source at hand, for a snapshot written over it is not     *)
(* live.                                                                   *)
LEMMA WritesMatrixIsSound ==
  ASSUME EvidenceInv, WritesMatrix, UNCHANGED <<head, cop>>
  PROVE  EvidenceInv'
<1>1. /\ job.by = "verify" /\ job.pc = "verdict" /\ job.outer
      /\ UNCHANGED <<rag, left, witness>> /\ MatrixIsSound(job, rag.src, head, witness.kind)
  BY VerifyFacts DEF WritesMatrix, At
<1>2. PICK m : m = Report(Claimed)
  OBVIOUS
<1>3. /\ m.claim = Claimed /\ Writes("matrix", m, Idle)
      /\ Claimed = "live" => m.checked = job.checked /\ m.code = head /\ m.src = rag.src
  BY <1>2 DEF WritesMatrix, Report
<1>4. ASSUME Claimed = "live"
      PROVE  rag.src.kind = "rag" /\ rag.src.gate /\ Backed(job.checked, head)
  <2>1. job.pack # None /\ Parsed("pack") # None /\ disk["pack"].live
    BY <1>4 DEF Claimed, Packed
  <2>2. witness.kind = "rag"
    BY <2>1 DEF EvidenceInv, FilesAreSound, ClaimsAreEarned
  <2>3. job.matrix /\ witness.kind = rag.src.kind
    BY <1>1, <2>1 DEF MatrixIsSound
  <2> QED BY <1>1, <2>2, <2>3 DEF MatrixIsSound
<1> QED BY <1>1, <1>3, <1>4, MatrixIsWritten

-----------------------------------------------------------------------------
(* The second terminal.                                                    *)

(* A script of the second terminal that claims nothing.                    *)
LEMMA SecondTerminalStep ==
  ASSUME EvidenceInv, NEW f \in Files \ {"card", "pack", "l1", "matrix"}, NEW content,
         Runs(f, content)
  PROVE  EvidenceInv'
<1>1. Rewritten(f)
  BY RunsFacts DEF EvidenceInv, Basics
<1>2. UNCHANGED <<head, rag, cop, job, witness>> /\ left' \in 0 .. MaxScripts
  BY EvidenceAssumption DEF Runs, EvidenceInv, Basics
<1>3. FilesAreSound'
  BY <1>1, <1>2, OtherFile DEF EvidenceInv, Basics
<1>4. Basics' /\ WorkIsSound'
  BY <1>1, <1>2, TouchedFacts DEF EvidenceInv, Basics, WorkIsSound, Rewritten
<1> QED BY <1>3, <1>4 DEF EvidenceInv

(* A snapshot is written, also in the middle of another script: it claims  *)
(* nothing.                                                                *)
LEMMA RunsSnapshotIsSound ==
  ASSUME EvidenceInv, RunsSnapshot
  PROVE  EvidenceInv'
<1> DEFINE p == [EmptyPack EXCEPT !.offline = IsGreen("parts")]
<1>1. IsGreen("parts") \in BOOLEAN
  BY DEF IsGreen
<1>2. p \in Packs /\ p.mode = "from_artifacts" /\ ~p.live /\ ~p.l1
  BY <1>1, EmptyFacts
<1>3. Runs("pack", Published(p))
  BY DEF RunsSnapshot
<1> HIDE DEF p
<1>4. PICK q : q = Published(p)
  OBVIOUS
<1>5. q \in Packs /\ q.tier = "artifacts" /\ ~q.live /\ ~q.l1 /\ ~q.claim
  BY <1>2, <1>4, PublishedFacts
<1>6. "pack" \in Files /\ DOMAIN disk = Files /\ Runs("pack", q)
  BY <1>3, <1>4 DEF EvidenceInv, Basics, Files
<1>7. Rewritten("pack") /\ disk'["pack"] \in {q, Torn}
  BY <1>6, RunsFacts
<1>8. UNCHANGED <<head, rag, cop, job, witness>> /\ left' \in 0 .. MaxScripts
  BY <1>6, EvidenceAssumption DEF Runs, EvidenceInv, Basics
<1>9. FilesAreSound'
  BY <1>5, <1>7, <1>8, PackIsPublished DEF EvidenceInv, Basics
<1>10. Basics' /\ WorkIsSound'
  BY <1>7, <1>8, TouchedFacts DEF EvidenceInv, Basics, WorkIsSound, Rewritten
<1> QED BY <1>9, <1>10 DEF EvidenceInv

(* A verdict is what the reports and the commit say.                       *)
LEMMA VerdictOfReports == CardVerdict = (ReportsHold /\ "degrade" \in Works[head])
BY DEF CardVerdict, ReportsHold, DegradeBlocks, Right

(* The metrics of a scorecard are taken.                                   *)
LEMMA ScoresReportsIsSound ==
  ASSUME EvidenceInv, ScoresReports
  PROVE  EvidenceInv'
<1>1. /\ UNCHANGED <<head, rag, cop, disk, newer, missed, job, witness>>
      /\ left' \in 0 .. MaxScripts
      /\ score' = [all_ok |-> CardVerdict, raced |-> FALSE]
  BY EvidenceAssumption DEF ScoresReports, EvidenceInv, Basics
<1>2. ScoreIsSound'
  <2>1. ReportsHold' = ReportsHold
    BY <1>1, SameReports
  <2> QED BY <1>1, <2>1, VerdictOfReports DEF ScoreIsSound
<1>3. FilesAreSound'
  BY <1>1, <1>2, SameFiles DEF EvidenceInv
<1>4. Marked'
  <2>1. CardVerdict \in BOOLEAN
    BY VerdictOfReports
  <2> QED BY <1>1, <2>1 DEF EvidenceInv, Basics, Marked
<1>5. Basics' /\ WorkIsSound'
  BY <1>1, <1>4 DEF EvidenceInv, Basics, WorkIsSound
<1> QED BY <1>3, <1>5 DEF EvidenceInv

(* The scorecard is written: what it says is what the files say, unless    *)
(* one was written since its metrics were taken.                           *)
LEMMA WritesScorecardIsSound ==
  ASSUME EvidenceInv, WritesScorecard
  PROVE  EvidenceInv'
<1>1. /\ UNCHANGED <<head, rag, cop, job, left, witness>> /\ DOMAIN disk = Files
      /\ score # None /\ score' = None /\ Marked /\ "card" \in Files
  BY DEF WritesScorecard, EvidenceInv, Basics, Files
<1>2. \/ /\ disk' = [disk EXCEPT !["card"] = [all_ok |-> score.all_ok, git_sha |-> head]]
         /\ newer' = {} /\ missed' = score.raced
      \/ disk' = [disk EXCEPT !["card"] = Torn] /\ UNCHANGED <<newer, missed>>
  BY DEF WritesScorecard
<1>3. DOMAIN disk' = Files /\ \A g \in Files \ {"card"} : disk'[g] = disk[g]
  BY <1>1, <1>2
<1>4. CardIsSound'
  <2>1. \A g \in Tracked : disk'[g] = disk[g]
    BY <1>3 DEF Tracked, Files
  <2>2. ReportsHold' = ReportsHold
    BY <2>1, SameReports
  <2>3. ~score.raced => score.all_ok = (ReportsHold /\ "degrade" \in Works[head])
    BY <1>1 DEF EvidenceInv, FilesAreSound, ScoreIsSound
  <2>4. CASE /\ disk' = [disk EXCEPT !["card"] = [all_ok |-> score.all_ok, git_sha |-> head]]
             /\ newer' = {} /\ missed' = score.raced
    <3>1. disk'["card"].all_ok = score.all_ok /\ disk'["card"].git_sha = head
      BY <1>1, <2>4
    <3> QED BY <2>2, <2>3, <2>4, <3>1 DEF CardIsSound
  <2>5. CASE disk' = [disk EXCEPT !["card"] = Torn]
    <3>1. disk'["card"] = Torn
      BY <1>1, <2>5
    <3> QED BY <3>1 DEF CardIsSound, Parsed
  <2> QED BY <1>2, <2>4, <2>5
<1>5. disk'["pack"] = disk["pack"] /\ disk'["l1"] = disk["l1"] /\ disk'["matrix"] = disk["matrix"]
  BY <1>3 DEF Files
<1>6. ClaimsAreEarned'
  BY <1>1, <1>5 DEF EvidenceInv, FilesAreSound, ClaimsAreEarned, IsGreen, Parsed
<1>7. SnapshotClaimsNothing' /\ LiveClaimIsBacked'
  BY <1>5 DEF EvidenceInv, FilesAreSound, SnapshotClaimsNothing, LiveClaimIsBacked, Parsed
<1>8. ScoreIsSound'
  BY <1>1 DEF ScoreIsSound
<1>9. Marked'
  BY <1>1, <1>2 DEF Marked
<1>10. Basics' /\ WorkIsSound'
  BY <1>1, <1>3, <1>9 DEF EvidenceInv, Basics, WorkIsSound
<1> QED BY <1>4, <1>6, <1>7, <1>8, <1>10 DEF EvidenceInv, FilesAreSound

(* A report is deleted: nothing is claimed of it any more, and what was    *)
(* said of it before is no longer vouched for.                             *)
LEMMA DeletesIsSound ==
  ASSUME EvidenceInv, Deletes
  PROVE  EvidenceInv'
<1>1. /\ UNCHANGED <<head, rag, cop, job, witness>> /\ left' \in 0 .. MaxScripts
      /\ DOMAIN disk = Files /\ Marked
  BY EvidenceAssumption DEF Deletes, EvidenceInv, Basics
<1>2. PICK f \in Tracked : /\ disk' = [disk EXCEPT ![f] = None]
                           /\ newer' = newer \ {f} /\ missed' = TRUE
  BY DEF Deletes
<1>3. /\ score' = None \/ score' \in [all_ok : BOOLEAN, raced : BOOLEAN]
      /\ score' # None => score'.raced
  BY <1>1 DEF Deletes, Marked
<1>4. Marked' /\ CardIsSound' /\ ScoreIsSound'
  BY <1>1, <1>2, <1>3 DEF Marked, CardIsSound, ScoreIsSound
<1>5. /\ DOMAIN disk' = Files /\ disk'["l1"] = disk["l1"] /\ disk'["matrix"] = disk["matrix"]
      /\ disk'["pack"] \in {disk["pack"], None}
  BY <1>1, <1>2 DEF Files, Tracked
<1>6. (Parsed("pack"))' # None => disk'["pack"] = disk["pack"] /\ Parsed("pack") # None
  BY <1>5 DEF Parsed
<1>7. ClaimsAreEarned'
  BY <1>1, <1>5, <1>6 DEF EvidenceInv, FilesAreSound, ClaimsAreEarned, IsGreen, Parsed
<1>8. SnapshotClaimsNothing'
  BY <1>6 DEF EvidenceInv, FilesAreSound, SnapshotClaimsNothing
<1>9. LiveClaimIsBacked'
  BY <1>5 DEF EvidenceInv, FilesAreSound, LiveClaimIsBacked, Parsed
<1>10. Basics' /\ WorkIsSound'
  BY <1>1, <1>4, <1>5 DEF EvidenceInv, Basics, WorkIsSound
<1> QED BY <1>4, <1>7, <1>8, <1>9, <1>10 DEF EvidenceInv, FilesAreSound

(* Any script of the second terminal.                                      *)
LEMMA SecondTerminalIsSound ==
  ASSUME EvidenceInv, SecondTerminal
  PROVE  EvidenceInv'
<1>1. {"parts", "acl", "gate", "drill"} \subseteq Files \ {"card", "pack", "l1", "matrix"}
  BY DEF Files
<1>2. CASE RunsPartsAB
  <2>1. PICK content : content = Right("parts")
    OBVIOUS
  <2> QED BY <1>1, <1>2, <2>1, SecondTerminalStep DEF RunsPartsAB
<1>3. CASE RunsAclMatrix
  <2>1. PICK content : content = (Right("acl") /\ Right("ground"))
    OBVIOUS
  <2> QED BY <1>1, <1>3, <2>1, SecondTerminalStep DEF RunsAclMatrix
<1>4. CASE RunsGateEval
  <2>1. PICK content : content = Right("gate")
    OBVIOUS
  <2> QED BY <1>1, <1>4, <2>1, SecondTerminalStep DEF RunsGateEval
<1>5. CASE RunsDrill
  <2>1. PICK probe \in BOOLEAN, joint \in BOOLEAN : Runs("drill", Drill(probe, joint))
    BY <1>5 DEF RunsDrill
  <2>2. PICK content : content = Drill(probe, joint)
    OBVIOUS
  <2> QED BY <1>1, <2>1, <2>2, SecondTerminalStep
<1> QED BY <1>2, <1>3, <1>4, <1>5, ScoresReportsIsSound, WritesScorecardIsSound,
           RunsSnapshotIsSound, DeletesIsSound DEF SecondTerminal

-----------------------------------------------------------------------------
(* The whole.                                                              *)

(* A script that talks is started.                                         *)
LEMMA StartIsSound ==
  ASSUME EvidenceInv, UNCHANGED <<head, cop>>,
         \/ StartsPack \/ From("l1", "health") \/ From("strict", "health")
         \/ StartsContract
  PROVE  EvidenceInv'
<1>1. job = Idle /\ UNCHANGED <<rag, witness>> /\ left' \in 0 .. MaxScripts
  <2>1. \E j : Starts(j)
    BY DEF StartsPack, StartsContract, From
  <2> QED BY <2>1, EvidenceAssumption DEF Starts, EvidenceInv, Basics
<1>2. /\ Idle \in Jobs /\ ~Idle.outer
      /\ Sound(Idle, rag.src, rag.inbox, head, witness.kind)
  BY IdleIsSound DEF Idle, Jobs
<1>3. CASE StartsPack
  <2>1. PICK k : k = LoadsArtifacts(Idle)
    OBVIOUS
  <2>2. Sound(k, rag.src, rag.inbox, head, witness.kind)
    BY <1>2, <2>1, LoadsArtifactsIsSound
  <2> QED BY <1>1, <1>3, <2>1, <2>2, GoesStep DEF StartsPack, Starts
<1>4. ASSUME NEW by \in {"l1", "strict"}, From(by, "health")
      PROVE  EvidenceInv'
  <2>1. PICK k : k = [Idle EXCEPT !.by = by, !.pc = "health", !.good = TRUE]
    OBVIOUS
  <2>2. k \in Jobs /\ k.by = by /\ k.pc = "health" /\ ~k.outer
    BY <2>1 DEF Idle, Jobs
  <2>3. Sound(k, rag.src, rag.inbox, head, witness.kind)
    BY <1>4, <2>2 DEF Sound, Placed, LoopIsSound, MatrixIsSound
  <2> QED BY <1>1, <1>4, <2>1, <2>3, GoesStep DEF From, Starts
<1>5. CASE StartsContract
  <2>1. PICK other \in BOOLEAN :
          Starts([Idle EXCEPT !.by = "contract", !.pc = "contract", !.other = other])
    BY <1>5 DEF StartsContract
  <2>2. PICK k : k = [Idle EXCEPT !.by = "contract", !.pc = "contract", !.other = other]
    OBVIOUS
  <2>3. k \in Jobs /\ k.by = "contract" /\ k.pc = "contract" /\ ~k.outer
    BY <2>2 DEF Idle, Jobs
  <2>4. Sound(k, rag.src, rag.inbox, head, witness.kind)
    BY <2>3 DEF Sound, Placed, LoopIsSound, MatrixIsSound
  <2> QED BY <1>1, <2>1, <2>2, <2>4, GoesStep DEF Starts
<1> QED BY <1>3, <1>4, <1>5

(* A step of a script that talks.                                          *)
LEMMA StepsAreSound ==
  ASSUME EvidenceInv, Steps, UNCHANGED <<head, cop>>
  PROVE  EvidenceInv'
BY StartIsSound, StartsVerifyIsSound, PackAsksSourceIsSound, PackAsksCopilotIsSound,
   RunsABsIsSound, WritesPackIsSound, L1AsksHealthIsSound, ChecksContractIsSound,
   SubmitsRedIsSound, WritesL1IsSound, StrictAsksHealthIsSound, WritesStrictIsSound,
   PlaysP1IsSound, ApprovesIsSound, LooksIntoInboxIsSound, VerifyAsksHealthIsSound,
   EndsOfflineIsSound, GoesOnToPackIsSound, WritesMatrixIsSound
DEF Steps

(* The world turns: the source, the service, the checkout, and a script    *)
(* that is killed.                                                         *)
LEMMA WorldIsSound ==
  ASSUME EvidenceInv, SourceTurns \/ CopilotTurns \/ ChecksOut \/ Interrupted
  PROVE  EvidenceInv'
<1>1. /\ UNCHANGED <<disk, newer, missed, left, witness>>
      /\ score' = score \/ score' = None
      /\ score = None \/ head' = head
  BY DEF SourceTurns, CopilotTurns, ChecksOut, Interrupted, marks
<1>2. /\ rag \in [src : Sources, up : BOOLEAN, inbox : BOOLEAN]
      /\ head \in Commits /\ cop \in Modes
      /\ Sound(job, rag.src, rag.inbox, head, witness.kind)
  BY DEF EvidenceInv, Basics, WorkIsSound
<1>3. /\ rag' \in [src : Sources, up : BOOLEAN, inbox : BOOLEAN]
      /\ head' \in Commits /\ cop' \in Modes
  <2>1. CASE SourceTurns
    <3>1. CASE rag' = [rag EXCEPT !.up = ~@, !.inbox = @ /\ rag.src.kind # "stub"]
      BY <1>2, <2>1, <3>1 DEF SourceTurns
    <3>2. CASE \E src \in Sources : rag' = [src |-> src, up |-> TRUE, inbox |-> FALSE]
      BY <1>2, <2>1, <3>2 DEF SourceTurns
    <3> QED BY <2>1, <3>1, <3>2 DEF SourceTurns
  <2>2. CASE CopilotTurns \/ ChecksOut \/ Interrupted
    BY <1>2, <2>2 DEF CopilotTurns, ChecksOut, Interrupted
  <2> QED BY <2>1, <2>2
<1>4. \/ job' = Idle
      \/ /\ job' = job /\ head' = head /\ rag'.src = rag.src
         /\ rag'.inbox => rag.inbox
  BY <1>2 DEF SourceTurns, CopilotTurns, ChecksOut, Interrupted
<1>5. FilesAreSound' /\ Basics'
  <2>1. ReportsHold' = ReportsHold
    BY <1>1, SameReports
  <2>2. ScoreIsSound'
    BY <1>1, <2>1 DEF EvidenceInv, FilesAreSound, ScoreIsSound
  <2>3. FilesAreSound'
    BY <1>1, <2>2, SameFiles DEF EvidenceInv
  <2> QED BY <1>1, <1>3, <2>3 DEF EvidenceInv, Basics, Marked
<1>6. CASE job' = Idle
  BY <1>5, <1>6, EndsStep
<1>7. CASE /\ job' = job /\ head' = head /\ rag'.src = rag.src
           /\ rag'.inbox => rag.inbox
  <2>1. WorkIsSound'
    BY <1>1, <1>2, <1>7, InboxIsLost DEF WorkIsSound
  <2> QED BY <1>5, <2>1 DEF EvidenceInv
<1> QED BY <1>4, <1>6, <1>7

(* A checkout begins with nothing claimed that is not believed, and with a *)
(* scorecard that is stale if there is one.                                *)
LEMMA EvidenceInit == Init => EvidenceInv
<1> SUFFICES ASSUME Init PROVE EvidenceInv
  OBVIOUS
<1>1. /\ disk \in Disks /\ DOMAIN disk = Files
      /\ newer = {f \in Tracked : disk[f] # None}
  BY DisksAssumption DEF Init
<1>2. ClaimsAreEarned
  BY DEF Init, ClaimsAreEarned
<1>3. FilesAreSound
  <2>1. SnapshotClaimsNothing
    <3>1. Parsed("pack") # None => disk["pack"] # None
      BY DEF Parsed
    <3> QED BY <1>1, <3>1, DisksAssumption DEF SnapshotClaimsNothing
  <2>2. LiveClaimIsBacked
    <3>1. Parsed("matrix") # None => disk["matrix"] # None
      BY DEF Parsed
    <3> QED BY <1>1, <3>1, DisksAssumption DEF LiveClaimIsBacked
  <2>3. CardIsSound
    <3>1. Parsed("card") # None => disk["card"] # None
      BY DEF Parsed
    <3>2. disk["card"] # None => \E f \in Tracked : disk[f] # None
      BY <1>1, DisksAssumption
    <3> QED BY <1>1, <3>1, <3>2 DEF CardIsSound
  <2>4. ScoreIsSound
    BY DEF Init, ScoreIsSound
  <2> QED BY <1>2, <2>1, <2>2, <2>3, <2>4 DEF FilesAreSound
<1>4. Basics
  <2>1. rag \in [src : Sources, up : BOOLEAN, inbox : BOOLEAN]
    BY DEF Init
  <2>2. witness \in [kind : {"rag", "stub"}, filed : BOOLEAN, l1 : BOOLEAN]
    BY DEF Init
  <2>3. left \in 0 .. MaxScripts
    BY EvidenceAssumption DEF Init
  <2> QED BY <1>1, <2>1, <2>2, <2>3 DEF Init, Basics, Marked
<1>5. WorkIsSound
  BY IdleIsSound DEF Init, WorkIsSound
<1> QED BY <1>3, <1>4, <1>5 DEF EvidenceInv

(* Every step keeps the invariant.                                         *)
LEMMA EvidenceNext == EvidenceInv /\ [Next]_vars => EvidenceInv'
<1> SUFFICES ASSUME EvidenceInv, [Next]_vars PROVE EvidenceInv'
  OBVIOUS
<1>1. CASE Next
  BY <1>1, StepsAreSound, SecondTerminalIsSound, WorldIsSound DEF Next
<1>2. CASE UNCHANGED vars
  <2>1. Basics' /\ WorkIsSound'
    BY <1>2 DEF vars, EvidenceInv, Basics, Marked, WorkIsSound
  <2> QED BY <1>2, <2>1, QuietStep DEF vars, marks
<1> QED BY <1>1, <1>2

(* The invariant the rest rests on: what a script at work knows, and what  *)
(* the files claim, whatever goes away, comes back, is checked out, killed *)
(* or run in the second terminal.                                          *)
THEOREM EvidenceIsSound == Spec => []EvidenceInv
BY EvidenceInit, EvidenceNext, PTL DEF Spec

(* Every script has a place, and a pack being built a tier.                *)
THEOREM EvidenceHasItsType == Spec => []TypeOK
<1>1. EvidenceInv => TypeOK
  <2> SUFFICES ASSUME EvidenceInv PROVE TypeOK
    OBVIOUS
  <2>1. job \in Jobs /\ Placed(job)
    BY DEF EvidenceInv, WorkIsSound, Sound
  <2>2. job.by = "pack" => job.pack \in Packs
    BY PackFacts DEF PackIsSound
  <2>3. job.by \in {"none", "pack", "l1", "strict", "contract", "verify"}
    BY <2>1 DEF Jobs
  <2>4. job.by = "pack" => job.pack.tier \in {"artifacts", "L1", "L2"}
    BY <2>2 DEF Packs
  <2>5. job = Idle \/ job.pc # "idle"
    BY <2>1 DEF Placed
  <2> QED BY <2>3, <2>4, <2>5 DEF TypeOK, EvidenceInv, Basics, Marked
<1> QED BY <1>1, EvidenceIsSound, PTL

(* evidence_tier.py:6: live_verified is for a real source, l1_verified for *)
(* a closed loop, on the ticket of that very build.                        *)
THEOREM EvidenceIsEarned == Spec => []ClaimsAreEarned
<1>1. EvidenceInv => ClaimsAreEarned
  BY DEF EvidenceInv, FilesAreSound
<1> QED BY <1>1, EvidenceIsSound, PTL

(* evidence_tier.py:8: a pack not sampled to its end claims nothing.       *)
THEOREM SnapshotsClaimNothing == Spec => []SnapshotClaimsNothing
<1>1. EvidenceInv => SnapshotClaimsNothing
  BY DEF EvidenceInv, FilesAreSound
<1> QED BY <1>1, EvidenceIsSound, PTL

(* governance_scorecard.py:440: a scorecard of this commit that is not     *)
(* called stale says what a new one would say, however the writes of the   *)
(* others fell between its metrics, its mtimes and its file; what the      *)
(* mtimes cannot tell (a write between metrics and mtimes, a second one    *)
(* within the tolerance, a deletion) is excepted by missed.                *)
THEOREM ScorecardsAreCurrent == Spec => []ScorecardIsCurrent
<1>1. EvidenceInv => ScorecardIsCurrent
  <2> SUFFICES ASSUME EvidenceInv, Parsed("card") # None, disk["card"].git_sha = head, ~IsStale,
                      ~missed
               PROVE  disk["card"].all_ok = CardVerdict
    BY DEF ScorecardIsCurrent
  <2>1. disk["card"].all_ok = (ReportsHold /\ "degrade" \in Works[head])
    BY DEF EvidenceInv, FilesAreSound, CardIsSound, IsStale
  <2> QED BY <2>1, VerdictOfReports
<1> QED BY <1>1, EvidenceIsSound, PTL

(* run_joint_verify.py:13: to claim live is advised only of a real source  *)
(* on :8001 that demands the token, on a commit that passes V3 and, unless *)
(* the report says that it was skipped, the allowlist; --rag-base changes  *)
(* nothing of this.                                                        *)
THEOREM LiveClaimsAreBacked == Spec => []LiveClaimIsBacked
<1>1. EvidenceInv => LiveClaimIsBacked
  BY DEF EvidenceInv, FilesAreSound
<1> QED BY <1>1, EvidenceIsSound, PTL

==============================================================================
