--------------------------- MODULE MCEvidencePack ---------------------------
(* A commit that is right, one whose gate lets a degraded run through, and *)
(* those whose .env.demo or allowlist is off.  On :8001 the contract stub, *)
(* the real source, and the real one with its token gate off.              *)
(* The files are those that come with the repository: all there, green and *)
(* claimed live.                                                           *)
EXTENDS EvidencePack

MCCommits == {"right", "nodegrade", "noenv", "misaligned"}

MCWorks ==
  [c \in MCCommits |->
     CASE c = "right" -> Behaviours
       [] c = "nodegrade" -> Behaviours \ {"degrade", "gate"}
       [] c = "noenv" -> Behaviours \ {"env"}
       [] c = "misaligned" -> Behaviours \ {"align"}]

Source(kind, tier, mode, gate) ==
  [kind |-> kind, tier |-> tier, mode |-> mode, version |-> "match", gate |-> gate,
   lanes |-> TRUE]

MCSources ==
  {Source("stub", "L1", "contract_stub", TRUE), Source("rag", "none", "live", TRUE),
   Source("rag", "none", "live", FALSE)}

CheckedIn ==
  [f \in Files |->
     CASE f \in {"parts", "acl", "contract", "gate", "func", "l1"} -> TRUE
       [] f = "drill" -> [degraded |-> TRUE, all_ok |-> TRUE]
       [] f = "strict" -> [skipped |-> FALSE, ok |-> TRUE]
       [] f = "pack" -> [EmptyPack EXCEPT !.mode = "live", !.tier = "L2", !.live = TRUE,
                           !.claim = TRUE, !.sample = TRUE, !.owned = "yes", !.offline = TRUE,
                           !.live_ab = TRUE, !.version = TRUE, !.required_ok = TRUE]
       [] f = "card" -> [all_ok |-> TRUE, git_sha |-> "right"]
       [] f = "matrix" -> [claim |-> "live", code |-> "right", checked |-> TRUE,
                           src |-> Source("rag", "none", "live", TRUE)]]

MCDisks == {CheckedIn}

=============================================================================
