-------------------------- MODULE MCKnowledgeSource --------------------------
(* The settings the service is run with: .env.demo (live), a developer's   *)
(* fallback, live with the fallback left on, and offline.                  *)
EXTENDS KnowledgeSource

MCSettings == {{"live", "inbox"}, {"fallback"}, {"fallback", "live", "inbox"}, {"offline", "inbox"}}

=============================================================================
