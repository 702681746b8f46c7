-------------------------- MODULE MCLanguageServer --------------------------
(* Small instances of LanguageServer for TLC. *)
EXTENDS LanguageServer

CONSTANTS w1, w2, i1, i2

OneWorker == {w1}
TwoWorkers == {w1, w2}
TwoIds == {i1, i2}
Nobody == {}
AllThreads == Threads

\* What the client of each run sends.
RequestVocabulary ==
  {"initialize", "initialized", "request", "cancel", "notification",
   "unknownRequest", "unknownNotification", "shutdown", "exit"}
TaskVocabulary ==
  {"initialize", "initialized", "request", "cancel", "sync", "response", "invalid",
   "shutdown", "exit"}
CancelVocabulary == {"initialize", "request", "cancel"}
InitializeVocabulary == {"initialize", "request", "exit"}

\* Workers and request ids are interchangeable: used by runs of invariants only.
Symmetric == Permutations(Workers) \cup Permutations(Ids)
=============================================================================
