----------------------------- MODULE MCDialogRun -----------------------------
(***************************************************************************)
(* Two runs over one storage.  The second may continue anything the first  *)
(* has stored, while the first goes on, fails or is cancelled.             *)
(***************************************************************************)
EXTENDS HttpHistory

CONSTANTS r1, r2, chat, mail

MCRuns == {r1, r2}
MCHome == [r \in MCRuns |-> chat]
MCResponses == [r \in MCRuns |->
  IF r = r1 THEN <<{<<"call", "text">>}, {<<"call">>}>> ELSE <<{<<>>}>>]
MCSaves == [r \in MCRuns |-> IF r = r1 THEN BOOLEAN ELSE {TRUE}]
MCContinues == [r \in MCRuns |-> IF r = r1 THEN {} ELSE {r1}]
=============================================================================
