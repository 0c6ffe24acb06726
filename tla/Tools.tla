-------------------------------- MODULE Tools --------------------------------
(* The programs around the editor that work on the repository itself: the    *)
(* mock model and its smoke suite, the code review and the check-in, the     *)
(* sync of shared repositories, and the agent scripts.  They keep their      *)
(* state in different files and share none of the variables here, so each is *)
(* followed by itself.                                                       *)
EXTENDS SmokeSuite, Review, SharedSync, AgentScripts

VARIABLE tool       \* the one that is followed

toolVars == <<tool, smokeVars, reviewVars, syncVars, scriptVars>>

ToolNames == {"smoke", "review", "sync", "promotion", "readme"}

ToolsTypeOK ==
    /\ tool \in ToolNames
    /\ SmokeSuiteTypeOK /\ ReviewTypeOK /\ SharedSyncTypeOK /\ AgentScriptsTypeOK

\* Tools that are not followed stay in one of their initial states.
ToolsInit ==
    /\ tool \in ToolNames
    /\ SmokeSuiteInit
    /\ ReviewInit
    /\ tool # "review" =>
          /\ config = Unreadable
          /\ \A f \in FileIds : tree[f] = CHOOSE content \in Contents[f] : TRUE
    /\ SharedSyncInit
    /\ tool # "sync" =>
          /\ repoAt = <<"root", None>> /\ detached = {} /\ ~autoCommit
          /\ \A r \in Repos : tracked[r] = NoUpstream
    /\ AgentScriptsInit
    /\ tool # "promotion" => dbl = main
    /\ tool # "readme" => readme = <<"prose">> /\ update = NoUpdate

ToolsNext ==
    /\ UNCHANGED tool
    /\ IF tool = "smoke" THEN SmokeSuiteNext ELSE UNCHANGED smokeVars
    /\ IF tool = "review" THEN ReviewNext ELSE UNCHANGED reviewVars
    /\ IF tool = "sync" THEN SharedSyncNext ELSE UNCHANGED syncVars
    /\ \/ tool = "promotion" /\ PromotionNext
       \/ tool = "readme" /\ ReadmeNext
       \/ tool \notin {"promotion", "readme"} /\ UNCHANGED scriptVars

ToolsSpec == ToolsInit /\ [][ToolsNext]_toolVars

-----------------------------------------------------------------------------
(* Properties *)

\* What a maintenance script reports as done is done, whatever is edited,
\* committed or pushed beside it and whatever an earlier, interrupted run of it
\* left: repositories in sync are on their remotes, a promoted agent is the one
\* that was under development, and a generated section is the one that
\* generating again would give.
DoneMeansDone == SyncedIsPushed /\ PromotedIsCopied /\ SectionStable
=============================================================================
