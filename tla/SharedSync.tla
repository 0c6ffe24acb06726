----------------------------- MODULE SharedSync -----------------------------
(* src/scripts/git/push-shared-repos.mjs: commits, if asked to, and pushes   *)
(* this repository and the linked one, while developers work in them and     *)
(* others push to their remotes.  A branch is the set of the work on it;     *)
(* nobody rewinds one.                                                       *)
EXTENDS Integers, Sequences

CONSTANTS MaxWorks, MaxPeerPushes, MaxGitFaults

ASSUME SharedSyncAssumption == {MaxWorks, MaxPeerPushes, MaxGitFaults} \subseteq Nat

VARIABLES
    repoAt,         \* the repository each of the two directories is in, or None
    detached,       \* repositories whose HEAD is
    work,           \* of each repository: what is in its working tree,
    head,           \* committed,
    tracked,        \* on the remote as last heard, or NoUpstream,
    remote,         \* and on it
    sync,           \* the script: the directory it is at, the step, what it found
    results,        \* its summary
    autoCommit,
    works, peerPushes, gitFaults

syncVars == <<repoAt, detached, work, head, tracked, remote, sync, results, autoCommit,
              works, peerPushes, gitFaults>>

Repos == {"root", "linked"}
None == "none"
NoUpstream == {-1}
Works == 0 .. MaxWorks + MaxPeerPushes

\* Only the first one may be committed by the script.
CanAutoCommit(at) == at = 1

SharedSyncTypeOK ==
    /\ repoAt \in {"root"} \X (Repos \cup {None}) /\ detached \subseteq Repos
    /\ {work, head, remote} \subseteq [Repos -> SUBSET Works]
    /\ tracked \in [Repos -> (SUBSET Works) \cup {NoUpstream}]
    /\ \A r \in Repos : /\ head[r] \subseteq work[r]
                        /\ tracked[r] = NoUpstream \/ tracked[r] \subseteq remote[r]
    /\ sync \in [at : 1 .. 3, step : {"look", "commit", "dirty", "count", "push"},
                 asked : SUBSET Works]
    /\ results \in Seq([state : {"skip", "ok", "pushed", "error"}, asked : SUBSET Works])
    /\ autoCommit \in BOOLEAN
    /\ works \in 0 .. MaxWorks /\ peerPushes \in 0 .. MaxPeerPushes /\ gitFaults \in 0 .. MaxGitFaults

\* The linked directory is a repository of its own, a folder of this one, or
\* neither; a branch that was never pushed has no upstream.
SharedSyncInit ==
    /\ repoAt \in {<<"root", linked>> : linked \in Repos \cup {None}}
    /\ detached \in {{}, {"root"}}
    /\ work = [r \in Repos |-> {0}] /\ head = work
    /\ \/ tracked = [r \in Repos |-> {0}] /\ remote = tracked
       \/ tracked = [r \in Repos |-> NoUpstream] /\ remote = [r \in Repos |-> {}]
    /\ sync = [at |-> 1, step |-> "look", asked |-> {}] /\ results = <<>>
    /\ autoCommit \in BOOLEAN
    /\ works = 0 /\ peerPushes = 0 /\ gitFaults = 0

Here == repoAt[sync.at]
Running(step) == sync.at <= 2 /\ sync.step = step
ThisRun == UNCHANGED <<repoAt, detached, autoCommit, works, peerPushes>>

\* A developer edits a file, or commits, or pulls; someone else pushes.
Edit(r) ==
    /\ works < MaxWorks /\ works' = works + 1
    /\ work' = [work EXCEPT ![r] = @ \cup {works'}]
    /\ UNCHANGED <<repoAt, detached, head, tracked, remote, sync, results, autoCommit, peerPushes,
                   gitFaults>>

Commit(r) ==
    /\ head[r] # work[r] /\ head' = [head EXCEPT ![r] = work[r]]
    /\ UNCHANGED <<repoAt, detached, work, tracked, remote, sync, results, autoCommit, works,
                   peerPushes, gitFaults>>

Pull(r) ==
    /\ tracked[r] # NoUpstream /\ tracked[r] # remote[r]
    /\ tracked' = [tracked EXCEPT ![r] = remote[r]]
    /\ head' = [head EXCEPT ![r] = @ \cup remote[r]] /\ work' = [work EXCEPT ![r] = @ \cup remote[r]]
    /\ UNCHANGED <<repoAt, detached, remote, sync, results, autoCommit, works, peerPushes, gitFaults>>

PeerPushes(r) ==
    /\ peerPushes < MaxPeerPushes /\ peerPushes' = peerPushes + 1
    /\ remote[r] # {} /\ remote' = [remote EXCEPT ![r] = @ \cup {MaxWorks + peerPushes'}]
    /\ UNCHANGED <<repoAt, detached, work, head, tracked, sync, results, autoCommit, works, gitFaults>>

\* On with the next directory, or the next step of this one.
RepoEnds(state, asked) ==
    /\ results' = Append(results, [state |-> state, asked |-> asked])
    /\ sync' = [at |-> sync.at + 1, step |-> "look", asked |-> {}]
OnTo(step) == sync' = [sync EXCEPT !.step = step] /\ UNCHANGED results

LookAtRepo ==
    /\ Running("look")
    /\ IF Here = None THEN RepoEnds("skip", {})
       ELSE IF Here \in detached THEN RepoEnds("skip", {})
       ELSE /\ sync' = [sync EXCEPT !.asked = work[Here],
                  !.step = IF autoCommit /\ CanAutoCommit(sync.at) THEN "commit" ELSE "dirty"]
            /\ UNCHANGED results
    /\ ThisRun /\ UNCHANGED <<work, head, tracked, remote, gitFaults>>

\* git add -A and git commit, when there is anything to commit.
AutoCommit ==
    /\ Running("commit")
    /\ head' = [head EXCEPT ![Here] = work[Here]]
    /\ OnTo("dirty")
    /\ ThisRun /\ UNCHANGED <<work, tracked, remote, gitFaults>>

\* Variant: the working tree is not looked at again.
CheckNothing ==
    /\ Running("dirty") /\ OnTo("count")
    /\ ThisRun /\ UNCHANGED <<work, head, tracked, remote, gitFaults>>

CheckDirty ==
    /\ Running("dirty")
    /\ IF work[Here] # head[Here] THEN RepoEnds("skip", sync.asked) ELSE OnTo("count")
    /\ ThisRun /\ UNCHANGED <<work, head, tracked, remote, gitFaults>>

\* Nothing is fetched: ahead of what was last heard of the remote.
CountAhead ==
    /\ Running("count")
    /\ IF tracked[Here] # NoUpstream /\ head[Here] \subseteq tracked[Here]
       THEN RepoEnds("ok", sync.asked) ELSE OnTo("push")
    /\ ThisRun /\ UNCHANGED <<work, head, tracked, remote, gitFaults>>

\* Variant: a refused push is taken for one.
PushAndHope ==
    /\ Running("push")
    /\ remote' = IF remote[Here] \subseteq head[Here] THEN [remote EXCEPT ![Here] = head[Here]] ELSE remote
    /\ tracked' = [tracked EXCEPT ![Here] = head[Here]]
    /\ RepoEnds("error", sync.asked)
    /\ ThisRun /\ UNCHANGED <<work, head, gitFaults>>

\* The remote takes what it can fast-forward to, and refuses the rest.
PushRepo ==
    /\ Running("push")
    /\ IF remote[Here] \subseteq head[Here]
       THEN /\ remote' = [remote EXCEPT ![Here] = head[Here]]
            /\ tracked' = [tracked EXCEPT ![Here] = head[Here]]
            /\ RepoEnds("pushed", sync.asked)
       ELSE RepoEnds("error", sync.asked) /\ UNCHANGED <<remote, tracked>>
    /\ ThisRun /\ UNCHANGED <<work, head, gitFaults>>

\* A git that fails is an error of this directory; the other one has its turn.
GitFails ==
    /\ sync.at <= 2 /\ sync.step # "look" /\ gitFaults < MaxGitFaults
    /\ gitFaults' = gitFaults + 1 /\ RepoEnds("error", sync.asked)
    /\ ThisRun /\ UNCHANGED <<work, head, tracked, remote>>

SharedSyncNext ==
    \/ \E r \in Repos : Edit(r) \/ Commit(r) \/ Pull(r) \/ PeerPushes(r)
    \/ LookAtRepo \/ AutoCommit \/ CheckDirty \/ CountAhead \/ PushRepo \/ GitFails

-----------------------------------------------------------------------------
(* Properties *)

\* Whatever is done in a repository meanwhile, one that the summary calls
\* pushed or up to date has on its remote all that was in its working tree
\* when the script came to it.
SyncedIsPushed ==
    \A i \in DOMAIN results :
        results[i].state \in {"ok", "pushed"} => results[i].asked \subseteq remote[repoAt[i]]
=============================================================================
