----------------------------- MODULE AgentPanel -----------------------------
(* The chat with the agents, src/src/components/AgentPanel.ts, and the calls *)
(* of tools behind it, src/src/agent/shared/mcp-agent-core.ts.  A request    *)
(* becomes a card that the user runs or cancels; running is asynchronous.    *)
(* The chat is written to localStorage after each change of it and read when *)
(* the page is loaded again; a write that is refused is passed over.         *)
EXTENDS Integers, SequencesExt

CONSTANTS
    Tools,          \* of the agents
    MissingTool,    \* a name after "/" no agent has
    MaxSaved,       \* maxSavedMessages
    MaxCards,       \* cards offered
    MaxAsides       \* other things said, writes localStorage refuses, reloads

ASSUME AgentPanelAssumption ==
    /\ MissingTool \notin Tools /\ MaxSaved \in Nat \ {0}
    /\ {MaxCards, MaxAsides} \subseteq Nat

Agents == {"main", "dbl"}
CONTEXT_WINDOW == 2
NoTool == "no tool"

VARIABLES
    messages, savedMessages,    \* in memory, in localStorage
    currentAgent,
    jobs,                       \* calls of a tool under way
    cards,                      \* offered so far
    ran,                        \* how often each was run
    cancelled,                  \* those the user cancelled
    turns, chatFaults, chatReloads

chatVars == <<messages, savedMessages, currentAgent, jobs, cards, ran, cancelled,
              turns, chatFaults, chatReloads>>

Names == Tools \cup {MissingTool, NoTool}
Message == [kind : {"user", "system", "assistant", "card", "cancelled"},
            tool : Names, card : 0 .. MaxCards]
IsChat(ms) == ms \in Seq(Message) /\ Len(ms) <= MaxSaved
Job == [card : 1 .. MaxCards, tool : Tools, agent : Agents]

AgentPanelTypeOK ==
    /\ IsChat(messages) /\ IsChat(savedMessages)
    /\ currentAgent \in Agents /\ jobs \subseteq Job
    /\ cards \in 0 .. MaxCards /\ ran \in [1 .. MaxCards -> 0 .. 2]
    /\ cancelled \subseteq 1 .. cards
    /\ {turns, chatFaults, chatReloads} \subseteq 0 .. MaxAsides

Says(kind, tool) == [kind |-> kind, tool |-> tool, card |-> 0]
Note == Says("system", NoTool)

AgentPanelInit ==
    /\ messages = <<Note>> /\ savedMessages = <<Note>>
    /\ currentAgent = "main" /\ jobs = {}
    /\ cards = 0 /\ ran = [c \in 1 .. MaxCards |-> 0] /\ cancelled = {}
    /\ turns = 0 /\ chatFaults = 0 /\ chatReloads = 0

\* messages.slice(-MAX_SAVED_MESSAGES)
Trimmed(ms) == SubSeq(ms, Len(ms) - MaxSaved + 1, Len(ms))
Latest(ms) == IF Len(ms) > MaxSaved THEN Trimmed(ms) ELSE ms

MayStray == turns + chatFaults + chatReloads < MaxAsides

\* The chat goes through these states in one turn, and each is written; one of
\* the writes may be refused, or several.
Through(states) ==
    /\ messages' = Last(states)
    /\ \/ savedMessages' = Last(states) /\ UNCHANGED chatFaults
       \/ /\ MayStray /\ chatFaults' = chatFaults + 1
          /\ savedMessages' \in {savedMessages} \cup Range(Front(states))

\* appendMessage, one after the other.
Posted(ms, added) == [i \in DOMAIN added |-> Latest(ms \o SubSeq(added, 1, i))]
Post(added) == Through(Posted(messages, added))

Turn == MayStray /\ turns' = turns + 1
NoTurn == UNCHANGED <<turns, chatReloads>>
Cards == UNCHANGED <<cards, ran, cancelled>>

\* getContextMessages: the last messages but system notes.  The one just sent
\* is one of them, and may have pushed out the oldest.
Said == {i \in DOMAIN messages : /\ messages[i].kind # "system"
                                 /\ i > 1 \/ Len(messages) < MaxSaved}
Context == {i \in Said : Cardinality({j \in Said : j >= i}) < CONTEXT_WINDOW}
Named == {i \in Context : messages[i].tool # NoTool}

\* sendChatMessage: what resolveCallFromMessage makes of it is a tool, the one
\* before when the user says "again", or a name nobody knows.
Ask(tool) ==
    /\ cards < MaxCards
    /\ Post(<<Says("user", NoTool), [kind |-> "card", tool |-> tool, card |-> cards + 1]>>)
    /\ cards' = cards + 1
    /\ UNCHANGED <<currentAgent, jobs, ran, cancelled>> /\ NoTurn

Again == \E i \in Named : (\A j \in Named : j <= i) /\ Ask(messages[i].tool)

\* It cannot be mapped to a tool.
AskUnclear ==
    /\ Turn /\ Post(<<Says("user", NoTool), Says("assistant", NoTool)>>)
    /\ UNCHANGED <<currentAgent, jobs, chatReloads>> /\ Cards

SwitchAgent ==
    /\ Turn /\ currentAgent' \in Agents \ {currentAgent} /\ Post(<<Note>>)
    /\ UNCHANGED <<jobs, chatReloads>> /\ Cards

ListTools ==
    /\ Turn /\ Post(<<Says("assistant", NoTool)>>)
    /\ UNCHANGED <<currentAgent, jobs, chatReloads>> /\ Cards

ClearChat ==
    /\ Turn /\ Through(<<<<>>, <<Note>>>>)
    /\ UNCHANGED <<currentAgent, jobs, chatReloads>> /\ Cards

\* A call that was not made from the chat ends in an error: its narration.
OutsideError ==
    /\ Turn /\ Post(<<Note>>)
    /\ UNCHANGED <<currentAgent, jobs, chatReloads>> /\ Cards

CardsOf(ms) == {i \in DOMAIN ms : ms[i].kind = "card"}

\* Variant: the card is replaced on screen only.
CancelUnsaved(i) ==
    /\ i \in CardsOf(messages)
    /\ messages' = [messages EXCEPT ![i].kind = "cancelled"]
    /\ cancelled' = cancelled \cup {messages[i].card}
    /\ UNCHANGED <<savedMessages, chatFaults, currentAgent, jobs, cards, ran>> /\ NoTurn

Cancel(i) ==
    /\ i \in CardsOf(messages)
    /\ Through(<<[messages EXCEPT ![i].kind = "cancelled"]>>)
    /\ cancelled' = cancelled \cup {messages[i].card}
    /\ UNCHANGED <<currentAgent, jobs, cards, ran>> /\ NoTurn

\* executeApproved: the card makes place for a note, then the tool runs.  What
\* it says in the same turn is added; otherwise it is at work.
Approve(i, added, started) ==
    /\ i \in CardsOf(messages)
    /\ Through(Posted(RemoveAt(messages, i), <<Note>> \o added))
    /\ ran' = [ran EXCEPT ![messages[i].card] = IF @ < 2 THEN @ + 1 ELSE 2]
    /\ jobs' = jobs \cup started
    /\ UNCHANGED <<currentAgent, cards, cancelled>> /\ NoTurn

\* A tool that succeeds answers; one that does not is narrated first.
Success(tool) == <<Says("assistant", tool)>>
Failure(tool) == <<Note, Says("assistant", tool)>>

\* callTool writes a report first; when localStorage refuses it, the call is
\* rejected, and the answer names no tool.
Rejections(tool) == {Failure(tool), <<Says("assistant", NoTool)>>}

\* callTool without such a tool.
ApproveMissing(i) ==
    /\ messages[i].tool = MissingTool
    /\ \E answer \in Rejections(MissingTool) : Approve(i, answer, {})

ApproveAtOnce(i, ok) ==
    LET tool == messages[i].tool IN
    /\ tool \in Tools
    /\ Approve(i, IF ok THEN Success(tool) ELSE Failure(tool), {})

\* The call is made on the agent selected by now.
ApproveAndWait(i) ==
    /\ messages[i].tool \in Tools
    /\ Approve(i, <<>>, {[card |-> messages[i].card, tool |-> messages[i].tool,
                          agent |-> currentAgent]})

Answer(j, ok) ==
    /\ j \in jobs /\ jobs' = jobs \ {j}
    /\ \E answer \in IF ok THEN {Success(j.tool)} ELSE Rejections(j.tool) : Post(answer)
    /\ UNCHANGED currentAgent /\ Cards /\ NoTurn

\* loadMessages, and the first note of init.
ReloadChat ==
    /\ MayStray /\ chatReloads' = chatReloads + 1
    /\ Through(<<Latest(Append(savedMessages, Note))>>)
    /\ currentAgent' = "main" /\ jobs' = {}
    /\ UNCHANGED turns /\ Cards

ChatGoesOn ==
    \/ \E tool \in Tools \cup {MissingTool} : Ask(tool)
    \/ Again \/ AskUnclear \/ SwitchAgent \/ ListTools \/ ClearChat \/ OutsideError
    \/ \E i \in CardsOf(messages) : Cancel(i) \/ ApproveMissing(i)

-----------------------------------------------------------------------------
(* Properties *)

\* A card runs its tool at most once, and not at all when it was cancelled,
\* whatever is pressed and however often the page is loaded again: unless
\* localStorage refused a write, when an old card may come back.
RunsAtMostOnce ==
    chatFaults = 0 => \A c \in 1 .. MaxCards : ran[c] <= IF c \in cancelled THEN 0 ELSE 1
=============================================================================
