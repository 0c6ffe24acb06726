---------------------------- MODULE AgentScripts ----------------------------
(* src/scripts/agent: promote-dbl-to-main.mjs replaces the agent in use by   *)
(* the one under development, file by file; generate-readme-folder-          *)
(* updates.mjs collects the updates of the folders into a section of the     *)
(* README.                                                                   *)
EXTENDS Integers, Sequences, SequencesExt

CONSTANTS
    AgentFiles,     \* of an agent
    Updates,        \* texts a folder's update file may hold, as tokens
    MaxAgentEdits, MaxReadmeEdits, MaxScriptFaults,
    MaxScriptRuns   \* of each of the two

Section == {"start", "end"}
Tokens == {"prose", "heading", "$&", "news", "title", "no update file"} \cup Section

ASSUME AgentScriptsAssumption ==
    /\ Updates \subseteq Seq(Tokens)
    /\ {MaxAgentEdits, MaxReadmeEdits, MaxScriptFaults, MaxScriptRuns} \subseteq Nat

VARIABLES
    dbl, main,      \* version of each file of the two agents, 0 for none
    promotion,
    dblEdited,      \* since the last promotion began
    readme,         \* tokens
    update,         \* what the folder's update file holds, or NoUpdate
    generator,
    readmeEdited,   \* README or update file, since they were last read
    agentEdits, readmeEdits, scriptFaults

scriptVars == <<dbl, main, promotion, dblEdited, readme, update, generator, readmeEdited,
                agentEdits, readmeEdits, scriptFaults>>

NoUpdate == <<"no update file">>
Versions == 0 .. MaxAgentEdits + 2

AgentScriptsTypeOK ==
    /\ dbl \in [AgentFiles -> Versions] /\ main \in [AgentFiles -> Versions]
    /\ promotion \in [phase : {"none", "removing", "copying", "done", "failed"},
                      left : SUBSET AgentFiles, runs : 0 .. MaxScriptRuns]
    /\ readme \in Seq(Tokens) /\ update \in Updates \cup {NoUpdate}
    /\ generator \in [phase : {"none", "writing", "done", "failed"}, text : Seq(Tokens),
                      runs : 0 .. MaxScriptRuns]
    /\ {dblEdited, readmeEdited} \subseteq BOOLEAN
    /\ agentEdits \in 0 .. MaxAgentEdits /\ readmeEdits \in 0 .. MaxReadmeEdits
    /\ scriptFaults \in 0 .. MaxScriptFaults

NotPromoting == [phase |-> "none", left |-> {}, runs |-> 0]
NotGenerating == [phase |-> "none", text |-> <<>>, runs |-> 0]

AgentScriptsInit ==
    /\ main = [f \in AgentFiles |-> 1] /\ dbl \in [AgentFiles -> 0 .. 2]
    /\ promotion = NotPromoting /\ dblEdited = FALSE
    /\ readme \in {<<"prose">>, <<"prose", "start", "end", "prose">>, <<"end", "prose", "start">>}
    /\ update \in Updates \cup {NoUpdate}
    /\ generator = NotGenerating /\ readmeEdited = FALSE
    /\ agentEdits = 0 /\ readmeEdits = 0 /\ scriptFaults = 0

ReadmeStays == UNCHANGED <<readme, update, generator, readmeEdited, readmeEdits>>
AgentsStay == UNCHANGED <<dbl, main, promotion, dblEdited, agentEdits>>

-----------------------------------------------------------------------------
(* promote-dbl-to-main.mjs *)

\* A file of the agent under development is written, or deleted.
EditDbl(f, deleted) ==
    /\ agentEdits < MaxAgentEdits /\ agentEdits' = agentEdits + 1
    /\ dbl' = [dbl EXCEPT ![f] = IF deleted THEN 0 ELSE agentEdits' + 2]
    /\ dblEdited' = TRUE
    /\ UNCHANGED <<main, promotion, scriptFaults>> /\ ReadmeStays

Promote ==
    /\ promotion.phase \notin {"removing", "copying"} /\ promotion.runs < MaxScriptRuns
    /\ promotion' = [phase |-> "removing", left |-> {f \in AgentFiles : main[f] # 0},
                      runs |-> promotion.runs + 1]
    /\ dblEdited' = FALSE
    /\ UNCHANGED <<dbl, main, agentEdits, scriptFaults>> /\ ReadmeStays

RemoveOne(f) ==
    /\ promotion.phase = "removing" /\ f \in promotion.left
    /\ main' = [main EXCEPT ![f] = 0] /\ promotion' = [promotion EXCEPT !.left = @ \ {f}]
    /\ UNCHANGED <<dbl, dblEdited, agentEdits, scriptFaults>> /\ ReadmeStays

ListDbl ==
    /\ promotion.phase = "removing" /\ promotion.left = {}
    /\ promotion' = [promotion EXCEPT !.phase = "copying", !.left = {f \in AgentFiles : dbl[f] # 0}]
    /\ UNCHANGED <<dbl, main, dblEdited, agentEdits, scriptFaults>> /\ ReadmeStays

\* A listed file that is gone ends the promotion where it is.
CopyOne(f) ==
    /\ promotion.phase = "copying" /\ f \in promotion.left
    /\ IF dbl[f] = 0 THEN promotion' = [promotion EXCEPT !.phase = "failed"] /\ UNCHANGED main
       ELSE /\ promotion' = [promotion EXCEPT !.left = @ \ {f}]
            /\ main' = [main EXCEPT ![f] = dbl[f]]
    /\ UNCHANGED <<dbl, dblEdited, agentEdits, scriptFaults>> /\ ReadmeStays

Promoted ==
    /\ promotion.phase = "copying" /\ promotion.left = {}
    /\ promotion' = [promotion EXCEPT !.phase = "done"]
    /\ UNCHANGED <<dbl, main, dblEdited, agentEdits, scriptFaults>> /\ ReadmeStays

\* Interrupted: what is removed stays removed until the next promotion.
PromotionDies ==
    /\ promotion.phase \in {"removing", "copying"}
    /\ scriptFaults < MaxScriptFaults /\ scriptFaults' = scriptFaults + 1
    /\ promotion' = [promotion EXCEPT !.phase = "failed"]
    /\ UNCHANGED <<dbl, main, dblEdited, agentEdits>> /\ ReadmeStays

-----------------------------------------------------------------------------
(* generate-readme-folder-updates.mjs *)

\* buildGeneratedSection, of the one entry.
Generated(text) == <<"title">> \o text

\* The first start that an end follows, up to the first such end.
Marked(text) ==
    {m \in (DOMAIN text) \X (DOMAIN text) :
        /\ m[1] < m[2] /\ text[m[1]] = "start" /\ text[m[2]] = "end"
        /\ \A i \in m[1] .. m[2] - 1 : text[i] # "end"
        /\ \A i \in 1 .. m[1] - 1 : text[i] = "start" => \A j \in i .. Len(text) : text[j] # "end"}

\* String.replace puts the text it replaces where the new one says $&.
Expanded(block, matched) ==
    FlattenSeq([i \in DOMAIN block |-> IF block[i] = "$&" THEN matched ELSE <<block[i]>>])

\* injectSection: with both markers but no start before an end nothing changes.
InjectSection(text, generated) ==
    LET block == <<"start">> \o generated \o <<"end">> IN
    IF Contains(text, "start") /\ Contains(text, "end")
    THEN IF Marked(text) = {} THEN text
         ELSE LET m == CHOOSE x \in Marked(text) : TRUE IN
              SubSeq(text, 1, m[1] - 1) \o Expanded(block, SubSeq(text, m[1], m[2]))
              \o SubSeq(text, m[2] + 1, Len(text))
    ELSE text \o <<"heading">> \o block

EditReadme(text) ==
    /\ readmeEdits < MaxReadmeEdits /\ readmeEdits' = readmeEdits + 1
    /\ readme' = text \o readme /\ readmeEdited' = TRUE
    /\ UNCHANGED <<update, generator, scriptFaults>> /\ AgentsStay

EditUpdate(text) ==
    /\ readmeEdits < MaxReadmeEdits /\ readmeEdits' = readmeEdits + 1
    /\ text # update /\ update' = text /\ readmeEdited' = TRUE
    /\ UNCHANGED <<readme, generator, scriptFaults>> /\ AgentsStay

\* README and updates are read, and the new README is made.
ReadUpdates ==
    /\ generator.phase # "writing" /\ generator.runs < MaxScriptRuns
    /\ generator' = [phase |-> "writing", text |-> InjectSection(readme, Generated(update)),
                      runs |-> generator.runs + 1]
    /\ readmeEdited' = FALSE
    /\ UNCHANGED <<readme, update, readmeEdits, scriptFaults>> /\ AgentsStay

WriteReadme ==
    /\ generator.phase = "writing"
    /\ readme' = generator.text /\ generator' = [generator EXCEPT !.text = <<>>, !.phase = "done"]
    /\ UNCHANGED <<update, readmeEdited, readmeEdits, scriptFaults>> /\ AgentsStay

GeneratorDies ==
    /\ generator.phase = "writing"
    /\ scriptFaults < MaxScriptFaults /\ scriptFaults' = scriptFaults + 1
    /\ generator' = [generator EXCEPT !.text = <<>>, !.phase = "failed"]
    /\ UNCHANGED <<readme, update, readmeEdited, readmeEdits>> /\ AgentsStay

PromotionNext ==
    \/ \E f \in AgentFiles : EditDbl(f, TRUE) \/ EditDbl(f, FALSE) \/ RemoveOne(f) \/ CopyOne(f)
    \/ Promote \/ ListDbl \/ Promoted \/ PromotionDies

ReadmeNext ==
    \/ EditReadme(<<"prose">>) \/ \E text \in Updates : EditUpdate(text)
    \/ ReadUpdates \/ WriteReadme \/ GeneratorDies

-----------------------------------------------------------------------------
(* Properties *)

\* A promotion that ends well, with nobody editing meanwhile, leaves exactly
\* the agent under development, whatever an earlier one left half done.
PromotedIsCopied == promotion.phase = "done" /\ ~dblEdited => main = dbl

\* Generating the section again from the same updates changes nothing, unless
\* an update holds a marker or a replacement pattern itself.
SectionStable ==
    generator.phase = "done" /\ ~readmeEdited /\ ToSet(update) \cap (Section \cup {"$&"}) = {} =>
        InjectSection(readme, Generated(update)) = readme
=============================================================================
