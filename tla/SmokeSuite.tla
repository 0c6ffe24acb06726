----------------------------- MODULE SmokeSuite -----------------------------
(* The commands of the mock model, src/mock_model_smoke/src/index.mjs and    *)
(* core/smoke-runner.mjs: smoke copies a fixture, tries a scenario on the    *)
(* copy without writing, then one edit for real, and looks at the result;    *)
(* simulate and run are one batch each.  Every command is a process of its   *)
(* own, and all smokes share one copy.                                       *)
EXTENDS FileEdits

CONSTANTS
    Fixture, Temp,      \* two of the Paths
    Scenario,           \* a sequence of actions on Temp and what is expected
    Prompts,            \* the actions that simulate and run are asked for
    MaxBatches          \* processes that simulate or run

ASSUME SmokeSuiteAssumption ==
    /\ {Fixture, Temp} \subseteq Paths /\ Fixture # Temp
    /\ Scenario \in Seq([action : Actions, expected : BOOLEAN]) /\ Prompts \subseteq Actions
    /\ Len(Scenario) <= MaxRequests /\ MaxRequests >= 1 /\ MaxBatches \in Nat

VARIABLES
    command,        \* of each process
    disturbed       \* processes that were not alone from their start until now

smokeVars == <<fileVars, command, disturbed>>

NoCommand == [kind |-> "none", phase |-> "idle", matched |-> TRUE]

SmokeSuiteTypeOK ==
    /\ FileEditsTypeOK
    /\ command \in [Processes ->
          [kind : {"none", "smoke", "batch"}, matched : BOOLEAN,
           phase : {"idle", "copying", "trying", "applying", "verifying", "reporting",
                    "passed", "failed"}]]
    /\ disturbed \subseteq Processes

SmokeSuiteInit ==
    /\ FileEditsInit /\ disk[Fixture] # Absent
    /\ command = [p \in Processes |-> NoCommand] /\ disturbed = {}

Active(p) == command[p].phase \notin {"idle", "passed", "failed"}
Enters(p, phase) == command' = [command EXCEPT ![p].phase = phase]

\* One command more: it disturbs, and is disturbed by, the ones before it.
Begins(p, kind, phase) ==
    /\ command[p] = NoCommand
    /\ command' = [command EXCEPT ![p] = [NoCommand EXCEPT !.kind = kind, !.phase = phase]]
    /\ disturbed' = {q \in Processes : q # p /\ command[q] # NoCommand}
                    \cup {q \in {p} : \E s \in Processes : Active(s)}
                    \cup disturbed

\* Variant: applyEdits is not looked at.
NewWritingBatch(p, apply) ==
    /\ applyEdits' = [applyEdits EXCEPT ![p] = TRUE]
    /\ request' = [r \in Requests |-> IF r[1] = p THEN NotAsked ELSE request[r]]

\* executeRequests
NewBatch(p, apply) ==
    /\ applyEdits' = [applyEdits EXCEPT ![p] = apply]
    /\ request' = [r \in Requests |-> IF r[1] = p THEN NotAsked ELSE request[r]]

StartSmoke(p) == Begins(p, "smoke", "copying") /\ UNCHANGED fileVars

StartBatch(p, apply) ==
    /\ Cardinality({q \in Processes : command[q].kind = "batch"}) < MaxBatches
    /\ Begins(p, "batch", "applying") /\ NewBatch(p, apply)
    /\ UNCHANGED <<disk, changes, contended, diskFaults>>

\* The copy is made under whatever works on it, and the dry batch begins.
CopyFixture(p) ==
    /\ command[p].phase = "copying"
    /\ IF IsFile(Fixture) /\ disk[Temp] # Directory
       THEN /\ Puts(Temp, disk[Fixture]) /\ Reported(Temp, disk[Temp], disk[Fixture])
            /\ contended' = contended
                   \cup {q \in {Temp, Fixture} : \E r \in InFlight : q \in Touches(request[r].action)}
            /\ NewBatch(p, FALSE) /\ Enters(p, "trying")
       ELSE Enters(p, "failed") /\ UNCHANGED <<disk, changes, contended, applyEdits, request>>
    /\ UNCHANGED <<diskFaults, disturbed>>

Wanted(a) == [action |-> a, expected |-> TRUE]

\* What a request of the batch asks for.
Asked(r) ==
    LET c == command[r[1]] IN
    CASE c.phase = "trying" /\ r[2] <= Len(Scenario) -> {Scenario[r[2]]}
      [] c.phase = "applying" /\ c.kind = "smoke" /\ r[2] = 1 ->
             {Wanted([Plain("replace_text", Temp) EXCEPT !.text = "new"])}
      [] c.phase = "applying" /\ c.kind = "batch" -> {Wanted(a) : a \in Prompts}
      [] OTHER -> {}

StartRequest(r) ==
    /\ \E asked \in Asked(r) : StartAction(r, asked.action, asked.expected)
                              \/ NotUnderstood(r, asked.expected)
    /\ UNCHANGED <<command, disturbed>>

BatchSize(p) ==
    IF command[p].phase = "trying" THEN Len(Scenario)
    ELSE IF command[p].kind = "smoke" THEN 1 ELSE MaxRequests

\* buildReport: how many of the requests ended as expected.
Matches(p) == {n \in 1 .. BatchSize(p) : request[<<p, n>>].ok = request[<<p, n>>].expected}

BatchEnds(p) ==
    LET matched == Cardinality(Matches(p)) = BatchSize(p) IN
    /\ command[p].phase \in {"trying", "applying"}
    /\ \A n \in 1 .. BatchSize(p) : request[<<p, n>>].stage = "done"
    /\ command' = [command EXCEPT
          ![p].matched = @ /\ matched,
          ![p].phase = CASE @ = "trying" -> "applying"
                         [] @ = "applying" /\ command[p].kind = "smoke" -> "verifying"
                         [] OTHER -> "reporting"]
    /\ IF command[p].phase = "trying" THEN NewBatch(p, TRUE) ELSE NewBatch(p, applyEdits[p])
    /\ UNCHANGED <<disk, changes, contended, diskFaults, disturbed>>

\* The copy is read back.
Verify(p) ==
    /\ command[p].phase = "verifying"
    /\ command' = [command EXCEPT
          ![p].phase = IF IsFile(Temp) THEN "reporting" ELSE "failed",
          ![p].matched = @ /\ Contains(disk[Temp], "new")]
    /\ UNCHANGED <<fileVars, disturbed>>

\* The report is written, and the exit code tells.
WriteReport(p) ==
    /\ command[p].phase = "reporting"
    /\ Enters(p, IF command[p].matched THEN "passed" ELSE "failed")
    /\ UNCHANGED <<fileVars, disturbed>>

\* A configuration, a scenario or a report that cannot be read or written.
CommandFails(p) ==
    /\ command[p].phase \in {"copying", "reporting"} /\ diskFaults < MaxDiskFaults
    /\ Enters(p, "failed") /\ diskFaults' = diskFaults + 1
    /\ UNCHANGED <<disk, applyEdits, request, changes, contended, disturbed>>

SmokeSuiteNext ==
    \/ \E p \in Processes :
          \/ StartSmoke(p) \/ \E apply \in BOOLEAN : StartBatch(p, apply)
          \/ CopyFixture(p) \/ BatchEnds(p) \/ Verify(p) \/ WriteReport(p) \/ CommandFails(p)
    \/ \E r \in Requests : StartRequest(r)
    \/ EngineNext /\ UNCHANGED <<command, disturbed>>

-----------------------------------------------------------------------------
(* Properties *)

\* A smoke that passes with no other command beside it leaves its copy exactly
\* one replacement away from the fixture: the batch that only tries has
\* written nothing, the edit was made once, and both batches went as expected.
SmokeMeansWorking ==
    \A p \in Processes \ disturbed :
        command[p].kind = "smoke" /\ command[p].phase = "passed" =>
            /\ IsFile(Fixture) /\ Applies(Plain("replace_text", Fixture), disk[Fixture])
            /\ disk[Temp] = Replaced(disk[Fixture], "new")
=============================================================================
