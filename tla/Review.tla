------------------------------- MODULE Review -------------------------------
(* The review of a working tree, src/code_review/review-core.mjs and         *)
(* scripts/run-all.mjs, and the check-in that chains it with                 *)
(* src/scripts/agent/checkin.mjs.  Checks follow one another; each collects  *)
(* the files and reads them one by one, while they are edited.  A file is    *)
(* the set of traits the patterns of the checks can tell.                    *)
EXTENDS Integers, FiniteSets, Sequences

CONSTANTS
    Files,          \* a sequence of [ext, under], in the order of the walk
    Contents,       \* the traits each file may have: a sequence of sets of sets
    Checks,         \* names, in the order of run-all.mjs
    OwnExcludes,    \* of the folders named by under, those config.json excludes
    IgnoreRules,    \* of config.json: [check, file, trait], file 0 or trait "" for any
    MaxSaves, MaxReviews, MaxReviewFaults

\* EXCLUDED_DIRS and DEFAULT_EXCLUDED_PREFIXES, as one folder.
DefaultExcludes == {"vendored"}

ASSUME ReviewAssumption ==
    /\ Files \in Seq([ext : STRING, under : STRING])
    /\ DOMAIN Contents = DOMAIN Files /\ \A f \in DOMAIN Files : Contents[f] # {}
    /\ Checks \in Seq(STRING) /\ Checks # <<>>
    /\ Cardinality({i \in DOMAIN Files : Files[i].ext = "md"}) <= 1      \* README.md
    /\ {MaxSaves, MaxReviews, MaxReviewFaults} \subseteq Nat

VARIABLES
    tree,           \* the traits of each file, or Gone
    config,         \* what config.json holds, or Unreadable
    review,         \* the review under way
    report,         \* latest-review.json
    chain,          \* the check-in around it
    edited,         \* files saved since the chain began
    saves, reviews, reviewFaults

reviewVars == <<tree, config, review, report, chain, edited, saves, reviews, reviewFaults>>

FileIds == DOMAIN Files
Gone == {"gone"}

-----------------------------------------------------------------------------
(* Configuration *)

DefaultConfig == [excludes |-> DefaultExcludes, ignore |-> {},
                  maxHigh |-> 0, maxMedium |-> 5, failOnSmoke |-> TRUE]
Unreadable == DefaultConfig

\* mergeConfig, of what config.json may hold: excludes are added to the defaults.
ConfigFiles ==
    {[excludes |-> DefaultExcludes \cup OwnExcludes, ignore |-> IgnoreRules,
      maxHigh |-> 0, maxMedium |-> 1, failOnSmoke |-> smoke] : smoke \in BOOLEAN}

\* Four of the checks walk with the defaults, whatever config.json excludes.
WalksWithDefaults == {"code-smells", "security", "performance-memory", "wcag-colors"}

\* collectFiles: text files outside the excluded folders.
TextExts == {"ts", "js", "mjs", "html", "css", "py", "go", "php", "md"}
Collected(check, cfg) ==
    LET excludes == IF check \in WalksWithDefaults THEN DefaultExcludes ELSE cfg.excludes IN
    {f \in FileIds : tree[f] # Gone /\ Files[f].ext \in TextExts /\ Files[f].under \notin excludes}

\* Folders with a go.mod.
GoModules(cfg) == {Files[f].under : f \in {g \in Collected("go-funcs", cfg) : Files[g].ext = "go"}}

-----------------------------------------------------------------------------
(* The checks: what each finds in a file of an extension with some traits *)

Found(severity, what) == [severity |-> severity, what |-> what]
All(severity, traits, watched) == {Found(severity, w) : w \in traits \cap watched}
CodeExts == {"ts", "js", "mjs", "py", "go", "php"}

CheckFileLines(ext, traits) == All("high", traits, {"long"})

CheckCodeSmells(ext, traits) ==
    IF ext \in CodeExts THEN All("low", traits, {"console.log", "todo", "magic number"}) ELSE {}

CheckSecurity(ext, traits) ==
    IF ext \in CodeExts \cup {"html"}
    THEN All("high", traits, {"eval", "new Function", "innerHTML", "secret"})
         \cup All("medium", traits, {"child_process"})
    ELSE {}

\* The estimate is over the threshold, or over it by more than five.
CheckComplexity(ext, traits) ==
    IF ext \in CodeExts THEN All("medium", traits, {"branchy"}) \cup All("high", traits, {"tangled"})
    ELSE {}

CheckPerformanceMemory(ext, traits) ==
    IF ext \in CodeExts
    THEN All("high", traits, {"while true", "large array"})
         \cup All("medium", traits, {"setInterval", "json from file"})
    ELSE {}

CheckGoFuncs(ext, traits) ==
    IF ext = "go" /\ "test" \notin traits THEN All("low", traits, {"undocumented"}) ELSE {}

CheckPdoPepTemplating(ext, traits) ==
    CASE ext = "py" -> All("low", traits, {"wide line", "tab"})
      [] ext = "php" -> All("high", traits, {"sql in query"})
      [] ext \in {"html", "ts", "js"} -> All("medium", traits, {"raw template"})
      [] OTHER -> {}

\* Of a pair of colors in one rule, by its ratio: under 3, 4.5 and 7.
CheckWcagColors(ext, traits) ==
    IF ext = "css" THEN All("high", traits, {"contrast 2"}) \cup All("medium", traits, {"contrast 4"})
                        \cup All("low", traits, {"contrast 6", "hex color"})
    ELSE {}

\* Every concept must be in the documents.
CheckServerReadiness(ext, traits) ==
    IF ext = "md" /\ "all concepts" \notin traits THEN {Found("high", "concept")} ELSE {}

InFile(check, f, traits) ==
    LET ext == Files[f].ext IN
    CASE check = "file-lines"         -> CheckFileLines(ext, traits)
      [] check = "code-smells"        -> CheckCodeSmells(ext, traits)
      [] check = "security"           -> CheckSecurity(ext, traits)
      [] check = "complexity"         -> CheckComplexity(ext, traits)
      [] check = "performance-memory" -> CheckPerformanceMemory(ext, traits)
      [] check = "go-funcs"           -> CheckGoFuncs(ext, traits)
      [] check = "pdo-pep-templating" -> CheckPdoPepTemplating(ext, traits)
      [] check = "wcag-colors"        -> CheckWcagColors(ext, traits)
      [] check = "server-readiness"   -> CheckServerReadiness(ext, traits)
      [] OTHER                        -> {}

\* The files a check reads at all; the ones it collects and skips cannot fail it.
Examines(check) ==
    CASE check \in {"file-lines", "pdo-pep-templating"} -> TextExts
      [] check \in {"code-smells", "complexity", "performance-memory"} -> CodeExts
      [] check = "security" -> CodeExts \cup {"html"}
      [] check = "go-funcs" -> {"go"}
      [] check = "wcag-colors" -> {"css"}
      [] OTHER -> {}

\* The documents are looked for by name, here or not.
ToRead(check, cfg) ==
    IF check = "server-readiness" THEN {f \in FileIds : Files[f].ext = "md"}
    ELSE {f \in Collected(check, cfg) : Files[f].ext \in Examines(check)}

-----------------------------------------------------------------------------
(* Tools that are run: what their output becomes *)

\* No package.json, no configuration, no output, or a list of messages; what
\* does not parse is one finding.
CheckESLint(messages) ==
    {{}, {Found("medium", "no eslint.config.mjs")}, {Found("medium", "failed to run")},
     {Found("medium", "not JSON")}, messages}

\* Without ruff nothing is said.
CheckRuff(messages) == {{}, {Found("medium", "failed to run")}, {Found("medium", "not JSON")}, messages}

CheckGoLint(messages) == {{}, {Found("medium", "gofmt")}, messages}

\* npm audit counts by severity; critical is not among those it is asked for.
CheckDependencyAudit(counted) ==
    {{}, {Found("medium", "not JSON")},
     {Found(IF s = "high" THEN "high" ELSE "medium", s) : s \in counted \cap {"high", "moderate", "low"}}}

GoVet(cfg) == IF GoModules(cfg) = {} THEN {{}} ELSE {{}, {Found("high", "go vet")}}

ToolChecks == {"eslint", "ruff", "go-lint", "dependency-audit", "go-funcs"}
FromTool(check, cfg) ==
    CASE check = "eslint" -> CheckESLint({Found("high", "fatal"), Found("low", "warning")})
      [] check = "ruff" -> CheckRuff({Found("low", "E")})
      [] check = "go-lint" -> IF GoModules(cfg) = {} THEN {{}} ELSE CheckGoLint({Found("medium", "lint")})
      [] check = "dependency-audit" -> CheckDependencyAudit({"critical", "moderate"})
      [] check = "go-funcs" -> GoVet(cfg)

-----------------------------------------------------------------------------
(* Findings *)

\* shouldIgnoreFinding: a rule matches the file and the message, or leaves one out.
Ignored(cfg, check, f, found) ==
    \E rule \in cfg.ignore :
        /\ rule.check = check
        /\ rule.file = 0 \/ rule.file = f
        /\ rule.trait = "" \/ rule.trait = found.what

Kept(cfg, check, f, findings) == {x \in findings : ~Ignored(cfg, check, f, x)}
Count(findings, severity) == Cardinality({x \in findings : x.severity = severity})

\* summarizeFindings; low ones decide nothing, nor does how far a count is over
\* what the policy allows.
UpToOver(count, allowed) == IF count > allowed THEN allowed + 1 ELSE count
Summary(cfg, summary, findings) ==
    [high |-> UpToOver(summary.high + Count(findings, "high"), cfg.maxHigh),
     medium |-> UpToOver(summary.medium + Count(findings, "medium"), cfg.maxMedium)]
NoFindings == [high |-> 0, medium |-> 0]

ShouldFail(profile, cfg, summary, built) ==
    /\ profile = "strict"
    /\ \/ summary.high > cfg.maxHigh \/ summary.medium > cfg.maxMedium
       \/ cfg.failOnSmoke /\ ~built

-----------------------------------------------------------------------------
(* A review *)

NoReport == [high |-> 0, medium |-> 0, state |-> "missing"]
TornReport == [NoReport EXCEPT !.state = "torn"]
Idle == [phase |-> "idle", profile |-> "strict", at |-> 1, todo |-> {}, summary |-> NoFindings,
         built |-> TRUE, cfg |-> DefaultConfig]
NoChain == [strict |-> FALSE, phase |-> "none"]

Counts == 0 .. 6

ReviewTypeOK ==
    /\ DOMAIN tree = FileIds /\ \A f \in FileIds : tree[f] \in Contents[f] \cup {Gone}
    /\ config \in ConfigFiles \cup {Unreadable}
    /\ review \in [phase : {"idle", "collecting", "reading", "building", "writing"},
                   profile : {"strict", "advisory"}, at : DOMAIN Checks, todo : SUBSET FileIds,
                   summary : [high : Counts, medium : Counts], built : BOOLEAN,
                   cfg : ConfigFiles \cup {Unreadable}]
    /\ report \in [high : Counts, medium : Counts, state : {"missing", "torn", "whole"}]
    /\ chain \in [strict : BOOLEAN,
                  phase : {"none", "reviewing", "readme", "status", "passed", "failed"}]
    /\ edited \subseteq FileIds
    /\ saves \in 0 .. MaxSaves /\ reviews \in 0 .. MaxReviews /\ reviewFaults \in 0 .. MaxReviewFaults

ReviewInit ==
    /\ \E content \in [FileIds -> UNION {Contents[f] : f \in FileIds}] :
          tree = content /\ \A f \in FileIds : content[f] \in Contents[f]
    /\ config \in ConfigFiles \cup {Unreadable}
    /\ review = Idle /\ report = NoReport /\ chain = NoChain
    /\ edited = {} /\ saves = 0 /\ reviews = 0 /\ reviewFaults = 0

\* The developer goes on working.
Save(f) ==
    /\ saves < MaxSaves /\ saves' = saves + 1
    /\ \E content \in Contents[f] \cup {Gone} : tree' = [tree EXCEPT ![f] = content]
    /\ edited' = edited \cup {f}
    /\ UNCHANGED <<config, review, report, chain, reviews, reviewFaults>>

Chained == chain.phase \in {"reviewing", "readme", "status"}
At == Checks[review.at]
Stays == UNCHANGED <<tree, config, edited, saves, reviews, reviewFaults>>

\* npm run review, or the first part of agent:checkin.
StartReview(profile, chained) ==
    /\ review.phase = "idle" /\ ~Chained
    /\ reviews < MaxReviews /\ reviews' = reviews + 1
    /\ review' = [Idle EXCEPT !.phase = "collecting", !.profile = profile, !.cfg = config]
    /\ chain' = IF chained THEN [strict |-> profile = "strict", phase |-> "reviewing"] ELSE NoChain
    /\ edited' = {}
    /\ UNCHANGED <<tree, config, report, saves, reviewFaults>>

Collect ==
    /\ review.phase = "collecting"
    /\ review' = [review EXCEPT !.phase = "reading",
          !.todo = ToRead(At, review.cfg)]
    /\ UNCHANGED <<report, chain>> /\ Stays

NextFile == CHOOSE f \in review.todo : \A g \in review.todo : f <= g
ExitsWith(ok) ==
    chain' = IF chain.phase # "reviewing" THEN chain
             ELSE [chain EXCEPT !.phase = IF ok THEN "readme" ELSE "failed"]

\* A file that is gone since the walk ends the whole review; only the documents
\* are looked for again.
ReadFile ==
    LET f == NextFile IN
    /\ review.phase = "reading" /\ review.todo # {}
    /\ IF tree[f] = Gone /\ At # "server-readiness"
       THEN review' = [review EXCEPT !.phase = "idle", !.todo = {}] /\ ExitsWith(FALSE)
       ELSE /\ review' = [review EXCEPT
                  !.todo = @ \ {f},
                  !.summary = Summary(review.cfg, @, Kept(review.cfg, At, f, InFile(At, f, tree[f])))]
            /\ UNCHANGED chain
    /\ UNCHANGED report /\ Stays

\* Variant: a review starts its count again with every check.
FinishAndForget ==
    /\ review.phase = "reading" /\ review.todo = {}
    /\ review' = [review EXCEPT
          !.phase = IF review.at = Len(Checks) THEN "building" ELSE "collecting",
          !.at = IF review.at = Len(Checks) THEN @ ELSE @ + 1,
          !.summary = IF review.at = Len(Checks) THEN @ ELSE NoFindings]
    /\ UNCHANGED <<report, chain>> /\ Stays

\* The tool of a check has run, if it has one, and the next check begins.
FinishCheck ==
    /\ review.phase = "reading" /\ review.todo = {}
    /\ \E findings \in IF At \in ToolChecks THEN FromTool(At, review.cfg) ELSE {{}} :
          review' = [review EXCEPT
              !.phase = IF review.at = Len(Checks) THEN "building" ELSE "collecting",
              !.at = IF review.at = Len(Checks) THEN @ ELSE @ + 1,
              !.summary = Summary(review.cfg, @, Kept(review.cfg, At, 0, findings))]
    /\ UNCHANGED <<report, chain>> /\ Stays

\* npm run build; the report is opened for writing, which empties it.
Build(ok) ==
    /\ review.phase = "building"
    /\ review' = [review EXCEPT !.phase = "writing", !.built = ok]
    /\ report' = TornReport
    /\ UNCHANGED chain /\ Stays

\* The report is whole, and the exit code follows the policy.
WriteReview ==
    /\ review.phase = "writing"
    /\ review' = [review EXCEPT !.phase = "idle"]
    /\ report' = [high |-> review.summary.high, medium |-> review.summary.medium, state |-> "whole"]
    /\ ExitsWith(~ShouldFail(review.profile, review.cfg, review.summary, review.built))
    /\ Stays

\* It is interrupted, or cannot write.
ReviewDies ==
    /\ review.phase # "idle" /\ reviewFaults < MaxReviewFaults /\ reviewFaults' = reviewFaults + 1
    /\ review' = [review EXCEPT !.phase = "idle", !.todo = {}] /\ ExitsWith(FALSE)
    /\ UNCHANGED <<tree, config, report, edited, saves, reviews>>

\* Another review, of a tree of another time, leaves its report here.
OtherReview(high) ==
    /\ reviewFaults < MaxReviewFaults /\ reviewFaults' = reviewFaults + 1
    /\ report' = [NoReport EXCEPT !.high = high, !.state = "whole"]
    /\ UNCHANGED <<tree, config, review, chain, edited, saves, reviews>>

\* agent:readme:generate writes README.md.
ChainReadme(ok) ==
    /\ chain.phase = "readme" /\ review.phase = "idle"
    /\ chain' = [chain EXCEPT !.phase = IF ok THEN "status" ELSE "failed"]
    /\ edited' = IF ok THEN edited \cup {f \in FileIds : Files[f].ext = "md"} ELSE edited
    /\ UNCHANGED <<tree, config, review, report, saves, reviews, reviewFaults>>

\* checkin: whatever report is there is believed, but for one that cannot be read.
Checkin ==
    /\ chain.phase = "status"
    /\ chain' = [chain EXCEPT !.phase =
          IF chain.strict /\ (report.state # "whole" \/ report.high > 0) THEN "failed" ELSE "passed"]
    /\ UNCHANGED <<review, report>> /\ Stays

ReviewNext ==
    \/ \E f \in FileIds : Save(f)
    \/ \E profile \in {"strict", "advisory"}, chained \in BOOLEAN : StartReview(profile, chained)
    \/ Collect \/ ReadFile \/ FinishCheck \/ \E ok \in BOOLEAN : Build(ok)
    \/ WriteReview \/ ReviewDies \/ \E high \in 0 .. 1 : OtherReview(high)
    \/ \E ok \in BOOLEAN : ChainReadme(ok)
    \/ Checkin

-----------------------------------------------------------------------------
(* Properties *)

\* What check i of the last review finds in a file as it is.
StillFound(i, f) ==
    IF f \in ToRead(Checks[i], review.cfg)
    THEN Kept(review.cfg, Checks[i], f, InFile(Checks[i], f, tree[f])) ELSE {}

\* What all of its checks find in the files nobody saved since it began.
LeftOver(severity) ==
    UNION {{<<i, f, x>> : x \in {x \in StillFound(i, f) : x.severity = severity}} :
               i \in DOMAIN Checks, f \in FileIds \ edited}

\* When a strict check-in has passed, the files nobody saved since it began
\* hold nothing of high severity and no more of medium severity than the policy
\* allows, but for what the configuration excludes or ignores.
StrictMeansReviewed ==
    chain.strict /\ chain.phase = "passed" =>
        /\ Cardinality(LeftOver("high")) <= review.cfg.maxHigh
        /\ Cardinality(LeftOver("medium")) <= review.cfg.maxMedium
=============================================================================
