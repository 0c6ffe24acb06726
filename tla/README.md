# A specification of the PDF editor and its services

TLA+ modules, TLC configurations and TLAPS proofs for this repository.  Source
paths are given as in the repository with the prefix `src/`; the web client's
own directory is also called `src`, so its files are `src/src/...`.

Run a model with `tlc -config X.cfg M`, check proofs with `tlapm M.tla`.

## 1. The system

| Part | Code | State it keeps | Operations |
| --- | --- | --- | --- |
| Undo history | `src/src/utils/history.ts` | `past`, `future`, `maxDepth` | `checkpoint`, `undo`, `redo`, `clear`, `canUndo`, `canRedo` |
| Editor core | `src/src/main.ts`, `src/src/editor/*.ts` | `pdfData`, page, `annotations`, `selectedAnnotation`, tool, pointer gesture, autosave timer | open / create / merge a document, go to a page, add (text, image, signature, checkbox, date, highlight), select, drag, resize, restyle, delete, undo, redo, save, e-mail |
| Document service | `src/src/utils/pdf.ts` | parsed document, original bytes, rendered page | `loadPDF`, `renderPage`, `generateThumbnail`, `exportPDF` |
| Session vault | `src/src/utils/session-vault.ts` | one record in IndexedDB | `open`, `save`, `recover`, `clear` |
| Dialogs | `TextEditor.ts`, `SignaturePad.ts`, `MergeModal.ts` | a callback, an overlay, a list of files | open, save, cancel; add, move, remove, merge files |
| Key pair | `crypto.ts` | in memory, in IndexedDB, earlier in `localStorage` | load, migrate, generate, store, sign, fingerprint |
| Agent panel | `AgentPanel.ts`, `src/src/agent/**`, `editor/agent-runtime.ts` | chat with approval cards, in memory and in `localStorage`; agent in use; collapsed or not | say, run or cancel a card, switch agents, collapse, expand |
| Login gate | `login-gate.ts` | the form on screen, its mode, what is remembered | probe, switch modes, log in, go on without |
| Auth service | `src/xcm_auth` (Go) | users, devices, sessions, one-time codes, rate-limit counters, in SQLite | register, login, verify, refresh, logout, reset |
| MCP server | `src/mcp` (Go) | requests in flight | read a line, handle it in a goroutine, answer |
| Mock model | `src/mock_model_smoke` (Node) | worker pool, token bucket; files and reports | submit, dispatch, settle, close; take a token; edit files; smoke, simulate, run |
| Code review | `src/code_review`, `scripts/agent/checkin.mjs` | configuration, findings, `latest-review.json` | collect and read files, check, apply ignores and policy, report; check in |
| Repository scripts | `src/scripts/git`, `src/scripts/agent` | branches and their remotes; two agents' folders; README section | commit and push, promote, generate |
| Desktop shell, e-mail scripts | `src/electron`, `src/email_smoke` | a temporary file per e-mail | start processes, hand a PDF to a script, talk SMTP/IMAP |
| Mobile app | `src/mobile` (Dart) | token pair, annotations, undo stacks | requests with refresh, edits |

How they interact.  The editor core owns `annotations` and hands the array, or
one annotation, to closures: the callback of a dialog, `image.onload`, the
autosave timer.  `commitAnnotation`, `deleteSelectedAnnotation`, undo, redo,
`loadPDF` and `onRestore` then mutate the array in place or replace it.  The
vault is shared by the autosave timer, the recovery bar and the next page load.
The agents reach the editor only through canvas commands that call the same
handlers.  The web and mobile clients talk HTTP to the auth service and the MCP
server, each of which runs one goroutine per request; the auth service's only
shared state is its database, one statement at a time.

What is hard.  Callbacks that come back after the array they captured was
replaced; two loads in flight; a restore that is overtaken; an autosave that
captured its arguments two seconds ago; page reloads between a timer, a
transaction and its completion; gestures and animations that are interrupted;
answers to a form, a dialog or an opening that is gone; two draws of one canvas;
workers that die with a job; goroutines that check and then write in separate
statements; two requests that refresh the same token; programs that read files,
reports and remotes while others write them, and that may be interrupted and run
again.  `PROJECT.json` lists each with its line.

What makes each part correct:

| Part | Properties | Where |
| --- | --- | --- |
| Undo history | the stacks are one line of versions; the depth limit holds over both | checked, proved |
| Editor core, document service | nothing made on one document shows up in another; the selection is in the document; every change is undoable; the page shown is the document saved | checked, partly proved |
| Session vault | what is stored belongs together and, in the end, is what is on screen | checked, partly proved |
| Pages on screen | annotations and page agree when all is drawn | checked |
| Saving and e-mailing | what leaves the editor is what was asked for | checked |
| Merge dialog | one document per opening, made of the files listed | checked |
| Signature pad, key pair | one signature per opening, verifiable, by a key pair that survives | checked |
| Agent panel | an approved call runs once, a cancelled one not at all; one control brings the panel back | checked, safety proved |
| Login gate | the form says where it goes and is never stuck | checked, proved |
| Auth service | one active code, bounded attempts, single use; refresh rotates, revocation reaches every session, a client is not logged out by refreshing | checked, proved |
| MCP server | whole frames, one answer per request, nothing lost at the end | checked, safety proved |
| Mock model | every promise settled by its own answer, rate kept, the run ends; reports tell the story of each file; a smoke that passes means what it says | checked, safety proved |
| Code review | a strict check-in that passes has reviewed the files | checked, proved |
| Repository scripts | what is reported as done is done | checked, proved |

## 2. Modules

Specifications are in modules of their own, the instance TLC checks is in
`MC<name>.tla` with its `.cfg`, and the proofs are in `<name>Proofs.tla`.
Those of the parts that `Browser` and `Tools` put together are in
`BrowserProofs` and `ToolsProofs`.

| Module | Models | Used by |
| --- | --- | --- |
| `HistoryStack` | the operators of `history.ts`: checkpoint, undo, redo on a pair of stacks | `History`, `Editor` |
| `History` | the container driven by a client that mutates a document | refined by `Editor` |
| `Timeline` | abstract: a line of versions and a cursor | refined by `History` |
| `Editor` | `main.ts`, `editor/*.ts`, `pdf.ts`, the vault and the two annotation dialogs | - |
| `LoginGate` | `login-gate.ts` | `Browser` |
| `MergeModal` | `MergeModal.ts` | `Browser` |
| `Signatures` | `SignaturePad.ts` and `crypto.ts` | `Browser` |
| `PanelDock` | `setCollapsed` of `AgentPanel.ts` | `Browser` |
| `Exporter` | `savePDF`, `emailCurrentPDF`, `applyAnnotationsAndSave`, the handler in `electron/main.cjs` | `Browser` |
| `Viewer` | `renderCurrentPage`, `goToPage`, the zoom, `renderPage`, the thumbnails | `AgentDesk` |
| `AgentPanel` | the chat of `AgentPanel.ts`, `mcp-agent-core.ts` | `AgentDesk` |
| `AgentDesk` | `agent-runtime.ts`: agents that turn and zoom the user's pages | `Browser` |
| `Browser` | all of these around one page | - |
| `FileEdits` | `file-edit-engine.mjs`, `diff-utils.mjs`, the parsers | `SmokeSuite` |
| `SmokeSuite` | `smoke-runner.mjs`, `index.mjs`, configuration and scenario | `Tools` |
| `Review` | `review-core.mjs`, `run-all.mjs`, `checkin.mjs` | `Tools` |
| `SharedSync` | `push-shared-repos.mjs` | `Tools` |
| `AgentScripts` | `promote-dbl-to-main.mjs`, `generate-readme-folder-updates.mjs` | `Tools` |
| `Tools` | the programs that work on the repository | - |
| `OneTimeCodes` | `auth/twofa.go` over the table `two_fa_codes` | - |
| `Sessions` | login, refresh, logout, revocation and administration over `sessions` and `users` | - |
| `RpcService` | abstract: requests received, responses sent | refined by `McpServer` |
| `McpServer` | `server.go`, `protocol.go`, `cmd/server/main.go` | - |
| `TokenBucket` | abstract: an ideal bucket filled by every tick | refined by `RateLimiter` |
| `RateLimiter` | `rate-limiter.mjs` | `Runner` |
| `WorkerPool` | `worker-pool.mjs`, `request-worker.mjs` | `Runner` |
| `Runner` | `executeRequests` of `runner.mjs`: limiter, pool, Promise.all, close | - |

The refinements compose: `Editor` implements `History` (with the array as the
document) and `History` implements `Timeline`; `Runner` runs `RateLimiter`,
which implements `TokenBucket`; `McpServer` implements `RpcService`.
`AgentDesk` is a composition: a card that is run calls the viewer and is
answered when that call is.  `Browser` and `Tools` put together parts that share
no variable.  What any interleaving of such parts can do to one part is what
that part can do by itself, so a behaviour of either follows one of them, chosen
at first (`part`, `tool`), and leaves the others alone.

### How models correspond to code

*Editor.*  An action is what one handler does between two awaits.  `loadPDF` is
`BeginLoad` (up to `await pdfService.loadPDF`), `ParseDone` (the parser's
document becomes the page's) and `LoadDone` (page and thumbnails drawn, the
autosave scheduled); a restore is a load that carries its session and ends in
`RestoreDone`.  What JavaScript captures by reference carries a flag `live`: the
reference still reaches `this.annotations`.  `BeginLoad`, `Exchange` (undo, redo)
and `DeleteSelected` replace the array and clear the flags of the references that
now point elsewhere; deleting keeps the objects, so the callback that edits one
object stays live while the callbacks that push onto the array do not.  The
autosave timer captures the document and the array, so its capture is frozen when
the array is replaced.  IndexedDB commits transactions in the order they were
made: `writes` is a queue.  `Reload` is a crash or a reload of the page, with the
sequence of `recover` when the page comes up.

*MergeModal.*  `doMerge` iterates `this.files` with an await in every turn, so
the array iterator reads the array as it is by then.  Removing replaces the
array (`filter`): a merge keeps the old one.  Moving swaps in place: a merge sees
it.  `handleFiles` checks each file after an await.

*LoginGate.*  Every change of mode renders a new form; a request carries whether
its form is `own`, still on screen.  `fetchWithTimeout` may abort at any time.

*Signatures.*  An action runs up to the next await of `getOrCreateKeyPair`,
`signData` or `exportPublicKey`; `keyPair` is read again after each.  The pad is
closed and opened, and the page reloaded, in between.

*PanelDock.*  `animationend` is one event for both directions, and a listener
removed with it (`once`) may have been waiting for the other one.

*Viewer, AgentDesk.*  `page.render` on a canvas that is being drawn on is
rejected, by pdf.js; `goToPage` or the zoom that awaited it ends there.  Setting
the canvas's size clears it under the draw in progress.  `go_to_page` awaits
`goToPage`, `zoom_in` does not.

*Exporter.*  The bytes and the annotations are captured by reference at first;
opening another document replaces both references, editing changes the
annotations the export is still to draw.

*FileEdits, SmokeSuite.*  Each await of the file system is a step.  A text is
its sequence of lines, an edit a function of it, `Hunk` the diff of
`diff-utils.mjs`; processes share the disk and nothing else.

*Review.*  Each check collects the files and reads them one after another; the
report is written at the end and read by the check-in.  *SharedSync.*  Each call
of git is a step, a branch the set of the work on it.  *AgentScripts.*
`fs.rm` and `fs.cp` take one file at a time; the README is tokens, of which some
are the markers and `$&`.

*OneTimeCodes, Sessions.*  Each request is a goroutine; an action is one SQL
statement with the Go code up to the next one.  The database runs statements one
at a time (`SetMaxOpenConns(1)`).  A statement whose error is only logged
either takes effect or does not (`Logged`, `Stored`).

*McpServer.*  `Run` and each request goroutine are processes; the semaphore, the
mutex and the two writes of a frame (header, payload) are steps of their own.

*WorkerPool, RateLimiter, Runner.*  An action is a callback of the event loop; a
worker thread posts its answer at any moment.  The limiter counts time in ticks
and tokens in units (`Cost` units are a token, `Rate` units are earned per
tick), so that fractions of tokens are exact.

## 3. Runs

| Run | Bounds | Shows |
| --- | --- | --- |
| `history` | 3 document states, depth 3 | `IsTimeline`: undo and redo walk one line of versions, a checkpoint forks it, the oldest fall off |
| `editing` | 1 document, a text, an image and a highlight, 2 versions, 1 edit, depth 1 | `SelectionCurrent`, `AutosaveArmed`, `EditorIsHistory`, `Recoverable` (the opacity slider excepted) under every order of clicks, dialogs, decoding, dragging, undo, redo, deletion |
| `loading` | 2 documents, 2 loads at once, 1 failure, touch, a signature and a highlight | `OneDocument`, `VaultUnmixed`, `ShowsWhatItSaves` while loads overlap and fail |
| `recovery` | 2 documents of 2 and 1 pages, 1 load at a time, 1 reload, 2 transactions in the queue, a checkbox, 2 versions, 1 edit | `LastChangeIsSaved` across reload, restore and dismissal, with a clear queued before or behind a save |
| `stale_add` | 1 document, a text and a checkbox, depth 2 | `AddedIsThere` fails: a callback after undo, redo or deletion adds to an array nobody shows |
| `restore_lost` | 1 document, a checkbox, 1 reload | `EventuallySaved` fails: restoring a session lets the timer overwrite it with no annotations |
| `browser` | each part by itself: 3 requests, 1 refused write; 3 files, 2 openings, 2 merges; 3 calls, 2 pads, 1 trouble; 2 exports of 2 documents; 3 views of 2 pages, zoom of 2 steps; 2 cards, 3 messages saved, 1 aside | `FormFollowsLogin`; `MergedAsListed`, `DialogsAnswerOnce`; `SignedAsAsked`, `KeepsOldPair`, `StoredIsUsed`; `DockAtRest`; `LeavesAsAsked`; `PageSettles`; `RunsAtMostOnce` |
| `tools` | each program by itself: 2 processes of 2 requests on 3 paths, 1 fault; 3 files, all 13 checks, 1 save while reviewing, 1 fault; 2 repositories, 2 commits, 1 push of others, 1 fault; 2 files of an agent, 3 updates, 1 edit, 1 interruption, 2 runs | `ReportsExplain`, `SmokeMeansWorking`; `StrictMeansReviewed`; `DoneMeansDone` (`SyncedIsPushed`, `PromotedIsCopied`, `SectionStable`) |
| `one_time_codes` | 2 goroutines, 3 codes, limit 2, 1 fault | `ActiveBounded`, `AttemptsBounded`, `AcceptedBounded` |
| `sessions` | 2 goroutines, 4 tokens, 1 fault, 1 revocation of all | `RotationBounded`, `OnlyStraysSurvive`, `LoginContinues` |
| `mcp_server` | 3 requests, a malformed frame, a notification, 2 slots | `FramesWhole`, `ReturnsLast`, `ServiceImplemented`, `EveryCallAnswered` |
| `runner` | 4 requests, 2 workers, queue of 1, 1 death of any kind, bucket of 1 token regained in a tick | `JobsConserved`, `RightAnswer`, `ClosedAfterAll`, `LimiterIsBucket`, `Finishes` |

Why the bounds are enough.  The hazards are races of two: two references to an
array, two loads, two goroutines on a row, two merges.  Each bound allows two of
the kind and one more of what they compete for: three annotations, so one is
pending, one selected and one deleted; four requests for two workers and a queue
of one, so that the queue overflows; three requests for two slots; four tokens,
so that a stray's child is rotated; three forms' worth of requests, two exports,
two signatures over one key pair and a third call that finds it made; two edits
of one file by two processes.  One fault and one reload show what a fault does;
more of them repeat it.  The bucket of `runner` holds whole tokens;
`RunnerKeepsRate` is about fractions too, every rate and burst.  History depth 1
in `editing` makes checkpoints fall off at once; `history` explores depth 3 and
the theorems hold for any depth.  Types are checked by `browser` and `tools`,
and are theorems there and of the other modules.  Every bound is a constant
named `Max...` and appears as a guard.

Deadlock is checked where the system never stops (`Editor`, `History`); the
other models end when all requests are served, when the numbered tokens, codes,
calls or files are used up, when the user leaves it at that, or when a job is
stranded in the pool.

### Fairness

- `Editor`: the browser parses and draws documents, fires the autosave timer and
  commits transactions (weak fairness).  The user is not fair: `EventuallySaved`
  and `LastChangeIsSaved` are about a user who stops changing the document.
  `EventuallySaved` asks that the document is then stored, and fails after a
  restore.  `LastChangeIsSaved` is what holds with reloads: nothing of another
  document stays in the vault, and a change that waits for the timer once the
  recovery bar is answered for good (or as long as it stays open) is stored,
  although the dismissal's clear may be queued before or after earlier saves.
  It leaves out what the code does not keep (section 5): what was saved before a
  dismissal, and a restored session nobody has changed yet.  Loads and writes
  fail only within `MaxFaults`, 0 where liveness is checked.
- `Runner`: every request's continuation, the clock, and each worker that is
  alive (weak).  Workers need not die.  `Finishes` says that every request ends
  and the pool is closed, but for jobs stranded with a worker that is gone, which
  keep the run open and no other request; and that only for two reasons: the worker died idle and was still handed a job
  (`worker-pool.mjs:32`), or it left with exit code 0, which `handleWorkerExit`
  ignores (`:85`).  The instance has more workers than deaths, as the pool never
  replaces a dead one and looks at its queue only when one answers.
- `McpServer`: each goroutine runs (weak) and gets the semaphore and the mutex
  (strong: Go hands both to the waiter that has waited longest).  The peer need
  not send anything, and tools are assumed to return, as the HTTP clients have
  timeouts.

## 4. Proofs

All theorems are for every value of the constants under the named assumptions
of the modules (finite sets, natural bounds, null values that are no objects).

| Theorem | Statement |
| --- | --- |
| `HistoryProofs!HistoryTypes`, `HistoryDepthBounded` | types, and `past` and `future` together within the depth |
| `HistoryProofs!HistoryIsTimeline` | `History` implements `Timeline` |
| `EditorProofs!EditorTypes` | every handler keeps the types |
| `EditorProofs!EditorKeepsOneDocument`, `EditorKeepsVaultUnmixed` | `[]OneDocument` and `[]VaultUnmixed` if `MaxLoads <= 1 \/ MaxCrashes = 0` |
| `EditorProofs!EditorImplementsHistory` | `Editor` implements `History` |
| `EditorProofs!EditorSelects` | `[]SelectionCurrent` if `MaxCrashes = 0` |
| `EditorProofs!EditorArmsAutosave` | `[]AutosaveArmed` if also `MaxFaults = 0` and `~Touch` |
| `EditorProofs!EditorRecoverable` | `Recoverable` if `MaxDepth # 0` |
| `EditorProofs!EditorShowsWhatItSaves` | `[]ShowsWhatItSaves`, with any number of overlapping and failing loads |
| `OneTimeCodesProofs!TypeCorrect`, `FewActive`, `FewAttempts`, `FewAccepted` | types and the three bounds |
| `SessionsProofs!SessionTypes`, `RotationsBounded`, `OnlyStrays`, `LoginsContinue` | types and the three properties of sessions |
| `McpServerProofs!ServerTypes`, `ServerBounds`, `ServerFrames`, `ServerReturnsLast`, `ServerServes` | types, the four safety properties and the refinement |
| `RunnerProofs!RunnerKeepsRate`, `RunnerTypes`, `RunnerClosesLast` | the limiter is a token bucket; types; the pool is closed last |
| `RunnerProofs!RunnerAnswersRight`, `RunnerConservesJobs` | replies reach their own promise; no job is lost, doubled or settled twice |
| `RunnerProofs!RunnerStrandsForReason` | `[]StrandedForReason`, the safety half of `Finishes` |
| `BrowserProofs!BrowserTypes` | types of every part of the page |
| `BrowserProofs!GateFormFollowsLogin`, `GateOneLogin` | the form is the one of its mode; one login of its own at a time |
| `BrowserProofs!EachDialogAnswersOnce` | an opening of either dialog delivers once |
| `BrowserProofs!DialogMergesAsListed` | a merge takes what was listed, in that order, then what was added |
| `BrowserProofs!PadKeepsOldPair`, `PadStoresWhatItUses`, `PadSignsAsAsked` | the key pair survives, the one in use is the stored one, signatures verify |
| `BrowserProofs!ViewerPageSettles` | what is on screen at rest is of the current page and zoom |
| `BrowserProofs!CardsRunAtMostOnce`, `PanelDockAtRest` | a card runs once; one control of the panel is on screen |
| `BrowserProofs!ExportsLeaveAsAsked` | what leaves is what was asked for |
| `ToolsProofs!ToolsTypes` | types of the programs around the editor |
| `ToolsProofs!FilesReportsExplain` | reports follow on each other, and each hunk turns the one text into the other |
| `ToolsProofs!SmokePassesOnlyWhenWorking` | a smoke that passes alone has made its edit once |
| `ToolsProofs!StrictReviewBounds` | a strict check-in that passes is within its policy |
| `ToolsProofs!ScriptsFinishTheirWork` | `[]DoneMeansDone`: pushed, promoted and injected as reported |

The arguments:

- *Timeline.*  The line is `past \o <<document>> \o reversed future`.  Undo and
  redo move the cursor (`ShiftLine`, `SplitLast`), a checkpoint cuts the line at
  the cursor and drops the first version at the limit (`CheckpointForks`).
- *Documents apart.*  `OneDocument` is not inductive, since callbacks push what
  they were asked for long ago.  `IInv == TypeOK /\ Own /\ Kept /\ Loaded`: the
  references that are live were taken on the document that is open (`Own`), what
  the timer will save belongs together (`Kept`), and a session is restored into
  the document it was saved with (`Loaded`).  The last needs that no load
  overtakes a restoring one, hence the hypothesis; without it the theorem is
  false (section 5).
- *Selection and autosave.*  Without a reload there is never a session to restore
  (`NoRestores`), and a restore is the one step that replaces the array and keeps
  the selection; every other step clears the selection, keeps its object or
  takes one from the array (`SelectionStays`).  `AutosaveArmed` needs
  `TimerCurrent`: once a load has completed, the timer that runs holds the open
  document and the array itself, so that what it writes when it fires is what
  is on screen (`FiringSaves`).  A second finger, a failing load or write and a
  reload break it, hence the hypotheses; section 5 says how.
- *Recoverable.*  `CheckpointRecords` and `ExchangeRecords` say that checkpoint, undo
  and redo keep the state they are called in, a history without depth aside.
  Opening a document is told from an edit by `loads`, which needs `LoadsApart`: no
  document that is being loaded is loaded a second time.
- *Shown and saved.*  `openedAlone` remembers that no other document was being
  parsed when `pdfData` was set, and that its parser has not failed since.
  While it holds, at most one load is being parsed and that load is of the open
  document (`ParsesAlone`), so no older one can take the page from it, and once
  it is parsed the page is its own (`LoadsShow`).  Loads that are still drawing,
  or fail to draw, touch neither variable.
- *One-time codes.*  The bounds count goroutines between two statements: each
  invariant adds to what happened the requests that are about to make it happen.
  `HasRow` says a comparing request has a code, `Consumed` that a code passes
  again only if marking it failed.
- *Sessions.*  `Budget` (while a token is good, only requests whose revocation
  failed have rotated it) makes `RotationBounded` inductive: a request that
  arrives finds at most `faults` earlier ones.  `Links` says only stored tokens are
  looked up.  `Epochs` says who looked at a good session since the last
  revocation of everything holds one of a login made since, so only requests
  that were in flight then can issue strays.  For `LoginContinues` the request
  that revoked the old token is itself the witness until it has issued the next.
- *MCP server.*  `Mutex` says who is between lock and unlock, `Bookkeeping` how
  the stream and each request's progress agree, `Frames` that the stream is a
  sequence of frames, but for one header whose payload the holder of the mutex
  is about to write.  The refinement maps a response to its payload.
- *Runner.*  The composition takes only steps of the limiter (`RunsLimiter`), and
  the limiter, which refills lazily, hands out what the ideal bucket would:
  its level at any moment is what is stored plus what the time since then has
  earned (`Refilled`).  `ResultsFollowJobs` gives that the pool is closed last.
- *Pool.*  `PoolInv` is what makes matching replies by worker sound: a thread
  computes on the job its entry names and has nothing else to say (`Busy`), at
  most one reply of a worker is under way and to the job of its entry unless a
  death has taken that (`Replied`), an idle worker is idle once and silent
  (`Idle`), and every open promise is in one place (`Held`, `Queued`,
  `Somewhere`).  It holds with any number of deaths, also of idle workers.
  For the stranded jobs, a worker that is gone is one of `deaths` or was
  terminated (`Mourned`); one that died with a job and a failing exit has had its
  entry cleared by the time it is gone and is given no other, for it is not in
  the stack (`Failed`, `FailedAreOut`).

- *Parts of the page.*  `Browser` keeps one part at work and the others as they
  are, so the inductive invariant is `PartsInv`, one conjunct for each part, and
  a step of one leaves the other conjuncts alone.
  - `GateInv`: `disabled` alone does not say whose login is under way; that at
    most one request is a login of the form on screen (`OwnLogin`) is what makes
    an answer free the right form.
  - `MergeInv`: `for...of` reads an array that others change.  `Follows` says
    what was listed is a prefix of the array (until files are moved), and of
    what was taken once the loop is over; it needs `Apart`, that no file is added
    that was there, and `ArrayOf`: removing files or closing the dialog leaves a
    merge with the old array.
  - `PadInv`: that the pair in use is stored at rest needs who is about to
    store it (`WillBeStored`); that there are pairs enough to be generated,
    counting the calls that may have (`Generators`).  `OldPairKept` adds that
    no call generates and each one holds the old pair, through the migration.
  - `ExportInv`: a path that two e-mails share excuses both, so `FileOfItsOwn`
    says it of the file as long as it waits to be sent.
  - `ViewerInv`: as long as nothing has overlapped a call is `Alone` and sees the
    page and zoom of the moment.
  - `ChatInv`: a card that is on screen or stored was neither run nor cancelled
    (`Untouched`) and is at one place (`Distinct`); trimming the chat and loading
    it again keep both.
- *Programs.*  `ToolsInv` is again one conjunct for each.
  - *Edits.*  `FilesInv` says of a request at each stage what it knows of its
    file (`Sound`), which paths two requests are at (`Apart`), and that the
    reports of every path nobody contends for are unbroken (`Story`).  The
    diff needs no induction: the longest common prefix is a maximum over a
    finite set (`Largest`, `FirstDiffMeans`, `CommonEndMeans`), and a text is the
    other one when it is spliced from both where they differ (`Replacing`,
    `HunkExplains`), for any number of context lines.
  - *Smoke.*  Only a batch under way has requests (`QuietInv`), nothing else is at
    work beside a command that was not disturbed (`AloneInv`), and `SmokeRun` says
    of the two copies what each phase has reached.
  - *Review.*  `Counted`: what the checks done so far would still find in files
    nobody has saved is bounded by the summary, or the summary is over the
    policy already.  The set is finite (`AllFinite`) and grows with a step by no
    more than the summary does (`CountedGrows`), so at the end it is within
    the policy.
  - *Scripts.*  `RoundInv` carries what was asked of a repository from the working
    tree through the commit to the push; a promotion has copied what it no
    longer has to (`AgentsInv`); and a section that was injected is found again
    between its markers (`SectionFound`, `InjectStable`), unless the update itself
    holds a marker or a replacement pattern.

Every safety property a passing run checks is a theorem.  Only model-checked:
liveness (`LastChangeIsSaved`, `Finishes`, `EveryCallAnswered`;
`EventuallySaved` fails), since temporal proofs under fairness and about ENABLED
are out of the prover's reach.  The proofs of `FilesReportsExplain` and
`ScriptsFinishTheirWork` are about texts of any length, as far as that goes
without induction over them.

## 5. What the models showed of the code

Two runs end in a counterexample, as `PROJECT.json` records: an annotation whose
dialog answers late is lost (`annotation-actions.ts:101`), and a restored session
is overwritten without its annotations (`main.ts:988`).  Other behaviour the
models contain, and the properties therefore leave room for:

- The opacity slider records no checkpoint (`event-bindings.ts:215`).
- Pressing an annotation and not moving it records one that undoes nothing
  (`main.ts:671`).
- A second finger ends a drag without scheduling an autosave (`main.ts:172`).
- A restore that another load overtakes puts its annotations on that document
  (`main.ts:988`); with two loads of which one fails, the page may show one
  document while another is saved (`main.ts:341-347`), and so it does after a file
  that does not parse, until another one is opened.
- Dismissing the recovery bar clears the vault, also when a newer session is in
  it by then (`actions.ts:137`).
- Moving files while they are merged makes one appear twice and another vanish
  (`MergeModal.ts:163`, `:194`).
- Overlapping requests exceed "one active code", the attempt limit and single
  use by as many as overlap (`twofa.go:28-124`).
- A refresh in flight survives "force re-login on all devices"
  (`handlers_auth.go:611`), and `Verify2FA` does not ask again whether the user
  is active.
- The pool hands jobs to a worker that died idle (`worker-pool.mjs:32`), and a
  worker that ends with exit code 0 keeps its job (`:85`): those promises are
  never settled and the run does not end.

Around the document:

- A second login, or a probe that answers late, renders the form anew
  (`login-gate.ts`), also over the editor when a login has succeeded by then.
- Overlapping draws can leave the canvas of one page under the annotations of
  another, and a thumbnail marked that is not the current page (`pdf.ts:40`).
  `go_to_page` of an agent reports "Navigated to page N" for a page that does not
  exist, and its zoom answers without waiting.
- A signature computed for one opening of the pad is handed to the callback of a
  later one, and a new opening shows the box unticked although `useCryptoSign`
  keeps its value (`SignaturePad.ts:282`).
- Two calls without a pair each generate one; the signature is still made and
  published with one of them (`crypto.ts:34`).
- Images other than PNG and JPEG are passed over in an export, the opacity of a
  highlight is 0.3 whatever it is on screen, and the size of a text, unlike its
  place, is not divided by the scale of the canvas (`pdf.ts:71-238`).
- An e-mail whose first interpreter failed after sending it is sent again by the
  second, and two e-mails within a millisecond share a file
  (`main.cjs:55-66`).
- A card is run on the agent selected when it is approved, not on the one that
  offered it (`AgentPanel.ts:269`); when `localStorage` refuses a write, a card
  that was run comes back with the next reload.

Of the programs:

- Requests of one batch that edit one file lose each other's changes; the diff
  loses a line when lines were added or removed further up than its context
  (`diff-utils.mjs`), and does not show a change of line ends.
- `simulate --apply` edits the fixture unless told otherwise, and later smokes
  fail; two smokes at once share a workspace (`smoke-runner.mjs:13`).
- `code-smells`, `security`, `performance-memory` and `wcag-colors` do not look at
  the prefixes `config.json` excludes, an unreadable `config.json` means the
  defaults, and of the dependency audit "critical" counts are not reported.  A
  file that vanishes during a check ends the review and leaves the old report
  (`review-core.mjs`).
- `agent:status --strict` by itself trusts any report there is, and one without
  a summary counts as clean (`checkin.mjs:62`).  The check-in generates the
  README after it was reviewed.
- A promotion that is interrupted leaves part of an agent until it is run again.
- `$&` in an update makes the README section grow each time, an end marker in one
  leaves a tail, and markers in the wrong order make generating do nothing
  (`generate-readme-folder-updates.mjs:67`).
- The sync does not fetch before it judges "up to date", and a linked folder that
  is no repository of its own is taken for the root once more
  (`push-shared-repos.mjs`).

Read, not modelled: `AdminUpdateUser` writes back a row it read earlier
(`handlers_user.go:249`); a rate limit's window start is written once
(`ratelimit.go:50`); the resize of an annotation at the edge moves the edge that
should stay (`main.ts:732`); the mobile client reads `body['access_token']`
(`auth_service.dart:193`) where the service answers `{ok, data}`
(`response.go:21`), so its refresh cannot succeed.

## 6. Abstractions

- *Data.*  A document, file, token or annotation id is a model value; position,
  size, colour and text of an annotation are one of `Versions`.  The array is a
  set, since z-order is not in question.  `pdfData` and
  `PDFService.originalData` are assigned together and are one variable.  The
  tool is "select" or one that places.
- *Editor, left out.*  Inline text editing on the desktop (with
  `PopupText` false a text is not edited in the model) and resize geometry; a
  dialog opened twice by an agent leaves an overlay that nobody closes.  The
  vault's database is open before it is used.  An id is reserved when it is
  asked for.  Showing pages and exporting are modules of their own: they read
  the document and the annotations, which `Viewer` keeps as a page and a zoom
  and `Exporter` as a number and the kinds of annotation.
- *Browser.*  One tab: two share `localStorage` and the vault.  A page is drawn
  or rejected because its canvas is busy; other failures to draw are in `Editor`
  (`LoadFails`) only.
- *Agents.*  Tools other than turning and zooming pages are "other": answered,
  well or badly, in the same turn.  Those of them that open dialogs or save do
  here what the user does by hand in `Editor` and `Exporter`.
- *Programs.*  A reviewed file is the set of traits the checks can tell apart;
  the thresholds and patterns behind a trait are left out.  Files are walked in one
  order.  `fs.cp` lists a folder before it copies it.  Work in a repository
  does not conflict; nobody rewinds a branch.  A `create_file` that fails leaves
  nothing behind, and a smoke reads its scenario in the step that copies the
  fixture.
- *History variables.* `doc` of an annotation (the document it was made on),
  `openedAlone` of the editor, `deaths` of the pool, `listed` and `moved` of a
  merge, `parent`, `login`, `since`, `strays`, `ended` of sessions: they record
  what happened and guard nothing, but that `deaths` counts towards its bound.
- *Auth.*  One user and one purpose.  Rows are created within a second, so the
  order in which a lookup finds two active codes is arbitrary.  Logout and expiry
  of a session are the same action; a failing `RevokeAll` is a step that does
  nothing.
- *MCP server.*  What tools compute; a failing write of a frame, which the code
  ignores.  `Run`, blocked in a read, does not notice a signal.
- *Runner.*  `executeAction` edits files and returns or throws: a result either
  way.  All requests ask for their token before the event loop turns (`InTurn`).
  A worker thread's script never leaves by itself; exit code 0 is in the model
  because the pool has a rule for it.

## 7. Not modelled

- Start-up of processes and windows, SMTP and IMAP (`email_smoke`), HTTP clients of
  model providers, sanitising, Markdown, toasts and layout helpers: input and
  output without state that others rely on.  The script that draws an example
  document and the scripted tests of the tools are straight lines.
- Of the auth service: rate limits, registration, devices and the administration
  of users.  The rate limits would be a module over the same statements as
  `OneTimeCodes`.
- Of the MCP server: what the tools compute, the file tools with it.
- The mobile app.  Its undo provider (`pdf_provider.dart`) is a second `History`,
  its interceptor (`auth_service.dart`) a client of `Sessions` whose refresh does not
  reach the service's answer (section 5).
- `xcm_cli`, `mcp/browser_tools` and the installation scripts: argument parsing
  around other programs.

What would come next: the rate limits of the auth service composed with
`OneTimeCodes`; and fewer hypotheses on the theorems about `Editor` by saying
what remains true after each of the reloads and failures they exclude.
