------------------------------ MODULE FileEdits ------------------------------
(* The edits the mock model carries out, src/mock_model_smoke/src/core/      *)
(* file-edit-engine.mjs, diff-utils.mjs and the parsers before it.  Requests *)
(* run side by side; each looks, reads and writes in steps of its own and    *)
(* nothing locks a file.  A text is its lines; a text that ends with a line  *)
(* break ends with an empty line.                                            *)
EXTENDS Integers, SequencesExt

CONSTANTS
    Paths,          \* files and directories
    Texts,          \* what files hold at first
    Processes,      \* of node, each with a batch of requests at a time
    MaxRequests,    \* of a batch
    MaxDiskFaults,  \* writes that fail
    ContextLines    \* around a hunk

ASSUME FileEditsAssumption ==
    /\ Texts \subseteq Seq({"", "old", "new"}) /\ <<>> \notin Texts
    /\ {MaxRequests, MaxDiskFaults, ContextLines} \subseteq Nat

Absent == <<>>
Directory == <<"directory">>
Requests == Processes \X (1 .. MaxRequests)

VARIABLES
    disk,           \* path to text, Directory or Absent
    applyEdits,     \* of the batch of each process
    request,
    changes,        \* per path, what successful requests report to have changed
    contended,      \* paths two requests were at, or where a write failed
    diskFaults

fileVars == <<disk, applyEdits, request, changes, contended, diskFaults>>

-----------------------------------------------------------------------------
(* The parsers: a prompt is an action on paths, or is not understood.  Only  *)
(* one of them knows the second group.                                       *)

Plain(type, path) == [type |-> type, path |-> path, to |-> path, line |-> 0, text |-> "",
                      overwrite |-> FALSE]

EditActions ==
    UNION {{[Plain("replace_text", p) EXCEPT !.text = "new"],
            [Plain("append_text", p) EXCEPT !.text = "new"]}
           \cup {[Plain("insert_line", p) EXCEPT !.line = n, !.text = "new"] : n \in 1 .. 3}
           \cup {[Plain("delete_line", p) EXCEPT !.line = n] : n \in 1 .. 3} : p \in Paths}

FileActions ==
    {[Plain("create_file", p) EXCEPT !.text = "new", !.overwrite = o] : p \in Paths, o \in BOOLEAN}
    \cup {Plain(type, p) : type \in {"delete_file", "create_directory", "list_directory"}, p \in Paths}
    \cup {[Plain("move_file", p) EXCEPT !.to = q] : p \in Paths, q \in Paths}
    \cup {Plain("noop", p) : p \in Paths}

Actions == EditActions \cup FileActions

-----------------------------------------------------------------------------
(* Pure functions *)

\* replace_text: the first occurrence; here a line.
Replaced(lines, new) ==
    LET i == SelectInSeq(lines, LAMBDA l : l = "old") IN [lines EXCEPT ![i] = new]

\* appendText looks at the end of the text.
Appended(lines, new) ==
    IF Len(lines) > 1 /\ Last(lines) = "" THEN Append(Front(lines), new) ELSE Append(lines, new)

\* applyEditAction throws on a missing target and on a line out of range.
Applies(a, lines) ==
    CASE a.type = "replace_text" -> Contains(lines, "old")
      [] a.type = "insert_line"  -> a.line \in 1 .. Len(lines) + 1
      [] a.type = "delete_line"  -> a.line \in 1 .. Len(lines)
      [] OTHER                   -> TRUE

\* The text of a file never has no lines: deleting the only one leaves "".
Edited(a, lines) ==
    CASE a.type = "replace_text" -> Replaced(lines, a.text)
      [] a.type = "insert_line"  -> InsertAt(lines, a.line, a.text)
      [] a.type = "delete_line"  -> IF Len(lines) = 1 THEN <<"">> ELSE RemoveAt(lines, a.line)
      [] a.type = "append_text"  -> Appended(lines, a.text)

LinesOf(text) == IF text = Absent THEN <<"">> ELSE text

\* findFirstDiff, counted from 0.
Shorter(a, b) == IF Len(a) < Len(b) THEN Len(a) ELSE Len(b)
FirstDiff(before, after) == Len(LongestCommonPrefix({before, after}))

\* findLastDiff walks back from both ends, as far as the first difference.
CommonEnd(before, after) ==
    LET rest == Shorter(before, after) - FirstDiff(before, after)
        ends == {n \in 0 .. rest : \A i \in 0 .. n - 1 :
                                       before[Len(before) - i] = after[Len(after) - i]}
    IN  CHOOSE n \in ends : \A k \in ends : k <= n
LastDiff(lines, first, common) ==
    LET last == Len(lines) - 1 - common IN IF last > first THEN last ELSE first

\* buildUnifiedDiff: lines from start on are replaced.
Hunk(before, after) ==
    LET first == FirstDiff(before, after)
        common == CommonEnd(before, after)
        start == IF first > ContextLines THEN first - ContextLines ELSE 0
        upTo(lines) == LET end == LastDiff(lines, first, common) + ContextLines + 1
                       IN  IF end < Len(lines) THEN end ELSE Len(lines)
    IN  [start |-> start,
         minus |-> SubSeq(before, start + 1, upTo(before)),
         plus |-> SubSeq(after, start + 1, upTo(after))]

Patched(lines, hunk) ==
    SubSeq(lines, 1, hunk.start) \o hunk.plus
    \o SubSeq(lines, hunk.start + Len(hunk.minus) + 1, Len(lines))

-----------------------------------------------------------------------------
(* Requests *)

NotAsked == [stage |-> "none", action |-> Plain("noop", CHOOSE p \in Paths : TRUE),
             before |-> Absent, expected |-> FALSE, ok |-> FALSE]
Stages == {"none", "looking", "reading", "writing", "done"}

Lines == Seq({"", "old", "new", "directory"})

FileEditsTypeOK ==
    /\ disk \in [Paths -> Lines]
    /\ applyEdits \in [Processes -> BOOLEAN]
    /\ request \in [Requests -> [stage : Stages, action : Actions, before : Lines,
                                 expected : BOOLEAN, ok : BOOLEAN]]
    /\ changes \in [Paths -> Seq([before : Lines, after : Lines])]
    /\ contended \subseteq Paths /\ diskFaults \in 0 .. MaxDiskFaults

Touches(a) == {a.path, a.to}
InFlight == {r \in Requests : request[r].stage \notin {"none", "done"}}

\* What a request does first: text edits read, the others look whether the
\* path exists.
EditTypes == {"replace_text", "append_text", "insert_line", "delete_line"}
FirstStage(a) == IF a.type \in EditTypes THEN "reading" ELSE "looking"

FileEditsInit ==
    /\ \E text \in Texts, p \in Paths :
          disk = [q \in Paths |-> IF q = p THEN text ELSE Absent]
    /\ applyEdits = [p \in Processes |-> FALSE]
    /\ request = [r \in Requests |-> NotAsked]
    /\ changes = [p \in Paths |-> <<[before |-> Absent, after |-> disk[p]]>>]
    /\ contended = {} /\ diskFaults = 0

\* Requests are numbered as they get through the limiter and the pool.
MayStart(r) == request[r].stage = "none" /\ \A n \in 1 .. r[2] - 1 : request[<<r[1], n>>].stage # "none"

\* executeAction begins, while others are under way.
StartAction(r, a, expected) ==
    /\ MayStart(r)
    /\ request' = [request EXCEPT ![r] = [NotAsked EXCEPT !.stage = FirstStage(a), !.action = a,
                                                          !.expected = expected]]
    /\ contended' = contended \cup UNION {Touches(request[s].action) \cap Touches(a) : s \in InFlight}
    /\ UNCHANGED <<disk, applyEdits, changes, diskFaults>>

\* The parser finds no rule, or the worker fails: no file is touched.
NotUnderstood(r, expected) ==
    /\ MayStart(r)
    /\ request' = [request EXCEPT ![r] = [NotAsked EXCEPT !.stage = "done", !.expected = expected]]
    /\ UNCHANGED <<disk, applyEdits, changes, contended, diskFaults>>

Ends(r, ok) == request' = [request EXCEPT ![r] = [@ EXCEPT !.stage = "done", !.ok = ok,
                                                           !.before = Absent]]
Goes(r, stage, before) ==
    request' = [request EXCEPT ![r] = [@ EXCEPT !.stage = stage, !.before = before]]
Reads == UNCHANGED <<disk, applyEdits, changes, contended, diskFaults>>

IsFile(p) == disk[p] \notin {Absent, Directory}
Reported(p, before, after) ==
    changes' = [changes EXCEPT ![p] = Append(@, [before |-> before, after |-> after])]
Puts(p, text) == disk' = [disk EXCEPT ![p] = text]
Writes == UNCHANGED <<applyEdits, contended, diskFaults>>

\* noop and list_directory are over at once; create_file and delete_file read
\* what is there; create_directory and move_file go on.
Look(r) ==
    LET a == request[r].action  p == a.path IN
    /\ request[r].stage = "looking"
    /\ CASE a.type = "noop" -> Ends(r, TRUE)
         [] a.type = "list_directory" -> Ends(r, disk[p] = Directory)
         [] a.type = "create_directory" -> Goes(r, "writing", disk[p])
         [] a.type = "create_file" ->
                IF disk[p] = Absent THEN Goes(r, "writing", Absent)
                ELSE IF a.overwrite THEN Goes(r, "reading", Absent) ELSE Ends(r, FALSE)
         [] a.type = "delete_file" ->
                IF disk[p] = Absent THEN Ends(r, FALSE) ELSE Goes(r, "reading", Absent)
         [] a.type = "move_file" ->
                IF disk[p] # Absent /\ disk[a.to] = Absent THEN Goes(r, "writing", disk[p])
                ELSE Ends(r, FALSE)
    /\ Reads

\* The file is read; a text edit is worked out, or throws.
Read(r) ==
    LET a == request[r].action IN
    /\ request[r].stage = "reading"
    /\ IF IsFile(a.path) /\ (a.type \in EditTypes => Applies(a, disk[a.path]))
       THEN Goes(r, "writing", disk[a.path]) ELSE Ends(r, FALSE)
    /\ Reads

\* What the request makes of what it found.
After(r) ==
    LET a == request[r].action IN
    CASE a.type \in EditTypes         -> Edited(a, request[r].before)
      [] a.type = "create_file"       -> <<a.text>>
      [] a.type = "create_directory"  -> Directory
      [] OTHER                        -> Absent

\* Without applyEdits, or without a change, success is reported and that is all.
WriteNothing(r) ==
    /\ request[r].stage = "writing"
    /\ ~applyEdits[r[1]] \/ After(r) = request[r].before
       \/ (request[r].action.type = "create_directory" /\ request[r].before # Absent)
    /\ Ends(r, TRUE) /\ Reads

MayWrite(r) ==
    /\ request[r].stage = "writing" /\ applyEdits[r[1]]
    /\ After(r) # request[r].before
    /\ request[r].action.type = "create_directory" => request[r].before = Absent

\* What the system accepts: a file to unlink, no file where a directory is to
\* be made, no directory where a text is to be written, a source to rename and
\* nothing of another kind in its way.
Accepted(a) ==
    CASE a.type = "delete_file"      -> IsFile(a.path)
      [] a.type = "create_directory" -> ~IsFile(a.path)
      [] a.type = "move_file"        -> /\ disk[a.path] # Absent
                                        /\ disk[a.to] = Absent \/ (IsFile(a.path) <=> IsFile(a.to))
      [] OTHER                       -> disk[a.path] # Directory

\* Variant: the edit is worked out again on what was written.
WriteTwice(r) ==
    LET a == request[r].action IN
    /\ MayWrite(r) /\ Accepted(a) /\ a.type # "move_file"
    /\ Puts(a.path, IF a.type = "append_text" THEN Edited(a, After(r)) ELSE After(r))
    /\ Reported(a.path, request[r].before, After(r))
    /\ Ends(r, TRUE) /\ Writes

\* writeFile, mkdir and unlink, on whatever is there by now.
Write(r) ==
    LET a == request[r].action IN
    /\ MayWrite(r) /\ Accepted(a) /\ a.type # "move_file"
    /\ Puts(a.path, After(r)) /\ Reported(a.path, request[r].before, After(r))
    /\ Ends(r, TRUE) /\ Writes

\* rename, over a file that may have come to the destination since.  The report
\* names the paths and shows no text.
Rename(r) ==
    LET a == request[r].action IN
    /\ MayWrite(r) /\ Accepted(a) /\ a.type = "move_file" /\ a.to # a.path
    /\ disk' = [disk EXCEPT ![a.to] = disk[a.path], ![a.path] = Absent]
    /\ changes' = [changes EXCEPT
          ![a.path] = Append(@, [before |-> disk[a.path], after |-> Absent]),
          ![a.to] = Append(@, [before |-> Absent, after |-> disk[a.path]])]
    /\ Ends(r, TRUE) /\ Writes

\* The system refuses; or the disk fails, and a text may be left cut off.
WriteFails(r) ==
    LET a == request[r].action IN
    /\ MayWrite(r) /\ Ends(r, FALSE)
    /\ \/ ~Accepted(a) /\ UNCHANGED <<disk, contended, diskFaults>>
       \/ /\ diskFaults < MaxDiskFaults /\ diskFaults' = diskFaults + 1
          /\ contended' = contended \cup Touches(a)
          /\ UNCHANGED disk \/ (a.type \in EditTypes /\ IsFile(a.path) /\ Puts(a.path, <<"">>))
    /\ UNCHANGED <<applyEdits, changes>>

EngineNext ==
    \E r \in Requests : Look(r) \/ Read(r) \/ WriteNothing(r) \/ Write(r) \/ Rename(r) \/ WriteFails(r)

-----------------------------------------------------------------------------
(* Properties *)

\* A hunk is lined up at its end only when it has as many lines on both sides
\* or reaches the end of both texts.
LinedUp(before, after) ==
    \/ Len(before) = Len(after)
    \/ CommonEnd(before, after) <= ContextLines

\* The reports of successful requests tell the story of a file: each begins
\* with what the one before left, the last one is what is there, and the diff
\* shown turns the one into the other.  Two requests at work on one file at
\* the same time, or a failing write, break the story of that file alone; the
\* diff of lines added or removed further up than its context is wrong.
ReportsExplain ==
    \A p \in Paths \ contended :
        LET story == changes[p] IN
        /\ \A i \in 2 .. Len(story) : story[i].before = story[i - 1].after
        /\ Last(story).after = disk[p]
        /\ \A i \in 2 .. Len(story) :
              LET before == LinesOf(story[i].before)  after == LinesOf(story[i].after) IN
              LinedUp(before, after) => Patched(before, Hunk(before, after)) = after
=============================================================================
