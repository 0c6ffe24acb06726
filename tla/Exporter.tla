------------------------------- MODULE Exporter -------------------------------
(* Saving and e-mailing the document: src/src/editor/actions.ts              *)
(* buildCurrentPDFBytes, savePDF, emailCurrentPDF, src/src/utils/pdf.ts      *)
(* applyAnnotationsAndSave, and the handler of xcm:emailPdf in               *)
(* src/electron/main.cjs, which writes a temporary file and lets a Python    *)
(* script send it, with a second interpreter when the first one fails.  All  *)
(* of it is asynchronous: the user goes on editing, opens another document   *)
(* and exports again.  Documents are numbered and share one file name.       *)
EXTENDS Integers

CONSTANTS
    MaxExports,     \* calls of savePDF and emailCurrentPDF, numbered as they begin
    MaxDocuments,
    MaxTicks        \* milliseconds in which exports begin, numbered from 1

ASSUME ExporterAssumption == MaxDocuments \in Nat \ {0} /\ MaxExports \in Nat /\ MaxTicks \in Nat \ {0}

VARIABLES
    document, drawings, \* the document on screen and its annotations
    export,             \* the calls, by name
    now,                \* Date.now
    temporary,          \* files in os.tmpdir()
    left                \* what left the editor: files downloaded, mails sent

exportVars == <<document, drawings, export, now, temporary, left>>

Exports == 1 .. MaxExports

\* What applyAnnotationsAndSave has a case for, and images of a format other
\* than PNG and JPEG, which fall through.
Drawable == {"drawable"}
Drawings == Drawable \cup {"other image"}
Content == [document : 1 .. MaxDocuments, drawings : SUBSET Drawings]
Nothing == [document |-> 1, drawings |-> {}]
ExportStages == {"unused", "building", "writing", "sending", "cleaning", "over"}
Call == [stage : ExportStages, mail : BOOLEAN, asked : Content, path : 0 .. MaxTicks,
         tries : 0 .. 2, ok : BOOLEAN]
NotCalled == [stage |-> "unused", mail |-> FALSE, asked |-> Nothing, path |-> 0,
              tries |-> 0, ok |-> FALSE]
File == [path : 1 .. MaxTicks, content : Content]

ExporterTypeOK ==
    /\ document \in 1 .. MaxDocuments /\ drawings \subseteq Drawings
    /\ export \in [Exports -> Call]
    /\ now \in 1 .. MaxTicks
    /\ temporary \subseteq File /\ \A f, g \in temporary : f.path = g.path => f = g
    /\ left \subseteq [by : Exports, content : Content]

ExporterInit ==
    /\ document = 1 /\ drawings = {}
    /\ export = [x \in Exports |-> NotCalled]
    /\ now = 1 /\ temporary = {} /\ left = {}

Moves(x, stage) == export' = [export EXCEPT ![x].stage = stage]

-----------------------------------------------------------------------------
(* The editor *)

Annotate(d) ==
    /\ d \notin drawings /\ drawings' = drawings \cup {d}
    /\ UNCHANGED <<document, export, now, temporary, left>>

\* loadPDF replaces the annotations and the bytes pdfService keeps in one turn.
OpenAnother ==
    /\ document < MaxDocuments
    /\ document' = document + 1 /\ drawings' = {}
    /\ UNCHANGED <<export, now, temporary, left>>

\* The annotations are copied and the bytes sliced before the first await.
StartExport(x, mail) ==
    /\ export[x] = NotCalled /\ \A y \in Exports : y < x => export[y] # NotCalled
    /\ export' = [export EXCEPT ![x].stage = "building", ![x].mail = mail,
                    ![x].asked = [document |-> document, drawings |-> drawings]]
    /\ UNCHANGED <<document, drawings, now, temporary, left>>

\* Without the desktop bridge, or when the document cannot be parsed or drawn.
ExportFails(x) ==
    /\ export[x].stage = "building"
    /\ Moves(x, "over")
    /\ UNCHANGED <<document, drawings, now, temporary, left>>

\* applyAnnotationsAndSave draws what it can; other images are passed over.
Written(content) == [content EXCEPT !.drawings = @ \cap Drawable]
Leaves(x, content) == left' = left \cup {[by |-> x, content |-> content]}

\* Variant: the document and its annotations are looked up when building ends.
BuiltFromScreen(x) ==
    /\ export[x].stage = "building" /\ ~export[x].mail
    /\ Leaves(x, Written([document |-> document, drawings |-> drawings])) /\ Moves(x, "over")
    /\ UNCHANGED <<document, drawings, now, temporary>>

Download(x) ==
    /\ export[x].stage = "building" /\ ~export[x].mail
    /\ Leaves(x, Written(export[x].asked)) /\ Moves(x, "over")
    /\ UNCHANGED <<document, drawings, now, temporary>>

-----------------------------------------------------------------------------
(* The main process *)

Clock == now < MaxTicks /\ now' = now + 1 /\ UNCHANGED <<document, drawings, export, temporary, left>>

\* The handler names the temporary file by the time and the file name.
HandToMain(x) ==
    /\ export[x].stage = "building" /\ export[x].mail
    /\ export' = [export EXCEPT ![x].stage = "writing", ![x].path = now]
    /\ UNCHANGED <<document, drawings, now, temporary, left>>

At(path) == {f \in temporary : f.path = path}

\* writeFile, over what is there.
WriteTemporary(x) ==
    LET path == export[x].path IN
    /\ export[x].stage = "writing"
    /\ temporary' = (temporary \ At(path)) \cup
                    {[path |-> path, content |-> Written(export[x].asked)]}
    /\ Moves(x, "sending")
    /\ UNCHANGED <<document, drawings, now, left>>

WriteTemporaryFails(x) ==
    /\ export[x].stage = "writing"
    /\ Moves(x, "cleaning")
    /\ UNCHANGED <<document, drawings, now, temporary, left>>

\* One interpreter runs the script.  It can send only what it finds, it exits
\* with 0 only when it has sent, and may fail after sending.
RunScript(x, sent, zero) ==
    LET c == export[x] IN
    /\ c.stage = "sending" /\ (zero => sent) /\ (sent => At(c.path) # {})
    /\ left' = left \cup {[by |-> x, content |-> f.content] : f \in IF sent THEN At(c.path) ELSE {}}
    /\ export' = [export EXCEPT ![x] =
                     [c EXCEPT !.tries = c.tries + 1, !.ok = zero,
                               !.stage = IF zero \/ c.tries + 1 = 2 THEN "cleaning" ELSE c.stage]]
    /\ UNCHANGED <<document, drawings, now, temporary>>

\* finally: the file is removed, if it is still there.
CleanUp(x) ==
    /\ export[x].stage = "cleaning"
    /\ temporary' = temporary \ At(export[x].path)
    /\ Moves(x, "over")
    /\ UNCHANGED <<document, drawings, now, left>>

ExporterNext ==
    \/ \E d \in Drawings : Annotate(d)
    \/ OpenAnother \/ Clock
    \/ \E x \in Exports :
          \/ \E mail \in BOOLEAN : StartExport(x, mail)
          \/ ExportFails(x) \/ Download(x) \/ HandToMain(x)
          \/ WriteTemporary(x) \/ WriteTemporaryFails(x) \/ CleanUp(x)
          \/ \E sent, zero \in BOOLEAN : RunScript(x, sent, zero)

-----------------------------------------------------------------------------
(* Properties *)

\* Two e-mails were handed over in the same millisecond.
Collides(x) == \E y \in Exports \ {x} : export[x].mail /\ export[y].mail
                                        /\ export[x].path = export[y].path
                                        /\ {export[x].stage, export[y].stage} \cap
                                           {"unused", "building"} = {}

\* What is downloaded or mailed is the document on screen when that was asked
\* for, with the annotations it had then, whatever is edited or opened in the
\* meantime and whatever fails: unless two e-mails share a temporary file.
LeavesAsAsked ==
    \A e \in left : Collides(e.by) \/ e.content = Written(export[e.by].asked)
=============================================================================
