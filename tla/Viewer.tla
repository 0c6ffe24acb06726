------------------------------- MODULE Viewer -------------------------------
(* Showing a page: src/src/main.ts renderCurrentPage, renderThumbnails,      *)
(* goToPage, zoomIn, zoomOut and src/src/utils/pdf.ts renderPage.  A call    *)
(* fetches its page and then draws it, and nothing keeps a second call from  *)
(* doing the same on the same canvas meanwhile.  pdf.js, which is external,  *)
(* rejects a second drawing on a busy canvas.  Zoom is counted in its steps. *)
EXTENDS Integers

CONSTANTS
    Views,      \* calls of goToPage and updateZoom, each used once
    LastPage,   \* pages of the document
    MaxZoom

ASSUME ViewerAssumption == LastPage \in Nat \ {0} /\ MaxZoom \in Nat \ {0}

VARIABLES
    totalPages,         \* LastPage, or 0 without a document
    currentPage, zoom,
    view,               \* the calls, by name
    canvas,             \* what was drawn last, and whether its size was changed since
    overlay,            \* page and zoom the annotations are rendered for
    thumbnails, active, \* created so far, those marked
    overlapped          \* a call began while another was at work, and none alone since

viewerVars == <<totalPages, currentPage, zoom, view, canvas, overlay, thumbnails, active,
                overlapped>>

Pages == 1 .. LastPage
Showing(p, z) == [page |-> p, zoom |-> z]
View == [stage : {"unused", "fetching", "drawing", "shown", "rejected"},
         page : 0 .. LastPage, zoom : 0 .. MaxZoom, goesTo : BOOLEAN]
Unseen == [stage |-> "unused", page |-> 0, zoom |-> 0, goesTo |-> FALSE]

ViewerTypeOK ==
    /\ totalPages \in {0, LastPage}
    /\ currentPage \in Pages /\ zoom \in 1 .. MaxZoom
    /\ view \in [Views -> View]
    /\ canvas \in [page : 0 .. LastPage, zoom : 1 .. MaxZoom, torn : BOOLEAN]
    /\ overlay \in [page : Pages, zoom : 1 .. MaxZoom]
    /\ thumbnails \in 0 .. LastPage /\ active \subseteq 1 .. thumbnails
    /\ overlapped \in BOOLEAN

\* A document has been loaded and its first page shown; the thumbnails follow
\* or have been made.
ViewerInit ==
    /\ totalPages = LastPage /\ currentPage = 1 /\ zoom = 1
    /\ view = [v \in Views |-> Unseen]
    /\ canvas = [page |-> 1, zoom |-> 1, torn |-> FALSE] /\ overlay = Showing(1, 1)
    /\ thumbnails \in {0, LastPage} /\ active = {1} \cap 1 .. thumbnails
    /\ overlapped = FALSE

AtWork == {v \in Views : view[v].stage \in {"fetching", "drawing"}}
Drawing == {v \in Views : view[v].stage = "drawing"}

\* renderCurrentPage up to its await: page and scale are those of now.
Render(v, page, z, goesTo) ==
    /\ view[v] = Unseen
    /\ view' = [view EXCEPT ![v] = [stage |-> "fetching", page |-> page, zoom |-> z,
                                    goesTo |-> goesTo]]
    /\ overlapped' = IF AtWork = {} /\ goesTo THEN FALSE ELSE overlapped \/ AtWork # {}
    /\ UNCHANGED <<totalPages, canvas, overlay, thumbnails, active>>

GoTo(v, page) ==
    /\ page \in 1 .. totalPages
    /\ currentPage' = page /\ UNCHANGED zoom
    /\ Render(v, page, zoom, TRUE)

\* Without a document nothing is drawn.
Zoom(v, step) ==
    /\ totalPages # 0
    /\ zoom + step \in 1 .. MaxZoom
    /\ zoom' = zoom + step /\ UNCHANGED currentPage
    /\ Render(v, currentPage, zoom + step, FALSE)

\* getPage answers, in any order: the canvas is resized, which empties it, and
\* the drawing begins, or is rejected because another is under way.
PageArrives(v) ==
    /\ view[v].stage = "fetching"
    /\ IF Drawing = {}
       THEN /\ view' = [view EXCEPT ![v].stage = "drawing"]
            /\ canvas' = [page |-> 0, zoom |-> view[v].zoom, torn |-> FALSE]
       ELSE /\ view' = [view EXCEPT ![v].stage = "rejected"]
            /\ canvas' = [canvas EXCEPT !.zoom = view[v].zoom, !.torn = TRUE]
    /\ UNCHANGED <<totalPages, currentPage, zoom, overlay, thumbnails, active, overlapped>>

\* Variant: the annotations are those of the page that was asked for.
DrawnAsAsked(v) ==
    /\ view[v].stage = "drawing"
    /\ view' = [view EXCEPT ![v].stage = "shown"]
    /\ canvas' = [canvas EXCEPT !.page = view[v].page]
    /\ overlay' = Showing(view[v].page, view[v].zoom)
    /\ active' = IF view[v].goesTo THEN {view[v].page} \cap 1 .. thumbnails ELSE active
    /\ UNCHANGED <<totalPages, currentPage, zoom, thumbnails, overlapped>>

\* The drawing is complete: renderAnnotations reads the page and the zoom of
\* now, goToPage marks the thumbnail of the page it was called for.
Drawn(v) ==
    /\ view[v].stage = "drawing"
    /\ view' = [view EXCEPT ![v].stage = "shown"]
    /\ canvas' = [canvas EXCEPT !.page = view[v].page]
    /\ overlay' = Showing(currentPage, zoom)
    /\ active' = IF view[v].goesTo THEN {view[v].page} \cap 1 .. thumbnails ELSE active
    /\ UNCHANGED <<totalPages, currentPage, zoom, thumbnails, overlapped>>

\* renderThumbnails, one iteration: each has a canvas of its own.
NextThumbnail ==
    /\ thumbnails < totalPages
    /\ thumbnails' = thumbnails + 1
    /\ active' = IF thumbnails + 1 = currentPage THEN active \cup {currentPage} ELSE active
    /\ UNCHANGED <<totalPages, currentPage, zoom, view, canvas, overlay, overlapped>>

\* The page of the browser is gone, and the document with it.
ViewerGone ==
    /\ totalPages' = 0 /\ currentPage' = 1 /\ zoom' = 1
    /\ view' = [v \in Views |-> Unseen]
    /\ canvas' = [page |-> 1, zoom |-> 1, torn |-> FALSE] /\ overlay' = Showing(1, 1)
    /\ thumbnails' = 0 /\ active' = {} /\ overlapped' = FALSE

ViewerGoesOn == (\E v \in Views : PageArrives(v) \/ Drawn(v)) \/ NextThumbnail

-----------------------------------------------------------------------------
(* Properties *)

OverlaySettles == overlay = Showing(currentPage, zoom)
CanvasSettles ==
    /\ canvas = [page |-> currentPage, zoom |-> zoom, torn |-> FALSE]
    /\ active = {currentPage} \cap 1 .. thumbnails

\* Whatever calls overlap and whichever of them is rejected, once all have
\* settled the annotations on screen are those of the current page, placed for
\* the current zoom.  The canvas under them, and the marked thumbnail, are of
\* that page too when a goToPage began alone and nothing has overlapped since,
\* even if thumbnails are still being made; otherwise they need not be.
PageSettles == AtWork = {} => OverlaySettles /\ (overlapped \/ CanvasSettles)
=============================================================================
