----------------------------- MODULE VideoCatalog -----------------------------
(***************************************************************************)
(* The video API: the rows of video_files (and playback_info) and the      *)
(* requests that read and change them.  A request is several statements    *)
(* without a transaction: the list counts first and selects then, playback *)
(* reads the video first and its playback row then; other requests commit  *)
(* in between.  A client lists its videos page by page while HasMore says  *)
(* so; uploads and deletions go on meanwhile.                              *)
(*                                                                         *)
(* No row of video_files scans at this commit: the SELECTs name a column   *)
(* filename, VideoFile's tag is file_name, and sqlx wants a field for each *)
(* column.  RowsScan says whether it does; without it every request that   *)
(* finds a row is answered by an error.                                    *)
(*                                                                         *)
(* Rows are ordered by uploaded_at, the time their INSERT began; a row is  *)
(* visible when the INSERT commits, perhaps after that of a later row.     *)
(* Two rows are taken never to have the same time.                         *)
(***************************************************************************)
EXTENDS Naturals, FiniteSets, Sequences, SequencesExt

CONSTANTS
  Videos,       \* the video ids
  Others,       \* those of another user than the one who asks
  Matching,     \* those whose file name matches the search
  AskedSizes,   \* values of the request's "size"
  DefaultSize,  \* 10: what a size out of range is replaced by
  MaxSize,      \* 100
  MaxPage,      \* bound on the pages a client asks for
  RowsScan,     \* sqlx finds a field of the struct for every column
  NoVideo

ASSUME CatalogAssumption ==
  /\ Others \subseteq Videos /\ Matching \subseteq Videos /\ NoVideo \notin Videos
  /\ AskedSizes \subseteq Nat
  /\ MaxSize \in Nat \ {0} /\ DefaultSize \in 1..MaxSize
  /\ MaxPage \in Nat \ {0} /\ RowsScan \in BOOLEAN

VARIABLES
  order,      \* the rows by uploaded_at, visible or not
  committed,  \* the visible rows
  deleted,    \* the rows that were deleted
  ready,      \* rows of playback_info
  walk,       \* the listing client and its request
  seen,       \* history of the walk: rows there at its start, listed, listed
              \* twice; rows added and removed since
  viewer      \* a client that searches, or asks for playback

rows == <<order, committed, deleted, ready>>
list == <<walk, seen>>
vars == <<rows, list, viewer>>

Earlier(u, v) ==
  \E i, k \in 1..Len(order) : order[i] = u /\ order[k] = v /\ i < k

\* The user's rows, and how many of them ORDER BY puts before a row.
Rows == committed \ Others
Rank(v) == Cardinality({u \in Rows : Earlier(u, v)})

\* The history notes what is added and removed while the list is read.
Walking == walk.at \in {"idle", "counted"}
Noted(change, v) ==
  seen' = IF Walking THEN [seen EXCEPT ![change] = @ \cup {v}] ELSE seen

Init ==
  /\ order = <<>> /\ committed = {} /\ deleted = {} /\ ready = {}
  /\ walk = [at |-> "new", page |-> 0, size |-> 0, total |-> 0]
  /\ seen = [there |-> {}, listed |-> {}, twice |-> {}, added |-> {}, removed |-> {}]
  /\ viewer = [at |-> "idle", video |-> NoVideo]

-----------------------------------------------------------------------------
(* Pagination (pagination.go, and the use case's normalisation).           *)

\* A mutant takes the page as it was asked for.
NormPage_AsAsked(p) == p

NormPage(p) == IF p < 1 THEN 1 ELSE p
NormSize(n) == IF n < 1 \/ n > MaxSize THEN DefaultSize ELSE n

\* Mutants: off by a page, by a row; the page left out.
GetOffset_SkipsPage(page, size) == page * size
GetOffset_Overlaps(page, size) == IF page < 2 THEN 0 ELSE (page - 1) * size - 1
GetHasMore_IgnoresPage(page, total, size) == size < total

GetOffset(page, size) == IF page = 0 THEN 0 ELSE (page - 1) * size
GetHasMore(page, total, size) == page * size < total

\* ORDER BY uploaded_at OFFSET .. LIMIT ..
Page(page, size) ==
  LET skip == GetOffset(page, size)
  IN {v \in Rows : skip <= Rank(v) /\ Rank(v) < skip + size}

-----------------------------------------------------------------------------
(* Uploads and deletions.                                                  *)

\* CreateVideo begins its INSERT: uploaded_at is now.
BeginInsert(v) ==
  /\ \A i \in 1..Len(order) : order[i] # v
  /\ order' = Append(order, v)
  /\ UNCHANGED <<committed, deleted, ready, list, viewer>>

\* It commits.  (The caller is told an error all the same: the statement has
\* no RETURNING and StructScan gets no row.  It may also never commit:
\* against the schema of the migration it never does, since NULLIF($4, '') is a
\* text and the column duration an integer.)
CommitInsert(v) ==
  /\ \E i \in 1..Len(order) : order[i] = v
  /\ v \notin committed \cup deleted
  /\ committed' = committed \cup {v}
  /\ Noted("added", v)
  /\ UNCHANGED <<order, deleted, ready, walk, viewer>>

\* Somebody else writes the playback row, which references the video.
PlaybackWritten(v) ==
  /\ v \in committed \ ready
  /\ ready' = ready \cup {v}
  /\ UNCHANGED <<order, committed, deleted, list, viewer>>

\* DELETE of the row, and of the playback row that references it.  A mutant
\* has no cascade.
DeleteRow_KeepsPlayback(v) ==
  /\ committed' = committed \ {v} /\ deleted' = deleted \cup {v}
  /\ UNCHANGED ready

DeleteRow(v) ==
  /\ committed' = committed \ {v} /\ deleted' = deleted \cup {v}
  /\ ready' = ready \ {v}

\* The owner deletes a video; there must be a row to delete.
DeleteVideo(v) ==
  /\ v \in committed
  /\ DeleteRow(v)
  /\ Noted("removed", v)
  /\ UNCHANGED <<order, walk, viewer>>

-----------------------------------------------------------------------------
(* ListVideos, page after page.                                            *)

\* The use case normalises page and size, GetVideos counts.  With a count of
\* 0 it answers at once, and has no more.
Ask(page, size) ==
  walk' = [at |-> IF Rows = {} THEN "over" ELSE "counted",
           page |-> NormPage(page), size |-> NormSize(size), total |-> Cardinality(Rows)]

\* The first page is asked for without a number, which is page 0, ...
FirstRequest ==
  /\ walk.at = "new" /\ \E n \in AskedSizes : Ask(0, n)
  /\ seen' = [seen EXCEPT !.there = Rows]
  /\ UNCHANGED <<rows, viewer>>

\* ... the next ones, and one whose request failed, by their number.
NextRequest ==
  /\ walk.at = "idle" /\ walk.page <= MaxPage /\ Ask(walk.page, walk.size)
  /\ UNCHANGED <<rows, seen, viewer>>

\* GetVideos selects the page; HasMore goes by the count taken before.
SelectPage ==
  /\ walk.at = "counted"
  /\ RowsScan \/ Page(walk.page, walk.size) = {}
  /\ LET page == Page(walk.page, walk.size)
     IN seen' = [seen EXCEPT !.listed = @ \cup page,
                             !.twice = @ \cup (page \cap seen.listed)]
  /\ walk' = IF GetHasMore(walk.page, walk.total, walk.size)
             THEN [walk EXCEPT !.at = "idle", !.page = @ + 1]
             ELSE [walk EXCEPT !.at = "over"]
  /\ UNCHANGED <<rows, viewer>>

\* The SELECT fails, or a row does not scan: the client asks for the page again.
SelectFails ==
  /\ walk.at = "counted"
  /\ walk' = [walk EXCEPT !.at = "idle"]
  /\ UNCHANGED <<rows, seen, viewer>>

-----------------------------------------------------------------------------
(* SearchVideos, GetVideo, UpdateVideo and GetPlaybackInfo.                *)

\* Without a match the count answers; with one the second statement, which is
\* given four arguments for two placeholders, fails.
GetVideosByQuery == IF Rows \cap Matching = {} THEN "empty" ELSE "error"

SearchVideos ==
  /\ viewer.at = "idle"
  /\ viewer' = [viewer EXCEPT !.at = GetVideosByQuery]
  /\ UNCHANGED <<rows, list>>

\* GetVideoByID, and the row must be the user's.
Readable(v) == RowsScan /\ v \in committed \ Others

GetVideo(v) ==
  /\ viewer.at = "idle"
  /\ viewer' = [viewer EXCEPT !.at = IF Readable(v) THEN "video" ELSE "error"]
  /\ UNCHANGED <<rows, list>>

\* An UPDATE of eight placeholders, which is given seven values: refused.
UpdateVideo ==
  /\ viewer.at = "idle"
  /\ viewer' = [viewer EXCEPT !.at = "error"]
  /\ UNCHANGED <<rows, list>>

\* GetPlaybackInfo reads the video as GetVideo does, ...
FindVideo(v) ==
  /\ viewer.at = "idle"
  /\ viewer' = IF Readable(v) THEN [at |-> "found", video |-> v]
               ELSE [viewer EXCEPT !.at = "error"]
  /\ UNCHANGED <<rows, list>>

\* ... then the playback row.  There may be none; one does not scan: it has
\* columns without a field, and values that are a map and a list.
ReadPlayback ==
  /\ viewer.at = "found"
  /\ viewer' = [viewer EXCEPT !.at = "error"]
  /\ UNCHANGED <<rows, list>>

\* The reply is out.
Answered ==
  /\ viewer.at \in {"video", "empty", "error"}
  /\ viewer' = [at |-> "idle", video |-> NoVideo]
  /\ UNCHANGED <<rows, list>>

-----------------------------------------------------------------------------
Listing == FirstRequest \/ NextRequest \/ SelectPage \/ SelectFails

Next ==
  \/ \E v \in Videos : \/ BeginInsert(v) \/ CommitInsert(v) \/ DeleteVideo(v)
                       \/ PlaybackWritten(v)
                       \/ GetVideo(v) \/ FindVideo(v)
  \/ Listing \/ SearchVideos \/ UpdateVideo \/ ReadPlayback \/ Answered

Spec == Init /\ [][Next]_vars

-----------------------------------------------------------------------------
(* Properties                                                              *)

\* Type correctness: no row has two places in the order, nothing deleted is
\* visible, no playback row is without its video, and what GetVideos is given
\* has been normalised.
TypeOK ==
  /\ order \in Seq(Videos) /\ IsInjective(order)
  /\ committed \subseteq ToSet(order) \ deleted
  /\ deleted \subseteq Videos /\ ready \subseteq committed
  /\ walk \in [at : {"new", "idle", "counted", "over"}, page : 0..(MaxPage + 1),
               size : 0..MaxSize, total : 0..Len(order)]
  /\ walk.at = "counted" => walk.size \in 1..MaxSize /\ walk.page > 0
  /\ \A h \in {"there", "listed", "twice", "added", "removed"} :
       seen[h] \subseteq Videos
  /\ viewer \in [at : {"idle", "video", "found", "empty", "error"},
                 video : Videos \cup {NoVideo}]

\* A client that follows HasMore to the end has been shown each of its videos
\* that was there all the time, unless an EARLIER row came or went meanwhile
\* and moved it across a page boundary: uploads at the end never hide one,
\* although count and page are two statements.
MissedOnlyByShift ==
  walk.at = "over" =>
    \A v \in (seen.there \cap committed) \ seen.listed :
      \E u \in (seen.added \cup seen.removed) : Earlier(u, v)

\* A video is shown twice only if an earlier row was committed during the walk:
\* deletions and uploads at the end repeat nothing.
RepeatedOnlyByShift ==
  \A v \in seen.twice : \E u \in seen.added : Earlier(u, v)

\* No page a client is told there is comes out empty, the first one included,
\* unless a video of its user was deleted meanwhile: HasMore, from an earlier
\* count, is never wrong on account of uploads or of requests that failed.
Shown == Walking /\ (walk'.at = "over" \/ walk'.page # walk.page)

BlankOnlyByDeletion ==
  [][Shown => Page(walk.page, walk.size) # {} \/ seen.removed \ Others # {}]_vars

=============================================================================
