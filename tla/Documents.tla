----------------------------- MODULE Documents -----------------------------
(***************************************************************************)
(* The documents of one announcement, their rows and their files.          *)
(* _save_documents (jobs/run_preset.py) runs in the details actor and      *)
(* behind the button of the lot page, each in a transaction that lasts as  *)
(* long as its downloads; download_document (scraper/documents.py) writes  *)
(* a .part file and renames it; the retention of jobs/retention.py removes *)
(* the files of announcements without actual lots.  Files obey no          *)
(* transaction and are found by name, rows by URL.                         *)
(***************************************************************************)
EXTENDS Naturals, FiniteSets

CONSTANTS
  Urls,          \* documents of the announcement
  NameOf,        \* url -> name of its file: two documents may share one
  Fetchers,      \* sessions: the actor's attempts and the button's requests
  RetentionLimit,\* files one pass of the retention may remove
  MaxFetches,    \* bound: sessions begun
  MaxPasses      \* bound: passes of the retention

ASSUME DocumentsAssumption ==
  /\ DOMAIN NameOf = Urls
  /\ "absent" \notin Urls /\ "torn" \notin Urls /\ "none" \notin Urls
  /\ {RetentionLimit, MaxFetches, MaxPasses} \subseteq Nat

FileNames == {NameOf[u] : u \in Urls}

VARIABLES
  docRow,       \* url -> its row of documents, as committed
  file,      \* name -> "absent", the url whose whole body it holds, or "torn"
  part,      \* name -> whether the .part file is there
  fetch,     \* session -> what it is doing
  mixed,     \* names that two sessions have written at a time (ghost)
  lotActual,    \* the announcement has an actual lot
  pass,      \* the retention's pass: documents selected and removed so far
  fetches, passes

documentsVars == <<docRow, file, part, fetch, mixed, lotActual, pass, fetches, passes>>

NoRow == [kept |-> FALSE, path |-> FALSE, sha |-> "none", old |-> FALSE]
NotFetching == [stage |-> "idle", todo |-> {}, url |-> "none", inserted |-> {}, got |-> {}]
NoPass == [on |-> FALSE, todo |-> {}, removed |-> {}]

DocumentsTypeOK ==
  /\ docRow \in [Urls -> [kept : BOOLEAN, path : BOOLEAN, sha : Urls \cup {"torn", "none"},
                       old : BOOLEAN]]
  /\ file \in [FileNames -> Urls \cup {"absent", "torn"}]
  /\ part \in [FileNames -> BOOLEAN]
  /\ \A w \in Fetchers : /\ fetch[w].stage \in {"idle", "saving", "streaming"}
                         /\ fetch[w].inserted \cup fetch[w].todo \subseteq Urls
  /\ mixed \subseteq FileNames /\ lotActual \in BOOLEAN
  /\ pass.todo \cup pass.removed \subseteq Urls

DocumentsInit ==
  /\ docRow = [u \in Urls |-> NoRow]
  /\ file = [n \in FileNames |-> "absent"]
  /\ part = [n \in FileNames |-> FALSE]
  /\ fetch = [w \in Fetchers |-> NotFetching]
  /\ mixed = {} /\ lotActual = TRUE /\ pass = NoPass
  /\ fetches = 0 /\ passes = 0

-----------------------------------------------------------------------------
\* fetch_announcement has named the documents; the transaction is open.
FetchStarts(w) ==
  /\ fetch[w].stage = "idle" /\ fetches < MaxFetches
  /\ fetch' = [fetch EXCEPT ![w] = [NotFetching EXCEPT !.stage = "saving", !.todo = Urls]]
  /\ fetches' = fetches + 1
  /\ UNCHANGED <<docRow, file, part, mixed, lotActual, pass, passes>>

\* Already downloaded: not touched again.
SkipsDocument(w, u) ==
  /\ fetch[w].stage = "saving" /\ u \in fetch[w].todo /\ docRow[u].path
  /\ fetch' = [fetch EXCEPT ![w].todo = @ \ {u}]
  /\ UNCHANGED <<docRow, file, part, mixed, lotActual, pass, fetches, passes>>

\* A document without a row is inserted first; a row another session has inserted
\* and not committed makes the INSERT wait.  One with a row that has no file is
\* tried again, and nothing keeps two sessions from doing so.
MayTake(w, u) ==
  /\ fetch[w].stage = "saving" /\ u \in fetch[w].todo /\ ~docRow[u].path
  /\ ~docRow[u].kept => \A v \in Fetchers \ {w} : u \notin fetch[v].inserted
Taken(w, u, result) ==
  [fetch[w] EXCEPT !.stage = "saving", !.url = "none", !.todo = @ \ {u}, !.got = @ \cup result,
                   !.inserted = IF docRow[u].kept THEN @ ELSE @ \cup {u}]
Got(u, sha) == {[url |-> u, sha |-> sha]}

\* A file of that name is taken for the document, whichever document brought it.
TakesFile(w, u) ==
  /\ MayTake(w, u) /\ file[NameOf[u]] # "absent"
  /\ fetch' = [fetch EXCEPT ![w] = Taken(w, u, Got(u, file[NameOf[u]]))]
  /\ UNCHANGED <<docRow, file, part, mixed, lotActual, pass, fetches, passes>>

\* The source does not answer: the row gets an error and no path.
RequestFails(w, u) ==
  /\ MayTake(w, u) /\ file[NameOf[u]] = "absent"
  /\ fetch' = [fetch EXCEPT ![w] = Taken(w, u, {})]
  /\ UNCHANGED <<docRow, file, part, mixed, lotActual, pass, fetches, passes>>

Streaming(n) == {w \in Fetchers : fetch[w].stage = "streaming" /\ NameOf[fetch[w].url] = n}

\* Mutant of StreamBegins: the body goes straight to the file.
StreamBeginsInPlace(w, u) ==
  /\ MayTake(w, u) /\ file[NameOf[u]] = "absent"
  /\ fetch' = [fetch EXCEPT ![w].stage = "streaming", ![w].url = u]
  /\ file' = [file EXCEPT ![NameOf[u]] = "torn"]
  /\ part' = [part EXCEPT ![NameOf[u]] = TRUE]
  /\ mixed' = IF Streaming(NameOf[u]) # {} THEN mixed \cup {NameOf[u]} ELSE mixed
  /\ UNCHANGED <<docRow, lotActual, pass, fetches, passes>>

\* open("wb") truncates a .part that is there, another session's too.
StreamBegins(w, u) ==
  /\ MayTake(w, u) /\ file[NameOf[u]] = "absent"
  /\ fetch' = [fetch EXCEPT ![w].stage = "streaming", ![w].url = u]
  /\ part' = [part EXCEPT ![NameOf[u]] = TRUE]
  /\ mixed' = IF Streaming(NameOf[u]) # {} THEN mixed \cup {NameOf[u]} ELSE mixed
  /\ UNCHANGED <<docRow, file, lotActual, pass, fetches, passes>>

\* The rename; without the .part, which another session has renamed or removed,
\* it is an error.  The hash is that of the bytes received.
StreamEnds(w) ==
  LET u == fetch[w].url
      n == NameOf[u]
  IN  /\ fetch[w].stage = "streaming"
      /\ file' = IF part[n] THEN [file EXCEPT ![n] = IF n \in mixed THEN "torn" ELSE u]
                  ELSE file
      /\ fetch' = [fetch EXCEPT ![w] = Taken(w, u, IF part[n] THEN Got(u, u) ELSE {})]
      /\ part' = [part EXCEPT ![n] = FALSE]
      /\ UNCHANGED <<docRow, mixed, lotActual, pass, fetches, passes>>

\* The connection breaks: the .part is removed, whoever is writing it.
StreamBreaks(w) ==
  /\ fetch[w].stage = "streaming"
  /\ fetch' = [fetch EXCEPT ![w] = Taken(w, fetch[w].url, {})]
  /\ part' = [part EXCEPT ![NameOf[fetch[w].url]] = FALSE]
  /\ UNCHANGED <<docRow, file, mixed, lotActual, pass, fetches, passes>>

\* The commit: a document got changes path and hash, one not got only its error.
FetchCommits(w) ==
  /\ fetch[w].stage = "saving" /\ fetch[w].todo = {}
  /\ docRow' = [u \in Urls |->
       IF \E g \in fetch[w].got : g.url = u
         THEN [kept |-> TRUE, path |-> TRUE, old |-> FALSE,
               sha |-> (CHOOSE g \in fetch[w].got : g.url = u).sha]
         ELSE [docRow[u] EXCEPT !.kept = @ \/ u \in fetch[w].inserted]]
  /\ fetch' = [fetch EXCEPT ![w] = NotFetching]
  /\ UNCHANGED <<file, part, mixed, lotActual, pass, fetches, passes>>

\* A row inserted meanwhile, an error of the details or a death: rows are rolled
\* back, files and .part stay.
FetchFails(w) ==
  /\ fetch[w].stage # "idle"
  /\ fetch' = [fetch EXCEPT ![w] = NotFetching]
  /\ UNCHANGED <<docRow, file, part, mixed, lotActual, pass, fetches, passes>>

-----------------------------------------------------------------------------
\* Lots of the announcement are closed, or one comes back.
LotsChange ==
  /\ lotActual' = ~lotActual
  /\ UNCHANGED <<docRow, file, part, fetch, mixed, pass, fetches, passes>>

Ages(u) ==
  /\ docRow[u].path /\ ~docRow[u].old
  /\ docRow' = [docRow EXCEPT ![u].old = TRUE]
  /\ UNCHANGED <<file, part, fetch, mixed, lotActual, pass, fetches, passes>>

\* The selection, cut by LIMIT in no order.
RetentionReads(selected) ==
  /\ ~pass.on /\ passes < MaxPasses /\ ~lotActual /\ selected # {}
  /\ Cardinality(selected) <= RetentionLimit
  /\ \A u \in selected : docRow[u].path /\ docRow[u].old
  /\ pass' = [on |-> TRUE, todo |-> selected, removed |-> {}]
  /\ passes' = passes + 1
  /\ UNCHANGED <<docRow, file, part, fetch, mixed, lotActual, fetches>>

\* A file that cannot be removed stays with its path.
RetentionRemoves(u) ==
  /\ u \in pass.todo
  /\ \/ /\ file' = [file EXCEPT ![NameOf[u]] = "absent"]
        /\ pass' = [pass EXCEPT !.todo = @ \ {u}, !.removed = @ \cup {u}]
     \/ /\ pass' = [pass EXCEPT !.todo = @ \ {u}]
        /\ UNCHANGED file
  /\ UNCHANGED <<docRow, part, fetch, mixed, lotActual, fetches, passes>>

RetentionCommits ==
  /\ pass.on /\ pass.todo = {}
  /\ docRow' = [u \in Urls |->
       IF u \in pass.removed THEN [docRow[u] EXCEPT !.path = FALSE] ELSE docRow[u]]
  /\ pass' = NoPass
  /\ UNCHANGED <<file, part, fetch, mixed, lotActual, fetches, passes>>

\* Killed between the files and the rows: the paths stay.
RetentionDies ==
  /\ pass.on
  /\ pass' = NoPass
  /\ UNCHANGED <<docRow, file, part, fetch, mixed, lotActual, fetches, passes>>

DocumentsNext ==
  \/ \E w \in Fetchers :
       \/ FetchStarts(w) \/ StreamEnds(w) \/ StreamBreaks(w)
       \/ FetchCommits(w) \/ FetchFails(w)
       \/ \E u \in Urls : \/ SkipsDocument(w, u) \/ TakesFile(w, u)
                          \/ RequestFails(w, u) \/ StreamBegins(w, u)
  \/ LotsChange
  \/ \E u \in Urls : Ages(u) \/ RetentionRemoves(u)
  \/ \E selected \in SUBSET Urls : RetentionReads(selected)
  \/ RetentionCommits \/ RetentionDies

DocumentsSpec == DocumentsInit /\ [][DocumentsNext]_documentsVars

-----------------------------------------------------------------------------
\* What a document's row says of its file is true of the file, after broken
\* downloads, deaths and passes of the retention: it is the whole body of that
\* document, with the hash of the row - unless another document has the same file
\* name, or two sessions have written it at a time, which nothing in the code
\* prevents once the row is there (scraper/documents.py, download_document).
WholeFiles ==
  \A u \in Urls :
    LET n == NameOf[u]
    IN  /\ docRow[u].path /\ file[n] # "absent" /\ n \notin mixed
        /\ \A v \in Urls \ {u} : NameOf[v] # n
        => file[n] = u /\ docRow[u].sha = u
=============================================================================
