------------------------------ MODULE Analysis ------------------------------
(***************************************************************************)
(* The analysis of lots (classify/llm.py) as three callers share it: the   *)
(* queue actor analyze_actor, the button of the lot page and the command   *)
(* `reanalyze`.  A caller reads the row of the lot, extracts the text of   *)
(* its technical specification, and then copies the row of a twin, accepts *)
(* what the rules say or asks the model; minutes may pass before it        *)
(* writes.  A flush of the ORM writes the columns that differ from what    *)
(* the session had read and leaves the others as the database has them, so *)
(* two callers that overlap can leave a row neither of them wrote.         *)
(***************************************************************************)
EXTENDS Naturals, FiniteSets, Sequences

CONSTANTS
  Briefed,       \* lots of the watchlist that have a specification
  Texts,         \* what a specification can say; stands for its sha256 too
  Near,          \* pairs of texts whose simhashes are within the threshold
  Certain,       \* texts on which the rule-based classifier is sure
  Actors,        \* workers of the LLM queue, each with a session per lot
  Buttons,       \* requests of the lot page's button: force passes the gates
  NoLot, NoBrief, NoHash,
  BatchLimit,    \* lots one `reanalyze` may analyse
  MaxTexts,      \* bound: documents that came, or came again, since the start
  MaxAnswers,    \* bound: answers of the model
  MaxUnfit,      \* bound: answers that are no analysis, among them
  MaxBatches     \* bound: runs of `reanalyze`

ASSUME AnalysisAssumption ==
  /\ Near \subseteq Texts \X Texts
  /\ \A t \in Texts : <<t, t>> \in Near
  /\ \A p \in Near : <<p[2], p[1]>> \in Near
  /\ Certain \subseteq Texts
  /\ NoLot \notin Briefed
  /\ Actors \cap Buttons = {}
  /\ NoHash \notin Texts

VARIABLES
  papers,    \* lot -> its rows of documents; pick_tz_document chooses the last
  brief,     \* lot -> row of lot_analyses, or NoBrief
  call,      \* caller -> the analysis it is in the middle of
  batch,     \* the session of `reanalyze`
  paid,      \* answers the provider has charged for
  unfit,     \* those that did not parse
  booked,    \* rows of llm_calls
  marred,    \* lots whose row mixes what two sessions read, or was written by
             \* a simhash or a sha256 that is not of its text (ghost)
  batches,   \* runs of `reanalyze` so far
  replaced   \* documents that came, or came again, since the start

analysisVars == <<papers, brief, call, batch, paid, unfit, booked, marred, batches, replaced>>

\* A row of documents: the text of its file, which stands for its sha256 too, and
\* the text its text_simhash was computed of, once.
Paper(text, hash) == [text |-> text, hash |-> hash]
Papers == [text : Texts, hash : Texts \cup {NoHash}]

\* doc is source_document_id, a place in the lot's documents.
AnalysisRow(version, sha, of, doc, by, reused) ==
  [version |-> version, sha |-> sha, of |-> of, doc |-> doc, by |-> by, reused |-> reused]
AnalysisRows == [version : {"llm", "older", "rules", "__force__"}, sha : Texts, of : Texts,
                 doc : Nat, by : {"llm", "rules"}, reused : Briefed \cup {NoLot}]

ASSUME RowAssumption == NoBrief \notin AnalysisRows /\ BatchLimit \in Nat

Callers == Actors \cup Buttons
IdleCaller == [stage |-> "idle"]
NoBatch == [on |-> FALSE, seen |-> [l \in Briefed |-> NoBrief],
            docs |-> [l \in Briefed |-> <<>>], todo |-> {}, left |-> 0, marked |-> {},
            hashed |-> {}, calls |-> 0, lot |-> NoLot, stage |-> "idle"]

\* UPDATE of the columns that differ from what the session had read.  An answer
\* of the model is never word for word the one before it.
Flushed(b, read, new) ==
  [c \in DOMAIN new |->
     IF new[c] # read[c] \/ (c \in {"of", "by"} /\ new.by = "llm" /\ new.reused = NoLot)
       THEN new[c] ELSE b[c]]

AnalysisUpToDate(b, text) == b # NoBrief /\ b.version \in {"llm", "rules"} /\ b.sha = text
ByModel(b) == b # NoBrief /\ b.version \in {"llm", "older"}

\* The simhash a session computes when the row of the document has none.
Own(hash, text) == IF hash = NoHash THEN text ELSE hash
HashOf(m, row) == papers[m][row.doc].hash

\* Mutant of Twins: a copy may be copied.
TwinsOfTwins(table, l, hash) ==
  {m \in Briefed \ {l} : /\ table[m] # NoBrief
                         /\ table[m].version = "llm"
                         /\ <<HashOf(m, table[m]), hash>> \in Near}

\* Rows that a lot with this simhash may copy: of this version, analysed on their
\* own, of a document with a simhash near to it.
Twins(table, l, hash) ==
  {m \in Briefed \ {l} : /\ table[m] # NoBrief
                         /\ table[m].version = "llm"
                         /\ table[m].reused = NoLot
                         /\ <<HashOf(m, table[m]), hash>> \in Near}

Nearest(table, l, hash) ==
  LET exact == {m \in Twins(table, l, hash) : HashOf(m, table[m]) = hash}
  IN  IF exact # {} THEN exact ELSE Twins(table, l, hash)

\* A simhash is computed once: a document downloaded again keeps the old one.
Outdated(m, hash, text) == HashOf(m, brief[m]) # brief[m].sha \/ hash # text

\* Rows with the marks of `reanalyze --force` that no commit has published are
\* locked: whoever updates one waits.
RowLocked(l) == l \in batch.marked

\* So is a document whose simhash a session has flushed: until its commit or its
\* end no other session gets past the flush of the same simhash.
HashFlushedBy(c, l, doc) ==
  /\ call[c].stage = "asking" /\ call[c].hash = NoHash
  /\ call[c].lot = l /\ call[c].doc = doc
HashLocked(c, l, doc) ==
  \/ l \in batch.hashed /\ Len(batch.docs[l]) = doc
  \/ \E d \in Callers \ {c} : HashFlushedBy(d, l, doc)

-----------------------------------------------------------------------------
AnalysisInit ==
  /\ \E text \in [Briefed -> Texts] :
       papers = [l \in Briefed |-> <<Paper(text[l], NoHash)>>]
  /\ \E known \in BOOLEAN :
       brief = [l \in Briefed |-> IF known
                  THEN AnalysisRow("older", papers[l][1].text, papers[l][1].text, 1, "llm", NoLot)
                  ELSE NoBrief]
  /\ call = [c \in Callers |-> IdleCaller]
  /\ batch = NoBatch
  /\ paid = 0 /\ unfit = 0 /\ booked = 0 /\ batches = 0 /\ marred = {} /\ replaced = 0

\* Details bring a document that is a better specification than those known.
NewDocument(l, text) ==
  /\ replaced < MaxTexts
  /\ papers' = [papers EXCEPT ![l] = Append(@, Paper(text, NoHash))]
  /\ replaced' = replaced + 1
  /\ UNCHANGED <<brief, call, batch, paid, unfit, booked, marred, batches>>

\* Retention has dropped the file and details download it again, with another
\* text: path, sha256 and size are written anew, text_simhash is left.
DownloadedAgain(l, text) ==
  /\ replaced < MaxTexts /\ text # papers[l][Len(papers[l])].text
  /\ papers' = [papers EXCEPT ![l][Len(papers[l])].text = text]
  /\ replaced' = replaced + 1
  /\ UNCHANGED <<brief, call, batch, paid, unfit, booked, marred, batches>>

\* analyze_actor and lot_analyze read the lot, its row and its documents.  The
\* queue repeats messages, so an actor may take any lot at any time; an analysis
\* that is up to date ends its call.
AnalysisStarts(c, l) ==
  LET doc == Len(papers[l])
      paper == papers[l][doc]
  IN  /\ call[c] = IdleCaller /\ paid < MaxAnswers
      /\ c \in Buttons \/ ~AnalysisUpToDate(brief[l], paper.text)
      /\ call' = [call EXCEPT ![c] =
           [stage |-> "reading", lot |-> l, doc |-> doc, text |-> paper.text,
            hash |-> paper.hash, read |-> brief[l]]]
      /\ UNCHANGED <<papers, brief, batch, paid, unfit, booked, marred, batches, replaced>>

\* The write of a caller and its commit, the simhash it computed included: an
\* INSERT when the session had read no row, which a row inserted meanwhile turns
\* into an error; else an UPDATE.
Conflicts(l, read) == read = NoBrief /\ brief[l] # NoBrief
Hashed(table, l, doc, text) == [table EXCEPT ![l][doc].hash = text]
Writes(k, new, soiled) ==
  /\ ~Conflicts(k.lot, k.read) /\ ~RowLocked(k.lot)
  /\ brief' = [brief EXCEPT ![k.lot] =
       IF k.read = NoBrief THEN new ELSE Flushed(brief[k.lot], k.read, new)]
  /\ marred' = IF soiled \/ k.read # brief[k.lot] THEN marred \cup {k.lot}
                                               ELSE marred \ {k.lot}
  /\ papers' = IF k.hash = NoHash THEN Hashed(papers, k.lot, k.doc, k.text) ELSE papers

Copied(sha, doc, b, m) == AnalysisRow("llm", sha, b.of, doc, b.by, m)
ByRules(sha, doc, text) == AnalysisRow("rules", sha, text, doc, "rules", NoLot)
Answered(sha, doc, text) == AnalysisRow("llm", sha, text, doc, "llm", NoLot)

CallerReads(c) ==
  /\ call[c].stage = "reading"
  /\ call[c].hash = NoHash => ~HashLocked(c, call[c].lot, call[c].doc)
HasTwins(k) == Twins(brief, k.lot, Own(k.hash, k.text)) # {}

CallerCopies(c) ==
  /\ CallerReads(c) /\ c \in Actors
  /\ LET k == call[c]
         own == Own(k.hash, k.text)
     IN  \E m \in Nearest(brief, k.lot, own) :
           Writes(k, Copied(k.text, k.doc, brief[m], m),
                  m \in marred \/ Outdated(m, own, k.text))
  /\ call' = [call EXCEPT ![c] = IdleCaller]
  /\ UNCHANGED <<batch, paid, unfit, booked, batches, replaced>>

\* Rules speak when there is no twin and the row read is not of the model.
CallerTakesRules(c) ==
  /\ CallerReads(c) /\ c \in Actors /\ ~HasTwins(call[c])
  /\ ~ByModel(call[c].read) /\ call[c].text \in Certain
  /\ Writes(call[c], ByRules(call[c].text, call[c].doc, call[c].text), FALSE)
  /\ call' = [call EXCEPT ![c] = IdleCaller]
  /\ UNCHANGED <<batch, paid, unfit, booked, batches, replaced>>

CallerAsks(c) ==
  /\ CallerReads(c)
  /\ \/ c \in Buttons
     \/ ~HasTwins(call[c]) /\ (ByModel(call[c].read) \/ call[c].text \notin Certain)
  /\ call' = [call EXCEPT ![c].stage = "asking"]
  /\ UNCHANGED <<papers, brief, batch, paid, unfit, booked, marred, batches, replaced>>

\* A good answer: the row and the booking are committed together.
CallerAnswered(c) ==
  /\ call[c].stage = "asking" /\ paid < MaxAnswers
  /\ Writes(call[c], Answered(call[c].text, call[c].doc, call[c].text), FALSE)
  /\ paid' = paid + 1 /\ booked' = booked + 1
  /\ call' = [call EXCEPT ![c] = IdleCaller]
  /\ UNCHANGED <<batch, unfit, batches, replaced>>

\* An answer that does not parse, or a row inserted by another caller: paid for,
\* flushed to llm_calls, and rolled back with the session that is not committed.
CallerAnswerUnfit(c) ==
  /\ call[c].stage = "asking" /\ paid < MaxAnswers /\ unfit < MaxUnfit
  /\ paid' = paid + 1 /\ unfit' = unfit + 1
  /\ call' = [call EXCEPT ![c] = IdleCaller]
  /\ UNCHANGED <<papers, brief, batch, booked, marred, batches, replaced>>

\* No answer after the retries, a conflict, or the death of the process.
CallerGivesUp(c) ==
  /\ call[c].stage \in {"reading", "asking"}
  /\ call' = [call EXCEPT ![c] = IdleCaller]
  /\ UNCHANGED <<papers, brief, batch, paid, unfit, booked, marred, batches, replaced>>

-----------------------------------------------------------------------------
\* `reanalyze` reads every candidate, its row and its documents into one session,
\* which keeps them to the end; --force marks the rows in the session and flushes,
\* and the first commit publishes the marks.
BatchStarts(force) ==
  /\ ~batch.on /\ batches < MaxBatches
  /\ batches' = batches + 1
  /\ LET rows == {l \in Briefed : brief[l] # NoBrief}
     IN  batch' = [batch EXCEPT
           !.on = TRUE, !.left = BatchLimit, !.todo = Briefed, !.calls = 0, !.docs = papers,
           !.seen = [l \in Briefed |-> IF force /\ l \in rows
                       THEN [brief[l] EXCEPT !.version = "__force__"] ELSE brief[l]],
           !.marked = IF force THEN rows ELSE {}]
  /\ UNCHANGED <<papers, brief, call, paid, unfit, booked, marred, replaced>>

\* What the session's commit publishes besides the lot just analysed.
Marked(l) == IF l \in batch.marked THEN [brief[l] EXCEPT !.version = "__force__"] ELSE brief[l]

BatchTakes(l) ==
  /\ batch.on /\ batch.stage = "idle" /\ l \in batch.todo
  /\ batch.left > 0
  /\ batch' = [batch EXCEPT !.stage = "reading", !.lot = l]
  /\ UNCHANGED <<papers, brief, call, paid, unfit, booked, marred, batches, replaced>>

BatchTable == [l \in Briefed |-> Marked(l)]
BatchDoc == Len(batch.docs[batch.lot])
BatchPaper == batch.docs[batch.lot][BatchDoc]
\* The file is read by the path the session knows, as it is now.
BatchText == papers[batch.lot][BatchDoc].text
BatchOwn == Own(BatchPaper.hash, BatchText)
BatchReads ==
  /\ batch.stage = "reading" /\ ~AnalysisUpToDate(batch.seen[batch.lot], BatchPaper.text)
  /\ BatchPaper.hash = NoHash => ~\E c \in Callers : HashFlushedBy(c, batch.lot, BatchDoc)

\* What the commit publishes of the simhashes flushed since the last one.
Flushing == batch.hashed \cup (IF BatchPaper.hash = NoHash THEN {batch.lot} ELSE {})
HashesPublished ==
  [l \in Briefed |->
     IF l \notin Flushing THEN papers[l]
     ELSE [papers[l] EXCEPT ![Len(batch.docs[l])].hash =
             IF l = batch.lot THEN BatchOwn ELSE batch.docs[l][Len(batch.docs[l])].hash]]

\* The row and the marks are committed together; the session keeps what it wrote.
BatchWrites(new, soiled, answers) ==
  LET l == batch.lot
      read == batch.seen[l]
      base == BatchTable
  IN  /\ ~Conflicts(l, read)
      /\ brief' = [base EXCEPT ![l] =
           IF read = NoBrief THEN new ELSE Flushed(base[l], read, new)]
      /\ marred' = IF soiled \/ read # base[l] THEN marred \cup {l} ELSE marred \ {l}
      /\ papers' = HashesPublished
      /\ paid' = paid + answers /\ booked' = booked + batch.calls + answers
      /\ batch' = [batch EXCEPT !.stage = "idle", !.lot = NoLot, !.calls = 0,
                     !.marked = {}, !.hashed = {}, !.left = @ - 1, !.todo = @ \ {l},
                     !.seen[l] = new, !.docs[l][BatchDoc].hash = BatchOwn]

BatchSkips ==
  /\ batch.stage = "reading" /\ AnalysisUpToDate(batch.seen[batch.lot], BatchPaper.text)
  /\ batch' = [batch EXCEPT !.stage = "idle", !.lot = NoLot, !.todo = @ \ {batch.lot}]
  /\ UNCHANGED <<papers, brief, call, paid, unfit, booked, marred, batches, replaced>>

\* The SELECT finds the twin in the database; its columns are those the session
\* read at the start, for the row is in its identity map.
BatchCopies ==
  /\ BatchReads
  /\ \E m \in Nearest(BatchTable, batch.lot, BatchOwn) :
       LET known == IF batch.seen[m] = NoBrief THEN brief[m] ELSE batch.seen[m]
       IN  BatchWrites(Copied(BatchPaper.text, BatchDoc, known, m),
                       \/ m \in marred \/ known # brief[m]
                       \/ Outdated(m, BatchOwn, BatchPaper.text), 0)
  /\ UNCHANGED <<call, unfit, batches, replaced>>

\* A marked row is not taken for the model's: its version is "__force__".
BatchTakesRules ==
  /\ BatchReads /\ Twins(BatchTable, batch.lot, BatchOwn) = {}
  /\ BatchText \in Certain /\ ~ByModel(batch.seen[batch.lot])
  /\ BatchWrites(ByRules(BatchPaper.text, BatchDoc, BatchText), BatchText # BatchPaper.text, 0)
  /\ UNCHANGED <<call, unfit, batches, replaced>>

BatchMustAsk ==
  /\ BatchReads /\ Twins(BatchTable, batch.lot, BatchOwn) = {}
  /\ BatchText \notin Certain \/ ByModel(batch.seen[batch.lot])

BatchAnswered ==
  /\ BatchMustAsk /\ paid < MaxAnswers
  /\ BatchWrites(Answered(BatchPaper.text, BatchDoc, BatchText), BatchText # BatchPaper.text, 1)
  /\ UNCHANGED <<call, unfit, batches, replaced>>

\* No row is written; the booking of an unfit answer and the simhash wait for the
\* next commit.
BatchUnanswered ==
  /\ BatchMustAsk
  /\ \E fit \in {0, 1} :
       /\ unfit + fit <= MaxUnfit /\ paid + fit <= MaxAnswers
       /\ paid' = paid + fit /\ unfit' = unfit + fit
       /\ batch' = [batch EXCEPT !.stage = "idle", !.lot = NoLot,
                      !.todo = @ \ {batch.lot}, !.calls = @ + fit,
                      !.hashed = Flushing, !.docs[batch.lot][BatchDoc].hash = BatchOwn]
  /\ UNCHANGED <<papers, brief, call, booked, marred, batches, replaced>>

\* The end, a conflict or a kill: what was not committed is rolled back.
BatchEnds ==
  /\ batch.on
  /\ batch' = NoBatch
  /\ UNCHANGED <<papers, brief, call, paid, unfit, booked, marred, batches, replaced>>

\* A turn of the chat: booked and committed unless the answer has no content.
ChatAnswered ==
  /\ paid < MaxAnswers
  /\ paid' = paid + 1 /\ booked' = booked + 1
  /\ UNCHANGED <<papers, brief, call, batch, unfit, marred, batches, replaced>>
ChatEmpty ==
  /\ paid < MaxAnswers /\ unfit < MaxUnfit
  /\ paid' = paid + 1 /\ unfit' = unfit + 1
  /\ UNCHANGED <<papers, brief, call, batch, booked, marred, batches, replaced>>

AnalysisNext ==
  \/ \E l \in Briefed, t \in Texts : NewDocument(l, t) \/ DownloadedAgain(l, t)
  \/ \E c \in Callers, l \in Briefed : AnalysisStarts(c, l)
  \/ \E c \in Callers :
       \/ CallerCopies(c) \/ CallerTakesRules(c) \/ CallerAsks(c)
       \/ CallerAnswered(c) \/ CallerAnswerUnfit(c) \/ CallerGivesUp(c)
  \/ \E force \in BOOLEAN : BatchStarts(force)
  \/ \E l \in Briefed : BatchTakes(l)
  \/ BatchSkips \/ BatchCopies \/ BatchTakesRules
  \/ BatchAnswered \/ BatchUnanswered \/ BatchEnds
  \/ ChatAnswered \/ ChatEmpty

AnalysisSpec == AnalysisInit /\ [][AnalysisNext]_analysisVars

-----------------------------------------------------------------------------
AnalysisTypeOK ==
  /\ papers \in [Briefed -> Seq(Papers)] /\ \A l \in Briefed : Len(papers[l]) > 0
  /\ brief \in [Briefed -> AnalysisRows \cup {NoBrief}]
  /\ marred \subseteq Briefed
  /\ paid \in 0..MaxAnswers /\ booked \in 0..paid /\ replaced \in 0..MaxTexts

\* What the page of a lot says of its specification was said of that text, or of
\* one within the threshold of its simhash, copies included: the twin is sought
\* among rows analysed on their own, so likeness is never stretched from copy to
\* copy (llm.py, _find_simhash_twin).  Rows written over a row their writer had not
\* read are left out, for the ORM mixes their columns, and so are rows written by a
\* simhash or a sha256 older than the file, which a document downloaded again keeps.
BriefsFitTheirTexts ==
  \A l \in Briefed \ marred :
    brief[l] # NoBrief => <<brief[l].of, brief[l].sha>> \in Near

\* The comment of _analyze_inner: when there is a record of the model, of whatever
\* version, the rules do not push it out.  `reanalyze --force` marks the row with
\* a version that is not the model's and the rules do.
RulesNeverReplaceTheModel ==
  [][\A l \in Briefed :
       brief[l] # NoBrief /\ brief[l].by = "llm" => brief'[l].by = "llm"]_analysisVars

\* The comment of _call_llm: usage is carried into every branch so that the account
\* of the spending does not lose the calls that failed.
EveryAnswerIsBooked ==
  (\A c \in Callers : call[c] = IdleCaller) /\ ~batch.on => booked = paid
=============================================================================
