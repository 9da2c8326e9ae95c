---------------------------- MODULE KnowledgeIndex ----------------------------
(***************************************************************************)
(* One content row, its chunks in the knowledge index, the background jobs *)
(* that translate it and index it, and the assistant that quotes them:     *)
(* core/embeddings.py, core/translation.py, modules/ai and the create and  *)
(* update operations of the content modules.  The OpenAI calls are         *)
(* external: they answer or fail.                                          *)
(***************************************************************************)
EXTENDS FiniteSets, Naturals

CONSTANT Jobs       \* background jobs in flight

ASSUME JobsAssumption == IsFiniteSet(Jobs)

VARIABLES
    kind,       \* see Kind
    row,        \* see Row
    chunks,     \* the row's knowledge_chunks: the job that inserted each, its text
    jobs,       \* see Job
    chat,       \* an answer in preparation: see Chat
    asked,      \* the row's text when it was last handed to the index (history)
    clean       \* and that has been carried out, by a job no other disturbed (history)

indexVars == <<kind, row, chunks, jobs, chat, asked, clean>>

\* What has a status column, what is always public, and what is translated but
\* has no place in the index.
Drafted == {"place", "service", "faq", "news"}
Unindexed == {"business", "office", "representative"}
Kind == Drafted \cup {"hospital", "market", "school"} \cup Unindexed

\* The text a row is indexed by, told apart by the columns a job may fill in (the
\* localized ones, an article's summary): blank, typed by someone, or generated.
Text == {"blank", "typed", "auto"}
Row == [text : Text, published : BOOLEAN]

Chunk == [by : Jobs, text : Text]

\* The steps of a job: translate the row ("loaded": has it in memory), then embed
\* the text it was given, delete the old chunks and insert a new one.  op
\* "none": the schedule has nothing for the index.  doomed: what its DELETE saw.
\* last: nothing has been saved or handed to the index since it was queued, nor was
\* another job for the index in flight when its DELETE ran (history).
Job == [pc : {"idle", "translate", "loaded", "index", "embedded", "deleted"},
        op : {"none", "reindex", "delete"}, text : Text, vector : BOOLEAN,
        doomed : SUBSET Chunk, last : BOOLEAN]
NoJob == [pc |-> "idle", op |-> "none", text |-> "blank", vector |-> FALSE, doomed |-> {},
          last |-> FALSE]

\* found: what the answer is grounded in, nothing when none is in preparation;
\* fresh: the index was clean when that was retrieved, and nothing has been saved
\* or handed to it since (history).
Chat == [found : SUBSET Text, fresh : BOOLEAN]
NoChat == [found |-> {}, fresh |-> FALSE]

\* What has no status column is always public, and a chunk is gone before another
\* can be there in the name of the same job.
IndexTypeOK ==
    /\ kind \in Kind
    /\ row \in Row
    /\ chunks \subseteq Chunk
    /\ jobs \in [Jobs -> Job]
    /\ chat \in Chat
    /\ asked \in Text
    /\ clean \in BOOLEAN
    /\ kind \notin Drafted => row.published
    /\ \A c, d \in chunks : c.by = d.by => c = d

\* ingest_all_active_sources publishes what a licensed source feeds, keeps the
\* rest as drafts, and hands no task to anybody.
Ingested == [text : {"typed"}, published : BOOLEAN]

IndexInit ==
    /\ kind \in Kind
    /\ \/ row = [text |-> "blank", published |-> kind \notin Drafted]
       \/ kind = "news" /\ row \in Ingested
    /\ chunks = {}
    /\ jobs = [j \in Jobs |-> NoJob]
    /\ chat = NoChat
    /\ asked = "blank"
    /\ clean = FALSE

-----------------------------------------------------------------------------

\* schedule_publish_reindex, and news' own _schedule_reindex; nothing is embedded
\* while no key is configured, but deletions are always scheduled.
PublishBranch(k, published, configured) ==
    IF k \in Unindexed \/ (k = "news" /\ ~published) THEN "none"
    ELSE IF ~published THEN "delete"
    ELSE IF configured THEN "reindex" ELSE "none"

\* j takes a job, NoJob if there is none to take; whatever the index was asked for
\* before is out of date.
Supersede(j, job) ==
    /\ jobs' = [i \in Jobs |-> IF i = j THEN job ELSE [jobs[i] EXCEPT !.last = FALSE]]
    /\ asked' = job.text
    /\ clean' = FALSE
    /\ chat' = [chat EXCEPT !.fresh = FALSE]

\* The text a job is queued with.
Given(op, text) == IF op = "reindex" THEN text ELSE "blank"

\* News are enriched when created, which leaves little blank; the others are
\* translated at every save.
Fills(k) == k = "news" => row.text = "blank"

\* A create or update commits, then hands its background tasks, in order, to the
\* server: translation_mode and the key decide which there are.
Save(j, text, published) ==
    /\ jobs[j] = NoJob
    /\ kind \notin Drafted => published
    /\ row' = [text |-> text, published |-> published]
    /\ \E automatic \in BOOLEAN, configured \in BOOLEAN :
          LET op == PublishBranch(kind, published, configured) IN
          /\ automatic \/ op # "none"
          /\ Supersede(j, [NoJob EXCEPT !.pc = IF automatic /\ Fills(kind) THEN "translate" ELSE "index",
                                        !.op = op, !.text = Given(op, text), !.last = op # "none"])
    /\ UNCHANGED <<kind, chunks>>

\* The same, with nothing to do in the background.
SaveOnly(j, text, published) ==
    /\ jobs[j] = NoJob
    /\ kind \notin Drafted => published
    /\ PublishBranch(kind, published, FALSE) = "none"
    /\ row' = [text |-> text, published |-> published]
    /\ Supersede(j, NoJob)
    /\ UNCHANGED <<kind, chunks>>

Saved(j, text, published) == Save(j, text, published) \/ SaveOnly(j, text, published)

\* A place is indexed by its status alone, reviewed or not.
SavePlace(j, text, published) == kind = "place" /\ Saved(j, text, published)
SaveService(j, text, published) == kind = "service" /\ Saved(j, text, published)
SaveFaq(j, text, published) == kind = "faq" /\ Saved(j, text, published)
SaveArticle(j, text, published) == kind = "news" /\ Saved(j, text, published)
SaveHospital(j, text) == kind = "hospital" /\ Saved(j, text, TRUE)
SaveMarket(j, text) == kind = "market" /\ Saved(j, text, TRUE)
SaveSchool(j, text) == kind = "school" /\ Saved(j, text, TRUE)
SaveBusiness(j, text) == kind = "business" /\ Saved(j, text, TRUE)
SaveOffice(j, text) == kind = "office" /\ Saved(j, text, TRUE)
SaveRepresentative(j, text) == kind = "representative" /\ Saved(j, text, TRUE)

\* _registry() and _localized_registry(): what the sweeps go through.
Registry == Drafted \cup {"hospital", "market"}
LocalizedRegistry == {"place", "service", "hospital", "market", "business", "representative"}

\* MUTANT: the sweep indexes what it finds
SweepDrafts(j) ==
    /\ jobs[j] = NoJob
    /\ kind \in Registry
    /\ Supersede(j, [NoJob EXCEPT !.pc = "index", !.op = "reindex", !.text = row.text, !.last = TRUE])
    /\ UNCHANGED <<kind, row, chunks>>

\* _reindex_model loads the rows, drafts included, and treats each by its status.
Sweep(j) ==
    /\ jobs[j] = NoJob
    /\ kind \in Registry
    /\ LET op == IF row.published THEN "reindex" ELSE "delete" IN
         Supersede(j, [NoJob EXCEPT !.pc = "index", !.op = op, !.text = Given(op, row.text), !.last = TRUE])
    /\ UNCHANGED <<kind, row, chunks>>

\* translate-missing-content
SweepTranslations(j) ==
    /\ jobs[j] = NoJob
    /\ kind \in LocalizedRegistry
    /\ jobs' = [jobs EXCEPT ![j] = [NoJob EXCEPT !.pc = "translate"]]
    /\ UNCHANGED <<kind, row, chunks, chat, asked, clean>>

\* _translate_missing_fields loads the row and finds something to translate, or not.
LoadForTranslation(j) ==
    /\ jobs[j].pc = "translate"
    /\ jobs' = [jobs EXCEPT ![j].pc = IF row.text = "blank" THEN "loaded" ELSE "index"]
    /\ UNCHANGED <<kind, row, chunks, chat, asked, clean>>

\* translate() answers: the column is written whatever is in it by now.
Translated(j) ==
    /\ jobs[j].pc = "loaded"
    /\ row' = [row EXCEPT !.text = "auto"]
    /\ jobs' = [jobs EXCEPT ![j].pc = "index"]
    /\ UNCHANGED <<kind, chunks, chat, asked, clean>>

TranslationFails(j) ==
    /\ jobs[j].pc = "loaded"
    /\ jobs' = [jobs EXCEPT ![j].pc = "index"]
    /\ UNCHANGED <<kind, row, chunks, chat, asked, clean>>

NothingToIndex(j) ==
    /\ jobs[j].pc = "index" /\ jobs[j].op = "none"
    /\ jobs' = [jobs EXCEPT ![j] = NoJob]
    /\ UNCHANGED <<kind, row, chunks, chat, asked, clean>>

\* embed() answers or returns None.
Embed(j, vector) ==
    /\ jobs[j].pc = "index" /\ jobs[j].op = "reindex"
    /\ jobs' = [jobs EXCEPT ![j].pc = "embedded", ![j].vector = vector]
    /\ UNCHANGED <<kind, row, chunks, chat, asked, clean>>

\* The DELETE sees the chunks committed when it starts, and no later one.
DeleteChunks(j) ==
    /\ jobs[j].pc = IF jobs[j].op = "delete" THEN "index" ELSE "embedded"
    /\ jobs' = [jobs EXCEPT ![j].pc = "deleted", ![j].doomed = chunks,
                            ![j].last = @ /\ \A o \in Jobs \ {j} : jobs[o].op = "none"]
    /\ UNCHANGED <<kind, row, chunks, chat, asked, clean>>

NewChunk(j) ==
    IF jobs[j].vector THEN {[by |-> j, text |-> jobs[j].text]} ELSE {}

\* Carried out as asked, with nothing after it and nothing beside it.
Undisturbed(job) == job.last /\ (job.op = "reindex" => job.vector)

\* MUTANT: the old chunks are left in place
CommitIndexKeepingOld(j) ==
    LET job == jobs[j] IN
    /\ job.pc = "deleted"
    /\ chunks' = chunks \cup NewChunk(j)
    /\ clean' = Undisturbed(job)
    /\ jobs' = [jobs EXCEPT ![j] = NoJob]
    /\ UNCHANGED <<kind, row, chat, asked>>

CommitIndex(j) ==
    LET job == jobs[j] IN
    /\ job.pc = "deleted"
    /\ chunks' = (chunks \ job.doomed) \cup NewChunk(j)
    /\ clean' = Undisturbed(job)
    /\ jobs' = [jobs EXCEPT ![j] = NoJob]
    /\ UNCHANGED <<kind, row, chat, asked>>

\* The process stops between two tasks: nothing remembers the ones that were left.
LoseJob(j) ==
    /\ jobs[j] # NoJob
    /\ jobs' = [jobs EXCEPT ![j] = NoJob]
    /\ UNCHANGED <<kind, row, chunks, chat, asked, clean>>

SaveContent(j, text, published) ==
    \/ SavePlace(j, text, published) \/ SaveService(j, text, published)
    \/ SaveFaq(j, text, published) \/ SaveArticle(j, text, published)

SaveDirectory(j, text) ==
    \/ SaveHospital(j, text) \/ SaveMarket(j, text) \/ SaveSchool(j, text)
    \/ SaveBusiness(j, text) \/ SaveOffice(j, text) \/ SaveRepresentative(j, text)

-----------------------------------------------------------------------------
(* The assistant: embed the question, retrieve, have the model complete, answer. *)

\* The chunks near enough to the question, any of them as far as the row goes;
\* nothing near, or no embedding of the question, and it is refused.
Retrieve(found) ==
    /\ chat.found = {}
    /\ found # {} /\ found \subseteq {c.text : c \in chunks}
    /\ chat' = [found |-> found, fresh |-> clean]
    /\ UNCHANGED <<kind, row, chunks, jobs, asked, clean>>

\* The model answers from what was found, or does not and the question is refused.
Answer ==
    /\ chat.found # {}
    /\ chat' = NoChat
    /\ UNCHANGED <<kind, row, chunks, jobs, asked, clean>>

-----------------------------------------------------------------------------
IndexNext ==
    \/ \E j \in Jobs, text \in {"blank", "typed", row.text} :
          SaveDirectory(j, text) \/ \E published \in BOOLEAN : SaveContent(j, text, published)
    \/ \E j \in Jobs :
          \/ Sweep(j) \/ SweepTranslations(j)
          \/ LoadForTranslation(j) \/ Translated(j) \/ TranslationFails(j) \/ NothingToIndex(j)
          \/ DeleteChunks(j) \/ CommitIndex(j) \/ LoseJob(j)
          \/ \E vector \in BOOLEAN : Embed(j, vector)
    \/ \E found \in SUBSET Text : Retrieve(found)
    \/ Answer

IndexSpec == IndexInit /\ [][IndexNext]_indexVars

-----------------------------------------------------------------------------
(* Properties.                                                               *)

\* embeddings.py:93 "a stale embedding never outlives the content it was built
\* from": once a save's job, or the sweep's, has run with no other beside it or
\* after it and was not refused by OpenAI, the index holds one chunk with the text
\* it was handed if the row is public and none if it is not, whatever was left
\* there before and however the jobs for earlier texts ended.
IndexMatches ==
    clean => {c.text : c \in chunks} = (IF row.published THEN {asked} ELSE {}) /\ Cardinality(chunks) <= 1

\* embeddings.py:1 "keeps knowledge_chunks in sync with the content": then it is the
\* row's own text.  The code does not keep this: the text is taken from the row
\* before the job that fills in its translation has run.
IndexInSync ==
    clean /\ row.published => \A c \in chunks : c.text = row.text

\* ai/service.py:34 grounds an answer in the upazila's own information: while one is
\* prepared from an index that was clean, and nobody saves or reindexes the row,
\* it quotes a public row, in the text that was handed over, and nothing left from
\* before, whatever else the jobs do meanwhile.
AnswersAreOfTheRow ==
    chat.found # {} /\ chat.fresh => row.published /\ chat.found = {asked}
=============================================================================
