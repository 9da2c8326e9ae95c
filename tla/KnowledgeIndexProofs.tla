-------------------------- MODULE KnowledgeIndexProofs --------------------------
(***************************************************************************)
(* Proofs about KnowledgeIndex, for any number of jobs in flight.          *)
(***************************************************************************)
EXTENDS KnowledgeIndex, FiniteSetTheorems, TLAPS

\* Only a job with something for the index gets to it, and only one that indexes
\* has a vector.
JobsHaveWork ==
    \A j \in Jobs : /\ jobs[j].pc \in {"embedded", "deleted"} => jobs[j].op # "none"
                    /\ jobs[j].vector => jobs[j].op = "reindex"

\* A job that has deleted sees the end of whatever is there in its own name.
DeletedOwn ==
    \A j \in Jobs : jobs[j].pc = "deleted" => {c \in chunks : c.by = j} \subseteq jobs[j].doomed

\* The job of the latest request does what the row's status asks for, with the text
\* handed over; once it has deleted with no other in flight it has seen every chunk.
LatestIsAsked ==
    \A j \in Jobs : jobs[j].last =>
        /\ jobs[j].op = "reindex" => row.published /\ jobs[j].text = asked
        /\ jobs[j].op = "delete" => ~row.published
        /\ jobs[j].pc = "deleted" => /\ jobs[j].doomed = chunks
                                     /\ \A o \in Jobs \ {j} : jobs[o].op = "none"

\* A clean index is that of the latest request, and nobody is about to change it.
CleanIsAsked ==
    clean => /\ \A j \in Jobs : jobs[j].op = "none"
             /\ IF row.published THEN \E c \in chunks : chunks = {c} /\ c.text = asked ELSE chunks = {}

IndexInv ==
    /\ IndexTypeOK /\ JobsHaveWork /\ DeletedOwn /\ LatestIsAsked /\ CleanIsAsked
    /\ AnswersAreOfTheRow

LEMMA NoJobFields ==
    /\ NoJob \in Job /\ NoJob.pc = "idle" /\ NoJob.op = "none" /\ ~NoJob.vector
    /\ ~NoJob.last /\ NoJob.text = "blank"
BY DEF NoJob, Job, Text

LEMMA IndexStart == IndexInit => IndexInv
<1> SUFFICES ASSUME IndexInit PROVE IndexInv
  OBVIOUS
<1>1. row \in Row /\ (kind \notin Drafted => row.published)
  <2>1. CASE row \in Ingested /\ kind = "news"
    BY <2>1 DEF Row, Text, Ingested, Drafted
  <2>2. CASE row = [text |-> "blank", published |-> kind \notin Drafted]
    <3>1. (kind \notin Drafted) \in BOOLEAN
      OBVIOUS
    <3>2. row.published = (kind \notin Drafted)
      BY <2>2
    <3> QED
      BY <2>2, <3>1, <3>2 DEF Row, Text
  <2> QED
    BY <2>1, <2>2 DEF IndexInit
<1>2. chat = NoChat /\ NoChat \in Chat /\ ~NoChat.fresh
  BY DEF IndexInit, NoChat, Chat
<1>3. \A j \in Jobs : jobs[j] = NoJob
  BY DEF IndexInit
<1>4. IndexTypeOK
  BY <1>1, <1>2, NoJobFields DEF IndexInit, IndexTypeOK, Text
<1> QED
  BY <1>2, <1>3, <1>4, NoJobFields DEF IndexInit, IndexInv, JobsHaveWork, DeletedOwn, LatestIsAsked,
     CleanIsAsked, AnswersAreOfTheRow

\* One job moves on or ends, or has nothing for the index, and the index stays as it
\* is; the row stays public, or not.
LEMMA JobMoves ==
    ASSUME IndexInv, NEW j \in Jobs, NEW job \in Job,
           jobs' = [jobs EXCEPT ![j] = job], UNCHANGED <<kind, chunks, chat, asked, clean>>,
           row' \in Row, row'.published = row.published,
           job.vector => job.op = "reindex",
           job.pc \in {"embedded", "deleted"} => job.op # "none",
           job.op = "none" \/ (job.op = jobs[j].op /\ job.text = jobs[j].text),
           job.last => jobs[j].last,
           job.pc = "deleted" => /\ job.doomed = chunks
                                 /\ job.last => \A o \in Jobs \ {j} : jobs[o].op = "none"
    PROVE  IndexInv'
<1> USE DEF IndexInv, IndexTypeOK
<1>1. \A i \in Jobs : jobs'[i] = IF i = j THEN job ELSE jobs[i]
  OBVIOUS
<1>2. IndexTypeOK'
  OBVIOUS
<1>3. JobsHaveWork'
  BY <1>1 DEF JobsHaveWork
<1>4. DeletedOwn'
  BY <1>1 DEF DeletedOwn
<1>5. LatestIsAsked'
  BY <1>1 DEF LatestIsAsked
<1>6. CleanIsAsked'
  BY <1>1 DEF CleanIsAsked
<1>7. AnswersAreOfTheRow'
  BY DEF AnswersAreOfTheRow
<1> QED
  BY <1>2, <1>3, <1>4, <1>5, <1>6, <1>7

\* A job's own steps before it commits; and one that only translates is queued.
LEMMA JobSteps ==
    ASSUME IndexInv, NEW j \in Jobs,
           \/ SweepTranslations(j) \/ LoadForTranslation(j) \/ Translated(j) \/ TranslationFails(j)
           \/ NothingToIndex(j) \/ DeleteChunks(j) \/ LoseJob(j)
           \/ \E vector \in BOOLEAN : Embed(j, vector)
    PROVE  IndexInv'
<1> DEFINE old == jobs[j]
<1>1. /\ old \in Job /\ old = jobs[j] /\ jobs \in [Jobs -> Job] /\ chunks \subseteq Chunk /\ row \in Row
      /\ old.vector => old.op = "reindex"
      /\ old.pc \in {"embedded", "deleted"} => old.op # "none"
  BY DEF IndexInv, IndexTypeOK, JobsHaveWork
<1> HIDE DEF old
<1>2. CASE NothingToIndex(j) \/ LoseJob(j)
  <2>1. jobs' = [jobs EXCEPT ![j] = NoJob] /\ UNCHANGED <<kind, row, chunks, chat, asked, clean>>
    BY <1>2 DEF NothingToIndex, LoseJob
  <2> QED
    BY <1>1, <2>1, NoJobFields, JobMoves
<1>3. CASE SweepTranslations(j)
  <2> DEFINE job == [NoJob EXCEPT !.pc = "translate"]
  <2>1. jobs' = [jobs EXCEPT ![j] = job] /\ UNCHANGED <<kind, row, chunks, chat, asked, clean>>
    BY <1>3 DEF SweepTranslations
  <2>2. job \in Job /\ job.pc = "translate" /\ job.op = "none" /\ ~job.last /\ ~job.vector
    BY NoJobFields DEF Job
  <2> HIDE DEF job
  <2> QED
    BY <1>1, <2>1, <2>2, JobMoves
<1>4. CASE LoadForTranslation(j) \/ Translated(j) \/ TranslationFails(j)
  <2> DEFINE filled == [row EXCEPT !.text = "auto"]
  <2>1. filled \in Row /\ filled.published = row.published
    BY <1>1 DEF Row, Text
  <2>2. PICK pc \in {"loaded", "index"} : /\ jobs' = [jobs EXCEPT ![j].pc = pc]
                                          /\ UNCHANGED <<kind, chunks, chat, asked, clean>>
                                          /\ row' = row \/ row' = filled
    BY <1>4 DEF LoadForTranslation, Translated, TranslationFails
  <2> HIDE DEF filled
  <2> DEFINE job == [old EXCEPT !.pc = pc]
  <2>3. /\ job \in Job /\ job.pc = pc /\ job.op = old.op /\ job.text = old.text
        /\ job.vector = old.vector /\ job.last = old.last
    BY <1>1 DEF Job
  <2>4. jobs' = [jobs EXCEPT ![j] = job]
    BY <1>1, <2>2
  <2> HIDE DEF job
  <2>5. job.pc \notin {"embedded", "deleted"} /\ row' \in Row /\ row'.published = row.published
    BY <1>1, <2>1, <2>2, <2>3
  <2>6. /\ job.vector => job.op = "reindex"
        /\ job.op = jobs[j].op /\ job.text = jobs[j].text
        /\ job.last => jobs[j].last
    BY <1>1, <2>3
  <2> HIDE DEF filled
  <2> QED
    BY <2>2, <2>3, <2>4, <2>5, <2>6, JobMoves
<1>5. CASE \E vector \in BOOLEAN : Embed(j, vector)
  <2>1. PICK vector \in BOOLEAN : Embed(j, vector)
    BY <1>5
  <2>2. old.op = "reindex"
    BY <1>1, <2>1 DEF Embed
  <2> DEFINE job == [old EXCEPT !.pc = "embedded", !.vector = vector]
  <2>3. /\ job \in Job /\ job.pc = "embedded" /\ job.op = old.op
        /\ job.text = old.text /\ job.last = old.last
    BY <1>1 DEF Job
  <2>4. jobs' = [jobs EXCEPT ![j] = job] /\ UNCHANGED <<kind, row, chunks, chat, asked, clean>>
    BY <1>1, <2>1 DEF Embed
  <2> HIDE DEF job
  <2> QED
    BY <1>1, <2>2, <2>3, <2>4, JobMoves
<1>6. CASE DeleteChunks(j)
  <2> DEFINE alone == \A o \in Jobs \ {j} : jobs[o].op = "none"
             last == old.last /\ alone
  <2>1. old.op # "none"
    BY <1>1, <1>6 DEF DeleteChunks, Job
  <2>2. last \in BOOLEAN /\ (last => old.last) /\ (last => \A o \in Jobs \ {j} : jobs[o].op = "none")
    BY <1>1 DEF Job
  <2>3. jobs' = [jobs EXCEPT ![j] = [old EXCEPT !.pc = "deleted", !.doomed = chunks, !.last = last]]
        /\ UNCHANGED <<kind, row, chunks, chat, asked, clean>>
    BY <1>1, <1>6 DEF DeleteChunks
  <2> HIDE DEF last
  <2> DEFINE job == [old EXCEPT !.pc = "deleted", !.doomed = chunks, !.last = last]
  <2>4. /\ job \in Job /\ job.op = old.op /\ job.text = old.text
        /\ job.vector = old.vector /\ job.last = last /\ job.doomed = chunks
    BY <1>1, <2>2 DEF Job
  <2>5. jobs' = [jobs EXCEPT ![j] = job]
    BY <2>3
  <2> HIDE DEF job
  <2>6. /\ job.vector => job.op = "reindex"
        /\ job.op # "none" /\ job.op = jobs[j].op /\ job.text = jobs[j].text
        /\ job.last => jobs[j].last /\ \A o \in Jobs \ {j} : jobs[o].op = "none"
    BY <1>1, <2>1, <2>2, <2>4
  <2>7. row' \in Row /\ row'.published = row.published
    BY <1>1, <2>3
  <2> QED
    BY <2>3, <2>4, <2>5, <2>6, <2>7, JobMoves
<1> QED
  BY <1>2, <1>3, <1>4, <1>5, <1>6

\* The row is saved or swept: what the others were asked for is out of date.
LEMMA Superseded ==
    ASSUME IndexInv, NEW j \in Jobs, NEW job \in Job, Supersede(j, job),
           UNCHANGED <<kind, chunks>>, row' \in Row, kind \notin Drafted => row'.published,
           job.op = "reindex" => row'.published, job.op = "delete" => ~row'.published,
           ~job.vector, job.pc \notin {"embedded", "deleted"}
    PROVE  IndexInv'
<1> USE DEF IndexInv, IndexTypeOK
<1> DEFINE other(i) == [jobs[i] EXCEPT !.last = FALSE]
<1>1. ASSUME NEW i \in Jobs
      PROVE  /\ other(i) \in Job /\ other(i).last = FALSE
             /\ other(i).pc = jobs[i].pc /\ other(i).op = jobs[i].op
             /\ other(i).vector = jobs[i].vector /\ other(i).doomed = jobs[i].doomed
  BY DEF Job
<1>2. /\ jobs' = [i \in Jobs |-> IF i = j THEN job ELSE other(i)]
      /\ asked' = job.text /\ clean' = FALSE /\ chat' = [chat EXCEPT !.fresh = FALSE]
  BY DEF Supersede
<1> HIDE DEF other
<1>3. \A i \in Jobs : jobs'[i] = IF i = j THEN job ELSE other(i)
  BY <1>2
<1>4. chat' \in Chat /\ ~chat'.fresh
  BY <1>2 DEF Chat
<1>5. IndexTypeOK'
  <2>1. job.text \in Text
    BY DEF Job
  <2> QED
    BY <1>1, <1>2, <1>4, <2>1
<1>6. JobsHaveWork'
  BY <1>1, <1>3 DEF JobsHaveWork
<1>7. DeletedOwn'
  <2> SUFFICES ASSUME NEW i \in Jobs, jobs'[i].pc = "deleted"
               PROVE  {c \in chunks : c.by = i} \subseteq jobs'[i].doomed
    BY DEF DeletedOwn
  <2>1. i # j /\ jobs[i].pc = "deleted" /\ jobs'[i].doomed = jobs[i].doomed
    BY <1>1, <1>3
  <2> QED
    BY <2>1 DEF DeletedOwn
<1>8. LatestIsAsked'
  BY <1>1, <1>2, <1>3 DEF LatestIsAsked
<1>9. CleanIsAsked' /\ AnswersAreOfTheRow'
  BY <1>2, <1>4 DEF CleanIsAsked, AnswersAreOfTheRow
<1> QED
  BY <1>5, <1>6, <1>7, <1>8, <1>9

\* What is scheduled for a save.
LEMMA ScheduledByStatus ==
    ASSUME NEW k, NEW published \in BOOLEAN, NEW configured \in BOOLEAN
    PROVE  LET op == PublishBranch(k, published, configured) IN
           /\ op \in {"none", "reindex", "delete"}
           /\ op = "reindex" => published
           /\ op = "delete" => ~published
BY DEF PublishBranch

LEMMA ContentSaved ==
    ASSUME IndexInv, NEW j \in Jobs, NEW text \in {"blank", "typed", row.text}, NEW published \in BOOLEAN,
           Saved(j, text, published)
    PROVE  IndexInv'
<1> DEFINE saved == [text |-> text, published |-> published]
<1>1. saved \in Row /\ saved.text = text /\ saved.published = published /\ text \in Text
  BY DEF IndexInv, IndexTypeOK, Row, Text
<1>2. /\ row' = saved
      /\ kind \notin Drafted => row'.published
      /\ UNCHANGED <<kind, chunks>>
  BY <1>1 DEF Saved, Save, SaveOnly
<1> HIDE DEF saved
<1>3. row' \in Row /\ row'.published = published
  BY <1>1, <1>2
<1>4. CASE Save(j, text, published)
  <2>1. PICK automatic \in BOOLEAN, configured \in BOOLEAN :
           LET op == PublishBranch(kind, published, configured) IN
           Supersede(j, [NoJob EXCEPT !.pc = IF automatic /\ Fills(kind) THEN "translate" ELSE "index",
                                      !.op = op, !.text = Given(op, text), !.last = op # "none"])
    BY <1>4 DEF Save
  <2> DEFINE op == PublishBranch(kind, published, configured)
             pc == IF automatic /\ Fills(kind) THEN "translate" ELSE "index"
             given == Given(op, text)
             last == op # "none"
             job == [NoJob EXCEPT !.pc = pc, !.op = op, !.text = given, !.last = last]
  <2>2. /\ op \in {"none", "reindex", "delete"} /\ pc \in {"translate", "index"} /\ last \in BOOLEAN
        /\ given \in Text
        /\ op = "reindex" => published
        /\ op = "delete" => ~published
    BY <1>1, ScheduledByStatus DEF Given, Text
  <2>3. Supersede(j, job)
    BY <2>1
  <2> HIDE DEF op, pc, given, last
  <2>4. /\ job \in Job /\ job.pc = pc /\ job.op = op /\ ~job.vector
    BY <2>2, NoJobFields DEF Job
  <2> HIDE DEF job
  <2>5. job.pc \notin {"embedded", "deleted"}
    BY <2>2, <2>4
  <2> QED
    BY <1>2, <1>3, <2>2, <2>3, <2>4, <2>5, Superseded
<1>5. CASE SaveOnly(j, text, published)
  <2>1. Supersede(j, NoJob)
    BY <1>5 DEF SaveOnly
  <2> QED
    BY <1>2, <1>3, <2>1, NoJobFields, Superseded
<1> QED
  BY <1>4, <1>5 DEF Saved

\* The sweep treats the row by its status.
LEMMA RowSwept ==
    ASSUME IndexInv, NEW j \in Jobs, Sweep(j)
    PROVE  IndexInv'
<1> DEFINE op == IF row.published THEN "reindex" ELSE "delete"
           given == Given(op, row.text)
           job == [NoJob EXCEPT !.pc = "index", !.op = op, !.text = given, !.last = TRUE]
<1>1. /\ UNCHANGED <<kind, row, chunks>> /\ row \in Row /\ (kind \notin Drafted => row.published)
      /\ row.text \in Text /\ row.published \in BOOLEAN
  BY DEF Sweep, IndexInv, IndexTypeOK, Row
<1>2. /\ op \in {"reindex", "delete"} /\ (op = "reindex" => row.published) /\ (op = "delete" => ~row.published)
      /\ given \in Text
  BY <1>1 DEF Given, Text
<1>3. Supersede(j, job)
  BY DEF Sweep
<1> HIDE DEF op, given
<1>4. job \in Job /\ job.pc = "index" /\ job.op = op /\ ~job.vector
  BY <1>2, NoJobFields DEF Job
<1> HIDE DEF job
<1> QED
  BY <1>1, <1>2, <1>3, <1>4, Superseded

\* The deletion and the new chunk are committed together.
LEMMA IndexCommitted ==
    ASSUME IndexInv, NEW j \in Jobs, CommitIndex(j)
    PROVE  IndexInv'
<1> USE NoJobFields DEF IndexInv, IndexTypeOK
<1> DEFINE old == jobs[j]
           new == [by |-> j, text |-> old.text]
<1>1. /\ old \in Job /\ old.pc = "deleted" /\ old = jobs[j]
      /\ old.text \in Text
      /\ old.vector => old.op = "reindex"
      /\ old.op # "none" /\ old.op \in {"none", "reindex", "delete"}
      /\ {c \in chunks : c.by = j} \subseteq old.doomed
      /\ old.last \in BOOLEAN /\ old.vector \in BOOLEAN
  BY DEF CommitIndex, JobsHaveWork, DeletedOwn, Job
<1>2. new \in Chunk /\ new.by = j /\ new.text = old.text
  BY <1>1 DEF Chunk
<1>3. /\ chunks' = (chunks \ old.doomed) \cup (IF old.vector THEN {new} ELSE {})
      /\ clean' = (old.last /\ (old.op = "reindex" => old.vector))
      /\ jobs' = [jobs EXCEPT ![j] = NoJob] /\ UNCHANGED <<kind, row, chat, asked>>
  BY DEF CommitIndex, NewChunk, Undisturbed
<1>4. old.last =>
         /\ old.doomed = chunks /\ \A o \in Jobs \ {j} : jobs[o].op = "none"
         /\ old.op = "reindex" => row.published /\ old.text = asked
         /\ old.op = "delete" => ~row.published
  BY <1>1 DEF LatestIsAsked
<1> HIDE DEF old, new
<1>5. \A i \in Jobs : jobs'[i] = IF i = j THEN NoJob ELSE jobs[i]
  BY <1>3
<1>6. IndexTypeOK'
  <2>1. chunks' \subseteq Chunk
    BY <1>2, <1>3
  <2>2. \A c \in chunks' : c = new \/ (c \in chunks /\ c.by # j)
    BY <1>1, <1>3
  <2>3. \A c, d \in chunks' : c.by = d.by => c = d
    BY <1>2, <2>2
  <2>4. clean' \in BOOLEAN
    BY <1>1, <1>3
  <2> QED
    BY <1>3, <2>1, <2>3, <2>4
<1>7. JobsHaveWork'
  BY <1>5 DEF JobsHaveWork
<1>8. DeletedOwn'
  BY <1>2, <1>3, <1>5 DEF DeletedOwn
<1>9. LatestIsAsked'
  <2>1. \A i \in Jobs : i # j /\ jobs[i].last => jobs[i].pc # "deleted"
    BY <1>1 DEF LatestIsAsked
  <2> QED
    BY <1>3, <1>5, <2>1 DEF LatestIsAsked
<1>10. CleanIsAsked'
  <2> SUFFICES ASSUME old.last, old.op = "reindex" => old.vector
               PROVE  /\ \A i \in Jobs : jobs'[i].op = "none"
                      /\ IF row.published THEN \E c : chunks' = {c} /\ c.text = asked ELSE chunks' = {}
    BY <1>1, <1>3 DEF CleanIsAsked
  <2>1. \A i \in Jobs : jobs'[i].op = "none"
    BY <1>4, <1>5
  <2>2. CASE old.op = "reindex"
    <3>1. chunks' = {new} /\ row.published
      BY <1>3, <1>4, <2>2
    <3> QED
      BY <1>2, <1>4, <2>1, <2>2, <3>1
  <2>3. CASE old.op = "delete"
    BY <1>1, <1>3, <1>4, <2>1, <2>3
  <2> QED
    BY <1>1, <2>2, <2>3
<1>11. AnswersAreOfTheRow'
  BY <1>3 DEF AnswersAreOfTheRow
<1> QED
  BY <1>6, <1>7, <1>8, <1>9, <1>10, <1>11

\* An answer is begun from what is in the index, or ends.
LEMMA ChatMoves ==
    ASSUME IndexInv, Answer \/ \E found \in SUBSET Text : Retrieve(found)
    PROVE  IndexInv'
<1>1. UNCHANGED <<kind, row, chunks, jobs, asked, clean>> /\ clean \in BOOLEAN
  BY DEF Answer, Retrieve, IndexInv, IndexTypeOK
<1>2. IndexTypeOK' /\ AnswersAreOfTheRow'
  <2>1. CASE Answer
    <3>1. chat' = NoChat /\ NoChat \in Chat /\ NoChat.found = {}
      BY <2>1 DEF Answer, NoChat, Chat
    <3> QED
      BY <1>1, <3>1 DEF IndexInv, IndexTypeOK, AnswersAreOfTheRow
  <2>2. ASSUME NEW found \in SUBSET Text, Retrieve(found)
        PROVE  IndexTypeOK' /\ AnswersAreOfTheRow'
    <3>1. found # {} /\ found \subseteq {c.text : c \in chunks} /\ chat' = [found |-> found, fresh |-> clean]
      BY <2>2 DEF Retrieve
    <3>2. chat' \in Chat /\ chat'.found = found /\ chat'.fresh = clean
      BY <1>1, <3>1 DEF Chat
    <3>3. clean => row.published /\ found = {asked}
      BY <3>1 DEF IndexInv, CleanIsAsked
    <3> QED
      BY <1>1, <3>2, <3>3 DEF IndexInv, IndexTypeOK, AnswersAreOfTheRow
  <2> QED
    BY <2>1, <2>2
<1> QED
  BY <1>1, <1>2 DEF IndexInv, JobsHaveWork, DeletedOwn, LatestIsAsked, CleanIsAsked

LEMMA IndexStep == IndexInv /\ [IndexNext]_indexVars => IndexInv'
<1> SUFFICES ASSUME IndexInv, [IndexNext]_indexVars PROVE IndexInv'
  OBVIOUS
<1>1. CASE \E j \in Jobs, text \in {"blank", "typed", row.text} :
              SaveDirectory(j, text) \/ \E published \in BOOLEAN : SaveContent(j, text, published)
  <2>1. PICK j \in Jobs, text \in {"blank", "typed", row.text}, published \in BOOLEAN : Saved(j, text, published)
    BY <1>1 DEF SaveDirectory, SaveHospital, SaveMarket, SaveSchool, SaveBusiness, SaveOffice, SaveRepresentative,
                SaveContent, SavePlace, SaveService, SaveFaq, SaveArticle
  <2> QED
    BY <2>1, ContentSaved
<1>2. CASE \E j \in Jobs : Sweep(j)
  BY <1>2, RowSwept
<1>3. CASE \E j \in Jobs : CommitIndex(j)
  BY <1>3, IndexCommitted
<1>4. CASE \E j \in Jobs :
              \/ SweepTranslations(j) \/ LoadForTranslation(j) \/ Translated(j) \/ TranslationFails(j)
              \/ NothingToIndex(j) \/ DeleteChunks(j) \/ LoseJob(j)
              \/ \E vector \in BOOLEAN : Embed(j, vector)
  BY <1>4, JobSteps
<1>5. CASE Answer \/ \E found \in SUBSET Text : Retrieve(found)
  BY <1>5, ChatMoves
<1>6. CASE UNCHANGED indexVars
  BY <1>6 DEF indexVars, IndexInv, IndexTypeOK, JobsHaveWork, DeletedOwn, LatestIsAsked, CleanIsAsked,
              AnswersAreOfTheRow
<1> QED
  BY <1>1, <1>2, <1>3, <1>4, <1>5, <1>6 DEF IndexNext

\* What the invariant says of the index.
LEMMA IndexBounds == IndexInv => IndexTypeOK /\ AnswersAreOfTheRow /\ IndexMatches
<1> SUFFICES ASSUME IndexInv PROVE IndexMatches
  BY DEF IndexInv
<1> SUFFICES ASSUME clean
             PROVE  /\ {c.text : c \in chunks} = (IF row.published THEN {asked} ELSE {})
                    /\ Cardinality(chunks) <= 1
  BY DEF IndexMatches
<1>1. CASE row.published
  <2>1. PICK c : chunks = {c} /\ c.text = asked
    BY <1>1 DEF IndexInv, CleanIsAsked
  <2>2. Cardinality(chunks) = 1
    BY <2>1, FS_Singleton
  <2>3. {d.text : d \in chunks} = {asked}
    BY <2>1
  <2> QED
    BY <1>1, <2>2, <2>3
<1>2. CASE ~row.published
  <2>1. chunks = {}
    BY <1>2 DEF IndexInv, CleanIsAsked
  <2>2. Cardinality(chunks) = 0
    BY <2>1, FS_EmptySet
  <2> QED
    BY <1>2, <2>1, <2>2
<1> QED
  BY <1>1, <1>2

LEMMA IndexAlways == IndexSpec => []IndexInv
BY IndexStart, IndexStep, PTL DEF IndexSpec

\* The row, its chunks, the jobs and the answer in preparation have their types, and a
\* job never has two chunks.
THEOREM IndexTypeCorrect == IndexSpec => []IndexTypeOK
BY IndexAlways, IndexBounds, PTL

\* embeddings.py:93: once the job of the latest save or sweep has deleted and inserted
\* with no other for the index beside it, and none has been asked for since, the index
\* has the text that was handed over, once, or nothing, whatever earlier jobs, lost,
\* late or interleaved, had left there.
THEOREM IndexIsTheLatestAsked == IndexSpec => []IndexMatches
BY IndexAlways, IndexBounds, PTL

\* ai/service.py:34: across the awaits between retrieval and the model's answer, an
\* answer begun from such an index quotes a public row, in the text it was indexed by,
\* until somebody saves or sweeps the row.
THEOREM AnswersStayOfTheRow == IndexSpec => []AnswersAreOfTheRow
BY IndexAlways, IndexBounds, PTL
=============================================================================
