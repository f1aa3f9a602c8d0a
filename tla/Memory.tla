------------------------------- MODULE Memory -------------------------------
(* The memory of the agents (crates/memory-core): texts and files are cut    *)
(* into overlapping chunks, given vectors by a remote provider and kept in a *)
(* table; a search ranks what it finds by vectors and words.  Every access   *)
(* to the table is a transaction of its own, and nothing keeps two calls     *)
(* apart.  The calls come from turns, captures and the memory tools of       *)
(* crates/tools-core.                                                        *)
EXTENDS Integers, Sequences, FiniteSets

CONSTANTS
    Calls,             \* calls of one run
    Paths,             \* files and transcripts
    Sources,           \* sources of memories
    Texts,             \* names of texts
    Shapes,            \* what they may look like: [Texts -> [len, blank, inside, at, thin]]
    Busy,              \* the shapes under which every call is made; under others only one
    Queries,           \* [long, short, stop]: sets of words
    Likeness,          \* of the vectors of each query and text: 0, 1, ...
    Chunk, Overlap,    \* size of a chunk and of what it shares with the next one
    Limit, Multiplier, \* results of a search; candidates for one result
    VectorWeight, TextWeight, Threshold,  \* in hundredths
    MaxEdits,          \* bound on changes to files
    MaxFaults,         \* bound on failures of the table and the provider
    None

VARIABLES
    shape, provider,  \* what the texts look like; whether vectors are made
    disk,             \* the text in each file, or None
    db,               \* the table: chunks by their ids
    job,              \* the calls
    edits, faults,    \* changes and failures so far
    fresh             \* history: the text of each path that was indexed last by a call alone

vars == <<shape, provider, disk, db, job, edits, faults, fresh>>

NewCall == [at |-> "new", op |-> None, path |-> None, text |-> None, todo |-> <<>>, alone |-> TRUE,
            query |-> None, vectors |-> <<>>, words |-> <<>>, top |-> 1, found |-> {}, missed |-> FALSE,
            told |-> None]
OnPath(p) == {c \in Calls : job[c].path = p /\ job[c].at \notin {"new", "done"}}

TypeOK ==
    /\ shape \in Shapes /\ provider \in BOOLEAN
    /\ \A p \in Paths : disk[p] \in Texts \cup {None} /\ fresh[p] \in Texts \cup {None}
    /\ \A c \in Calls : job[c].at \in {"new", "delete", "embed", "store", "vectors", "words", "fetch", "done"}
    /\ edits \in 0..MaxEdits /\ faults \in 0..MaxFaults

-----------------------------------------------------------------------------
\* ceil_char_boundary_safe
Ceil(x, i) == IF i >= x.len THEN x.len
              ELSE CHOOSE j \in i..x.len : j \notin x.inside /\ \A k \in i..(j - 1) : k \in x.inside

\* chunk_by_chars: one chunk from start, ended at a blank line in its last fifth if there is
\* one.  Neither the place where that fifth begins nor the start of the next chunk is moved to
\* the edge of a character, and a slice inside one panics.
Snap(start) == start + (Chunk * 4) \div 5
EndAt(x, start) ==
    LET end == Ceil(x, IF start + Chunk < x.len THEN start + Chunk ELSE x.len)
        blanks == {b \in x.blank : Snap(start) <= b /\ b + 2 <= end}
    IN  IF end < x.len /\ Snap(start) < end /\ blanks # {}
        THEN (CHOOSE b \in blanks : \A d \in blanks : b <= d) + 2 ELSE end
Torn(x, start) ==
    LET end == Ceil(x, IF start + Chunk < x.len THEN start + Chunk ELSE x.len)
    IN  start \in x.inside \/ (end < x.len /\ Snap(start) < end /\ Snap(start) \in x.inside)
SafeOverlap == IF Overlap < Chunk - 1 THEN Overlap ELSE Chunk - 1
After(x, start) ==
    IF EndAt(x, start) - SafeOverlap <= start THEN EndAt(x, start) ELSE EndAt(x, start) - SafeOverlap
Cuts(x) ==
    LET from[s \in 0..x.len] ==
            IF s = x.len THEN <<>>
            ELSE IF Torn(x, s) THEN <<[from |-> s, to |-> s]>>
            ELSE <<[from |-> s, to |-> EndAt(x, s)]>>
                 \o IF EndAt(x, s) >= x.len THEN <<>> ELSE from[After(x, s)]
    IN  from[0]
Panics(x) == \E i \in DOMAIN Cuts(x) : Cuts(x)[i].to = Cuts(x)[i].from

\* The chunks of a text: an id is made of the path, the number and the end of the chunk.
ChunksOf(t, path, source) ==
    LET cuts == Cuts(shape[t])
    IN  [i \in DOMAIN cuts |->
            [id |-> <<path, i, cuts[i].to>>, path |-> path, text |-> t, from |-> cuts[i].from, to |-> cuts[i].to,
             source |-> source, vector |-> FALSE]]
WordsIn(k) == {shape[k.text].at[p] : p \in {q \in DOMAIN shape[k.text].at : k.from <= q /\ q < k.to}}

-----------------------------------------------------------------------------
Put(c, v) == job' = [job EXCEPT ![c] = v]
Told(v, what) == [NewCall EXCEPT !.at = "done", !.op = v.op, !.path = v.path, !.text = v.text, !.told = what]
Fault == faults < MaxFaults /\ faults' = faults + 1
MayCall == shape \in Busy \/ \A c \in Calls : job[c].at = "new"

\* A call on a path, beside others on the same one.
Enter(c, v) ==
    job' = [d \in Calls |-> IF d = c THEN [v EXCEPT !.alone = OnPath(v.path) = {}]
                            ELSE IF d \in OnPath(v.path) THEN [job[d] EXCEPT !.alone = FALSE] ELSE job[d]]

\* index_file and index_session_transcript read the file; a transcript in which the agent
\* said little is left as it was indexed before.
Index(c, p, op) ==
    /\ job[c].at = "new" /\ MayCall
    /\ LET v == [NewCall EXCEPT !.op = op, !.path = p, !.text = disk[p]]
       IN  IF disk[p] = None \/ (op = "transcript" /\ shape[disk[p]].thin)
           THEN Put(c, Told(v, IF disk[p] = None THEN "failed" ELSE "nothing"))
           ELSE Enter(c, [v EXCEPT !.at = "delete"])
    /\ UNCHANGED <<shape, provider, disk, db, edits, faults, fresh>>

Cut(v) ==
    IF Panics(shape[v.text]) THEN Told(v, "panicked")
    ELSE [v EXCEPT !.at = IF provider /\ shape[v.text].len > 0 THEN "embed" ELSE "store",
                   !.todo = ChunksOf(v.text, v.path, v.op)]

\* A search that is under way is no longer alone when the table changes.
PutWritten(c, v) ==
    job' = [d \in Calls |-> IF d = c THEN v
                            ELSE IF job[d].at \in {"words", "fetch"} THEN [job[d] EXCEPT !.alone = FALSE] ELSE job[d]]

\* delete_by_path, and the new chunks.
DeleteByPath(c) ==
    /\ job[c].at = "delete"
    /\ db' = [i \in {j \in DOMAIN db : db[j].path # job[c].path} |-> db[i]]
    /\ fresh' = [fresh EXCEPT ![job[c].path] = None]
    /\ PutWritten(c, Cut(job[c]))
    /\ UNCHANGED <<shape, provider, disk, edits, faults>>

\* add_memory_text: the path of a memory is its source.
AddText(c, s, t) ==
    /\ job[c].at = "new" /\ MayCall
    /\ Put(c, Cut([NewCall EXCEPT !.op = "memory", !.path = s, !.text = t]))
    /\ UNCHANGED <<shape, provider, disk, db, edits, faults, fresh>>

\* add_memory: one chunk with an id of its own and no path.
Add(c, t) ==
    /\ job[c].at = "new" /\ MayCall
    /\ Put(c, [NewCall EXCEPT !.at = IF provider THEN "embed" ELSE "store", !.op = "note", !.text = t,
                 !.todo = <<[id |-> <<"note", c, 0>>, path |-> None, text |-> t, from |-> 0, to |-> shape[t].len,
                             source |-> "note", vector |-> FALSE]>>])
    /\ UNCHANGED <<shape, provider, disk, db, edits, faults, fresh>>

\* embed_chunks: every chunk gets a vector, or the call fails.
Embed(c) ==
    /\ job[c].at = "embed"
    /\ Put(c, [job[c] EXCEPT !.at = "store", !.todo = [i \in DOMAIN job[c].todo |->
                                                         [job[c].todo[i] EXCEPT !.vector = TRUE]]])
    /\ UNCHANGED <<shape, provider, disk, db, edits, faults, fresh>>

\* upsert, chunk by chunk.
Upsert(c) ==
    LET v == job[c]
        k == Head(v.todo)
        last == v.todo = <<>> \/ Len(v.todo) = 1
    IN  /\ v.at = "store"
        /\ db' = IF v.todo = <<>> THEN db
                 ELSE [i \in DOMAIN db \cup {k.id} |-> IF i = k.id THEN k ELSE db[i]]
        /\ PutWritten(c, IF last THEN Told(v, "stored") ELSE [v EXCEPT !.todo = Tail(v.todo)])
        /\ fresh' = IF last /\ v.path \in Paths /\ v.alone THEN [fresh EXCEPT ![v.path] = v.text] ELSE fresh
        /\ UNCHANGED <<shape, provider, disk, edits, faults>>

\* The provider or the table fails: the call ends where it is.
Fails(c) ==
    /\ job[c].at \in {"delete", "embed", "store", "vectors", "words", "fetch"} /\ Fault
    /\ Put(c, Told(job[c], "failed"))
    /\ UNCHANGED <<shape, provider, disk, db, edits, fresh>>

-----------------------------------------------------------------------------
All(q) == q.long \cup q.short \cup q.stop
Rank(words, k) == Cardinality(words \cap WordsIn(k))

\* fts_match: words of three letters or more, all of them; a shorter one matches nothing.
FtsMatch(q, words) == {i \in DOMAIN db : words # {} /\ words \cap q.short = {} /\ words \subseteq WordsIn(db[i])}
\* keyword_like_search: any of the keywords; like_search: the text of the query as it is.
KeywordLike(q) == {i \in DOMAIN db : Rank(q.long \cup q.short, db[i]) > 0}
Like(q) == {i \in DOMAIN db : All(q) # {} /\ All(q) \subseteq WordsIn(db[i])}

\* fts_search: the first of them that finds something, with its own kind of score.
FtsSearch(q) ==
    CASE FtsMatch(q, q.long) # {} -> [i \in FtsMatch(q, q.long) |-> Rank(q.long, db[i])]
      [] FtsMatch(q, q.long) = {} /\ KeywordLike(q) # {} ->
            [i \in KeywordLike(q) |-> Rank(q.long \cup q.short, db[i])]
      [] OTHER -> [i \in Like(q) |-> 1]

\* The n best of some scores; which of the equal ones is open.
IsTop(S, score, n) ==
    /\ S \subseteq DOMAIN score
    /\ Cardinality(S) = IF n < Cardinality(DOMAIN score) THEN n ELSE Cardinality(DOMAIN score)
    /\ \A i \in S, j \in DOMAIN score \ S : score[i] >= score[j]
Only(score, S) == [i \in S |-> score[i]]
MaxOf(score) ==
    IF DOMAIN score = {} THEN 1
    ELSE LET best == CHOOSE n \in {score[i] : i \in DOMAIN score} : \A j \in DOMAIN score : score[j] <= n
         IN  IF best > 0 THEN best ELSE 1

\* Without a provider a search is a search for words.
SearchPlain(c, q) ==
    /\ job[c].at = "new" /\ MayCall /\ ~provider
    /\ \E S \in SUBSET DOMAIN FtsSearch(q) :
         /\ IsTop(S, FtsSearch(q), Limit)
         /\ Put(c, [Told([NewCall EXCEPT !.op = "search"], "found") EXCEPT !.found = {db[i] : i \in S}, !.query = q])
    /\ UNCHANGED <<shape, provider, disk, db, edits, faults, fresh>>

\* hybrid_search: the vector of the query; all stored vectors; the words; the chunks.
Search(c, q) ==
    /\ job[c].at = "new" /\ MayCall /\ provider
    /\ Put(c, [NewCall EXCEPT !.at = "vectors", !.op = "search", !.query = q])
    /\ UNCHANGED <<shape, provider, disk, db, edits, faults, fresh>>

Vectors(c) ==
    LET score == [i \in {j \in DOMAIN db : db[j].vector} |-> Likeness[job[c].query][db[i].text]]
    IN  /\ job[c].at = "vectors"
        /\ \E S \in SUBSET DOMAIN score :
             /\ IsTop(S, score, Limit * Multiplier)
             /\ Put(c, [job[c] EXCEPT !.at = "words", !.vectors = Only(score, S)])
        /\ UNCHANGED <<shape, provider, disk, db, edits, faults, fresh>>

\* The best score of fts_search only sets the scale; what counts are the chunks with every
\* word of the query (fts_search_ids).
Words(c) ==
    LET q == job[c].query
        score == [i \in FtsMatch(q, All(q)) |-> Rank(All(q), db[i])]
    IN  /\ job[c].at = "words"
        /\ \E S \in SUBSET DOMAIN score :
             /\ IsTop(S, score, Limit * Multiplier)
             /\ Put(c, [job[c] EXCEPT !.at = "fetch", !.words = Only(score, S), !.top = MaxOf(FtsSearch(q))])
        /\ UNCHANGED <<shape, provider, disk, db, edits, faults, fresh>>

\* merged scores, in hundredths of the product of both scales.
Scale(v) == MaxOf(v.vectors) * v.top
Merged(v, i) ==
    (IF i \in DOMAIN v.vectors THEN VectorWeight * v.vectors[i] * v.top ELSE 0)
    + (IF i \in DOMAIN v.words THEN TextWeight * v.words[i] * MaxOf(v.vectors) ELSE 0)
Ranked(v) ==
    [i \in {j \in DOMAIN v.vectors \cup DOMAIN v.words : Merged(v, j) >= Threshold * Scale(v)} |-> Merged(v, i)]

Fetch(c) ==
    /\ job[c].at = "fetch"
    /\ \E S \in SUBSET DOMAIN Ranked(job[c]) :
         /\ IsTop(S, Ranked(job[c]), Limit)
         /\ Put(c, [Told(job[c], "found") EXCEPT
                      !.found = {db[i] : i \in S \cap DOMAIN db}, !.query = job[c].query, !.alone = job[c].alone,
                      !.missed = /\ S \cap DOMAIN db = {}
                                 /\ \E i \in DOMAIN db : db[i].vector /\ Likeness[job[c].query][db[i].text] > 0])
    /\ UNCHANGED <<shape, provider, disk, db, edits, faults, fresh>>

-----------------------------------------------------------------------------
\* Somebody writes a file.
Edit(p, t) ==
    /\ shape \in Busy /\ edits < MaxEdits /\ edits' = edits + 1
    /\ disk[p] # t
    /\ disk' = [disk EXCEPT ![p] = t]
    /\ UNCHANGED <<shape, provider, db, job, faults, fresh>>

Init ==
    /\ shape \in Shapes /\ provider \in BOOLEAN
    /\ disk \in [Paths -> Texts]
    /\ db = <<>>
    /\ job = [c \in Calls |-> NewCall]
    /\ edits = 0 /\ faults = 0
    /\ fresh = [p \in Paths |-> None]

Next ==
    \/ \E c \in Calls, p \in Paths, op \in {"file", "transcript"} : Index(c, p, op)
    \/ \E c \in Calls, s \in Sources, t \in Texts : AddText(c, s, t)
    \/ \E c \in Calls, t \in Texts : Add(c, t)
    \/ \E c \in Calls, q \in Queries : SearchPlain(c, q)
    \/ \E c \in Calls, q \in Queries : Search(c, q)
    \/ \E c \in Calls : \/ DeleteByPath(c) \/ Embed(c) \/ Upsert(c) \/ Fails(c)
                        \/ Vectors(c) \/ Words(c) \/ Fetch(c)
    \/ \E p \in Paths, t \in Texts : Edit(p, t)

Spec == Init /\ [][Next]_vars

-----------------------------------------------------------------------------
Stored(p) == {db[i] : i \in {j \in DOMAIN db : db[j].path = p}}

\* A path that one call alone has indexed holds the chunks of the text that call has read, all
\* of them and no others, until another call on the path begins to delete.
IndexedIsWhole ==
    \A p \in Paths : fresh[p] # None =>
        {<<k.text, k.from, k.to>> : k \in Stored(p)} =
            {<<fresh[p], Cuts(shape[fresh[p]])[i].from, Cuts(shape[fresh[p]])[i].to>> : i \in DOMAIN Cuts(shape[fresh[p]])}

\* The chunks of a text that is being stored cover it from end to end, each shares at most
\* the overlap with the next one, and none is longer than a chunk and what is left of its
\* last character.
ChunksCover ==
    \A c \in Calls : job[c].at \in {"embed", "store"} /\ job[c].op # "note" =>
        LET x == shape[job[c].text]
            cuts == Cuts(x)
        IN  /\ \A p \in 0..(x.len - 1) : \E i \in DOMAIN cuts : cuts[i].from <= p /\ p < cuts[i].to
            /\ \A i \in 1..(Len(cuts) - 1) : /\ cuts[i].from < cuts[i + 1].from
                                             /\ cuts[i].to - cuts[i + 1].from \in 0..SafeOverlap
            /\ \A i \in DOMAIN cuts : /\ cuts[i].to - cuts[i].from >= 1
                                      /\ \A p \in (cuts[i].from + Chunk)..(cuts[i].to - 1) : p \in x.inside

\* A memory that was told stored can be found under its id for good: what is there has the
\* same source and the same end.
StoredStays ==
    \A c \in Calls : job[c].told = "stored" /\ job[c].op = "memory" =>
        \A i \in DOMAIN Cuts(shape[job[c].text]) :
            LET id == <<job[c].path, i, Cuts(shape[job[c].text])[i].to>>
            IN  id \in DOMAIN db /\ db[id].source = "memory"

\* A search returns no more than the limit; one without a provider only what has a word of
\* the query; and one with vectors, as long as nobody writes meanwhile, something whenever a
\* stored vector is like that of the query: the threshold never hides the best.
SearchFinds ==
    \A c \in Calls : job[c].told = "found" =>
        /\ Cardinality(job[c].found) <= Limit
        /\ ~provider => \A k \in job[c].found : All(job[c].query) \cap WordsIn(k) # {}
        /\ job[c].alone => ~job[c].missed

\* The same while others write.  It does not hold: what was ranked may be gone when it is
\* fetched, and what took its place is not looked at (search.rs 146).
SearchFindsMeanwhile == \A c \in Calls : ~job[c].missed

\* A memory stays as it was told stored.  It does not hold: the next memory of the same source
\* and length has the same id (manager.rs 240).
MemoriesAreKept ==
    \A c \in Calls : job[c].told = "stored" /\ job[c].op = "memory" =>
        \E k \in Stored(job[c].path) : k.text = job[c].text

\* A call that fails leaves what was indexed before.  It does not hold: the old chunks are
\* deleted before the vectors of the new ones are asked for (manager.rs 52).
FailureIsHarmless ==
    \A c, d \in Calls : job[c].told = "stored" /\ job[d].told = "failed" /\ job[d].op = "file"
                         /\ job[c].path = job[d].path => Stored(job[c].path) # {}

\* Any text can be cut.  It does not hold for texts with characters of several bytes that are
\* longer than a chunk (manager.rs 226, 236).
CutsNeverPanic == \A c \in Calls : job[c].told # "panicked"

\* Two calls on one path leave the chunks of one text.  It does not hold: the ids of two texts
\* differ, so one that stores after the other has deleted adds to it.
OneTextPerPath ==
    \A p \in Paths : OnPath(p) = {} => \A k, l \in Stored(p) : k.text = l.text

\* A search with a provider finds what one without would find.  It does not hold: words of
\* fewer than three letters only count without (search.rs 129).
HybridFindsWords ==
    \A c \in Calls : job[c].told = "found" /\ provider /\ OnPath(None) = {} =>
        (DOMAIN FtsSearch(job[c].query) # {} => job[c].found # {})

=============================================================================
