-------------------------------- MODULE Tags --------------------------------
(* The tags of one artist, album or track: accounts put tags on it and take  *)
(* them off, and the worker recounts what the tags weigh whenever the entity *)
(* is queued, and every six hours. Statements of one transaction see what    *)
(* others committed meanwhile (READ COMMITTED), so the queue's row and the   *)
(* recount interleave.                                                       *)
EXTENDS Integers, FiniteSets

CONSTANTS
    Taggers, TagNames, TagRequests,
    MAX_TAGS_PER_ENTITY,   \* one account's tags on the entity
    MAX_ENTITY_TAGS,       \* distinct tags on it
    MIN_LISTENERS,         \* weight from which a tag shows on the entity
    MAX_TAGGINGS,          \* one account's tags in all (here: on it)
    MaxTagTimes            \* bound: requests, changes of accounts, full recounts

ASSUME TagsAssumption ==
    /\ IsFiniteSet(Taggers) /\ IsFiniteSet(TagNames)
    /\ MAX_TAGS_PER_ENTITY \in Nat /\ MAX_ENTITY_TAGS \in Nat /\ MAX_TAGGINGS \in Nat
    /\ MIN_LISTENERS \in Nat \ {0} /\ MaxTagTimes \in Nat

VARIABLES
    tagged,     \* user_tags, committed: pairs <<account, tag>>
    names,      \* tags: names with a row
    standing,   \* standing[u]: counts, young, suspended, leaving, gone
    counts,     \* tag_counts: counts[t] = [taggers, weight]
    queue,      \* tag_queue's committed row: absent, settling or due
    tagTx,      \* tagTx[r]: a request's transaction
    recount,    \* the worker's transaction
    purge,      \* the tags purge_unused's statement found unused, or NoPurge
    tagTimes,
    drifted,    \* history: a weight changed by itself, not recounted since
    unqueued,   \* history: a change committed that relied on a queue row the
                \* recount had taken, not recounted since
    swept       \* history: taggings the purge of their tag took with it

tagVars == <<tagged, names, standing, counts, queue, tagTx, recount, purge, tagTimes,
             drifted, unqueued, swept>>

NoTx == [at |-> "idle", op |-> "add", u |-> 0, tag |-> "", row |-> "none"]
NoRecount == [at |-> "idle", counts |-> <<>>, missed |-> FALSE, aged |-> FALSE]
NoPurge == [on |-> FALSE, tags |-> {}]
Uncounted == [t \in TagNames |-> [taggers |-> 0, weight |-> 0]]

TagsInit ==
    /\ tagged = {}
    /\ names \in SUBSET TagNames
    /\ standing \in [Taggers -> {"counts", "young"}]
    /\ counts = Uncounted
    /\ queue = "absent"
    /\ tagTx = [r \in TagRequests |-> NoTx]
    /\ recount = NoRecount /\ purge = NoPurge
    /\ tagTimes = 0 /\ drifted = FALSE /\ unqueued = FALSE /\ swept = {}

TagTime == tagTimes < MaxTagTimes /\ tagTimes' = tagTimes + 1

-----------------------------------------------------------------------------
(* A request to tag or to untag. *)

TagsOf(u) == {t \in TagNames : <<u, t>> \in tagged}
OnEntity == {t \in TagNames : \E u \in Taggers : <<u, t>> \in tagged}

\* The advisory locks of an account and of the entity, until the transaction
\* ends. One of them is enough here, where there is one entity.
TagLockFree == \A r \in TagRequests : tagTx[r].at = "idle" \/ tagTx[r].op # "add"

WithinCaps(u, t) ==
    /\ Cardinality(TagsOf(u)) + 1 <= MAX_TAGS_PER_ENTITY
    /\ Cardinality(TagsOf(u)) + 1 <= MAX_TAGGINGS
    /\ Cardinality(OnEntity \cup {t}) <= MAX_ENTITY_TAGS

\* may_tag, then add: the tag is new to the account here and within the caps.
\* (Refused, or already there: nothing changes.) A tag row that is being
\* deleted is waited for.
AddTag(r, u, t) ==
    /\ tagTx[r].at = "idle" /\ TagTime
    /\ standing[u] \in {"counts", "young"}
    /\ TagLockFree
    /\ t \notin TagsOf(u) /\ WithinCaps(u, t)
    /\ tagTx' = [tagTx EXCEPT ![r] = [NoTx EXCEPT !.at = "wrote", !.u = u, !.tag = t]]
    /\ UNCHANGED <<tagged, names, standing, counts, queue, recount, purge, drifted, unqueued,
                   swept>>

RemoveTag(r, u, t) ==
    /\ tagTx[r].at = "idle" /\ TagTime
    /\ t \in TagsOf(u)
    /\ \A q \in TagRequests : ~(tagTx[q].op = "remove" /\ tagTx[q].u = u /\ tagTx[q].tag = t)
    /\ tagTx' = [tagTx EXCEPT ![r] = [NoTx EXCEPT !.at = "wrote", !.op = "remove", !.u = u,
                                                  !.tag = t]]
    /\ UNCHANGED <<tagged, names, standing, counts, queue, recount, purge, drifted, unqueued,
                   swept>>

\* enqueue: DO NOTHING on a row that is there, without locking it; a row
\* another transaction is inserting or deleting is waited for.
QueueEntity(r) ==
    /\ tagTx[r].at = "wrote"
    /\ recount.at = "idle"
    /\ \A q \in TagRequests : tagTx[q].row # "inserted"
    /\ tagTx' = [tagTx EXCEPT ![r].at = "queued",
                              ![r].row = IF queue = "absent" THEN "inserted" ELSE "found"]
    /\ UNCHANGED <<tagged, names, standing, counts, queue, recount, purge, tagTimes, drifted,
                   unqueued, swept>>

\* Variant: taking a tag off queues nothing.
QueueUnlessRemoved(r) == IF tagTx[r].op = "add" /\ tagTx[r].row = "inserted" THEN "settling" ELSE queue

QueueAfter(r) == IF tagTx[r].row = "inserted" THEN "settling" ELSE queue

CommitTag(r) ==
    LET tx == tagTx[r] IN
    /\ tx.at = "queued"
    /\ standing[tx.u] # "gone"
    /\ IF tx.op = "add"
       THEN tagged' = tagged \cup {<<tx.u, tx.tag>>} /\ names' = names \cup {tx.tag}
       ELSE tagged' = tagged \ {<<tx.u, tx.tag>>} /\ UNCHANGED names
    /\ queue' = QueueAfter(r)
    /\ unqueued' = (unqueued \/ (tx.row = "found" /\ queue = "absent"))
    /\ recount' = [recount EXCEPT !.missed = @ \/ tx.row = "found"]
    /\ tagTx' = [tagTx EXCEPT ![r] = NoTx]
    /\ UNCHANGED <<standing, counts, purge, tagTimes, drifted, swept>>

TagTxLost(r) ==
    /\ tagTx[r].at # "idle"
    /\ tagTx' = [tagTx EXCEPT ![r] = NoTx]
    /\ UNCHANGED <<tagged, names, standing, counts, queue, recount, purge, tagTimes, drifted,
                   unqueued, swept>>

-----------------------------------------------------------------------------
(* Accounts: what changes their weight queues what they tagged, except time. *)

\* enqueue_user: the row is locked and made due.
QueueUser(u) ==
    /\ recount.at = "idle"
    /\ \A q \in TagRequests : tagTx[q].row # "inserted"
    /\ queue' = IF TagsOf(u) = {} THEN queue ELSE "due"

\* A deletion is asked for or taken back, an account is suspended or let tag
\* again.
ChangeStanding(u, to) ==
    /\ TagTime
    /\ standing[u] # "gone" /\ to # standing[u]
    /\ standing[u] \in {"leaving", "suspended"} \/ to \in {"leaving", "suspended"}
    /\ standing' = [standing EXCEPT ![u] = to]
    /\ QueueUser(u)
    /\ UNCHANGED <<tagged, names, counts, tagTx, recount, purge, drifted, unqueued, swept>>

\* delete_user_row: the account's tags go with it.
EraseTagger(u) ==
    /\ standing[u] = "leaving"
    /\ \A r \in TagRequests : tagTx[r].u # u
    /\ standing' = [standing EXCEPT ![u] = "gone"]
    /\ tagged' = {p \in tagged : p[1] # u}
    /\ QueueUser(u)
    /\ UNCHANGED <<names, counts, tagTx, recount, purge, tagTimes, drifted, unqueued, swept>>

\* An account comes of age, or a suspension ends, and nothing is queued.
WeightDrifts(u) ==
    /\ standing[u] \in {"young", "suspended"}
    /\ standing' = [standing EXCEPT ![u] = "counts"]
    /\ drifted' = TRUE
    /\ recount' = [recount EXCEPT !.aged = TRUE]
    /\ UNCHANGED <<tagged, names, counts, queue, tagTx, purge, tagTimes, unqueued, swept>>

-----------------------------------------------------------------------------
(* The worker. *)

\* The settle is over; enqueue_all queues entities with tags or counts.
QueueDue ==
    /\ queue = "settling"
    /\ queue' = "due"
    /\ UNCHANGED <<tagged, names, standing, counts, tagTx, recount, purge, tagTimes, drifted,
                   unqueued, swept>>

EnqueueAll ==
    /\ TagTime
    /\ recount.at = "idle" /\ \A q \in TagRequests : tagTx[q].row # "inserted"
    /\ queue' = IF tagged # {} \/ counts # Uncounted THEN "due" ELSE queue
    /\ UNCHANGED <<tagged, names, standing, counts, tagTx, recount, purge, drifted, unqueued,
                   swept>>

\* recount_due: takes the row off the queue, in its transaction.
TakeDue ==
    /\ recount.at = "idle" /\ queue = "due"
    /\ recount' = [NoRecount EXCEPT !.at = "took"]
    /\ UNCHANGED <<tagged, names, standing, counts, queue, tagTx, purge, tagTimes, drifted,
                   unqueued, swept>>

Recounted ==
    [t \in TagNames |->
        LET by == {u \in Taggers : <<u, t>> \in tagged} IN
        [taggers |-> Cardinality(by),
         weight |-> Cardinality({u \in by : standing[u] = "counts"})]]

\* top_tags, top_entities: what everyone sees.
Shown(t) == counts[t].taggers > 0 /\ counts[t].weight >= MIN_LISTENERS

\* Replaces the counts with what the tags weigh now.
Recount ==
    /\ recount.at = "took"
    /\ recount' = [NoRecount EXCEPT !.at = "counted", !.counts = Recounted]
    /\ UNCHANGED <<tagged, names, standing, counts, queue, tagTx, purge, tagTimes, drifted,
                   unqueued, swept>>

CommitRecount ==
    /\ recount.at = "counted"
    /\ counts' = recount.counts
    /\ queue' = "absent"
    /\ drifted' = recount.aged
    /\ unqueued' = recount.missed
    /\ recount' = NoRecount
    /\ UNCHANGED <<tagged, names, standing, tagTx, purge, tagTimes, swept>>

RecountLost ==
    /\ recount.at # "idle"
    /\ TagTime
    /\ recount' = NoRecount
    /\ UNCHANGED <<tagged, names, standing, counts, queue, tagTx, purge, drifted, unqueued,
                   swept>>

\* purge_unused, one statement: what it finds unused as it starts...
PurgeLooks ==
    /\ ~purge.on /\ TagTime
    /\ purge' = [on |-> TRUE,
                 tags |-> {t \in names : t \notin OnEntity /\ counts[t].taggers = 0}]
    /\ UNCHANGED <<tagged, names, standing, counts, queue, tagTx, recount, drifted, unqueued,
                   swept>>

\* ...and deletes, with the taggings that refer to it by then. It waits for a
\* transaction that has just referred to the tag.
PurgeDeletes ==
    /\ purge.on
    /\ \A r \in TagRequests :
          tagTx[r].at \in {"wrote", "queued"} /\ tagTx[r].op = "add" => tagTx[r].tag \notin purge.tags
    /\ names' = names \ purge.tags
    /\ tagged' = {p \in tagged : p[2] \notin purge.tags}
    /\ counts' = [t \in TagNames |-> IF t \in purge.tags THEN Uncounted[t] ELSE counts[t]]
    /\ swept' = swept \cup (tagged \ tagged')
    /\ purge' = NoPurge
    /\ recount.at = "idle"
    /\ UNCHANGED <<standing, queue, tagTx, recount, tagTimes, drifted, unqueued>>

TagsNext ==
    \/ \E r \in TagRequests :
          \/ \E u \in Taggers, t \in TagNames : AddTag(r, u, t) \/ RemoveTag(r, u, t)
          \/ QueueEntity(r) \/ CommitTag(r) \/ TagTxLost(r)
    \/ \E u \in Taggers :
          \/ \E to \in {"counts", "young", "suspended", "leaving"} : ChangeStanding(u, to)
          \/ EraseTagger(u) \/ WeightDrifts(u)
    \/ QueueDue \/ EnqueueAll \/ TakeDue \/ Recount \/ CommitRecount \/ RecountLost
    \/ PurgeLooks \/ PurgeDeletes

TagsSpec == TagsInit /\ [][TagsNext]_tagVars

-----------------------------------------------------------------------------
TagCounts == [TagNames -> [taggers : Nat, weight : Nat]]
TagTxs == [at : {"idle", "wrote", "queued"}, op : {"add", "remove"}, u : Taggers \cup {0},
           tag : TagNames \cup {""}, row : {"none", "found", "inserted"}]

TagsTypeOK ==
    /\ tagged \subseteq Taggers \X TagNames
    /\ names \subseteq TagNames
    /\ standing \in [Taggers -> {"counts", "young", "suspended", "leaving", "gone"}]
    /\ counts \in TagCounts
    /\ queue \in {"absent", "settling", "due"}
    /\ tagTx \in [TagRequests -> TagTxs]
    /\ recount \in [at : {"idle", "took", "counted"}, counts : TagCounts \cup {<<>>},
                    missed : BOOLEAN, aged : BOOLEAN]
    /\ purge \in [on : BOOLEAN, tags : SUBSET TagNames]
    /\ tagTimes \in 0..MaxTagTimes /\ drifted \in BOOLEAN /\ unqueued \in BOOLEAN
    /\ swept \subseteq Taggers \X TagNames

\* Whenever nothing asks for a recount, the counts everyone sees are what the
\* tags weigh, and a tag shows when as many accounts that count put it there as
\* it takes: each tag put on or taken off and each account suspended,
\* leaving, back or erased is recounted, one committed while the worker
\* recounts included. Excepted are weights that change with time alone, and a
\* change that found the entity's row in the queue, did not lock it, and
\* committed after the worker had taken the row; both wait for the six-hourly
\* recount of everything.
CountsFollowTags ==
    /\ queue = "absent" /\ recount.at = "idle"
    /\ ~drifted /\ ~unqueued
    => /\ counts = Recounted
       /\ \A t \in TagNames :
             Shown(t) <=> Cardinality({u \in Taggers : t \in TagsOf(u) /\ standing[u] = "counts"})
                          >= MIN_LISTENERS

\* No account and no entity ever holds more tags than its cap, however the
\* requests of an account and of others overlap.
TagCapsHold ==
    /\ Cardinality(OnEntity) <= MAX_ENTITY_TAGS
    /\ \A u \in Taggers :
          Cardinality(TagsOf(u)) <= MAX_TAGS_PER_ENTITY /\ Cardinality(TagsOf(u)) <= MAX_TAGGINGS

\* Types; no tag cap is passed; and with nothing queued the counts everyone
\* sees are what the tags weigh, a tag committed while the worker recounts
\* included (tags.rs, recount_due).
TagsHold == TagsTypeOK /\ TagCapsHold /\ CountsFollowTags

\* An account's tag stays until the account takes it off or leaves.
TagsStayOn == swept = {}

=============================================================================
