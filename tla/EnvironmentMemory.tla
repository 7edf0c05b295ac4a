------------------------- MODULE EnvironmentMemory -------------------------
(***************************************************************************)
(* The engine of the environment memory (src/environment-memory/engine.ts):*)
(* an event log in a SQLite database, the identities, entities and         *)
(* relations projected from it, the receipts that make an append           *)
(* repeatable, and the cache of each connection.                           *)
(*                                                                         *)
(* A call is one synchronous transaction, so it is one action; connections *)
(* to one database interleave between calls, and an answer may be lost, so *)
(* that its caller asks again.  The receipts keep every key and operation, *)
(* so the log is kept whole: `base` says up to where its events can no     *)
(* longer be exported.  Of a scope only its owner is told apart, of a      *)
(* record's lifetime whether it has ended.                                 *)
(***************************************************************************)
EXTENDS Naturals, Sequences, FiniteSets

CONSTANTS
    Database,
    Connection,    \* open engines
    Caller,        \* bound: the connections whose callers' requests are followed
    Writer,        \* bound: the connections that append beside them
    Reader,        \* bound: the connections that read
    Home,          \* the database of each connection
    Id,            \* record ids
    Key,           \* idempotency keys
    Owner,         \* sessions
    Shared,        \* project visibility, which has no owner
    Nothing,       \* no record, no type
    Operations,    \* the operations callers ask for
    Followed,      \* bound: those of them that the followed callers ask for
    CacheEntries,  \* options.cacheEntries
    MaxRevision    \* bound: the revision no database goes beyond

Scope == Owner \cup {Shared}
\* `brief` records expire at some time of the run.
Record ==
    [type : {"entity", "relation"}, scope : Scope, brief : BOOLEAN, ends : SUBSET Id,
     revision : 1..MaxRevision]
Operation ==
    [do : {"upsert"}, id : Id, type : {"entity"}, scope : Scope, brief : BOOLEAN, ends : {{}}]
        \cup [do : {"upsert"}, id : Id, type : {"relation"}, scope : Scope, brief : BOOLEAN,
              ends : SUBSET Id \ {{}}]
        \cup [do : {"revoke"}, id : Id, type : {"entity", "relation"}]
Event == [key : Key, op : Operations]

OperationsAssumption ==
    /\ Operations \subseteq Operation /\ Followed \subseteq Operations
    /\ Home \in [Connection -> Database]
    /\ Caller \cup Writer \cup Reader \subseteq Connection
    /\ Shared \notin Owner
    /\ Nothing \notin Record \cup {"entity", "relation"}
    /\ CacheEntries \in Nat \ {0}
    /\ MaxRevision \in Nat \ {0}

VARIABLES
    db,        \* the databases
    request,   \* the append each caller asked for, and the answer
    cache,     \* the cached reads of a connection, least recently used first
    observed,  \* its observedRevision
    late       \* the brief records have expired

vars == <<db, request, cache, observed, late>>

Table ==
    [log : Seq(Event), base : 0..MaxRevision, type : [Id -> {"entity", "relation", Nothing}],
     revoked : SUBSET Id, record : [Id -> Record \cup {Nothing}]]
Answer == {"none", "asked", "committed", "conflict", "refused"}
Request == [state : Answer, event : Event \cup {Nothing}, expected : 0..MaxRevision, revision : 0..MaxRevision]
Cached == [id : Id, owner : Owner, record : Record]

TypeOK ==
    /\ db \in [Database -> Table]
    /\ \A d \in Database : Len(db[d].log) <= MaxRevision
    /\ request \in [Caller -> Request]
    /\ cache \in [Connection -> Seq(Cached)]
    /\ \A c \in Connection : Len(cache[c]) <= CacheEntries
    /\ observed \in [Connection -> 0..MaxRevision]
    /\ late \in BOOLEAN

Empty == [log |-> << >>, base |-> 0, type |-> [i \in Id |-> Nothing], revoked |-> {},
          record |-> [i \in Id |-> Nothing]]

Init ==
    /\ db = [d \in Database |-> Empty]
    /\ request = [c \in Caller |->
                     [state |-> "none", event |-> Nothing, expected |-> 0, revision |-> 0]]
    /\ cache = [c \in Connection |-> << >>]
    /\ observed = [c \in Connection |-> 0]
    /\ late = FALSE

-----------------------------------------------------------------------------
(* applyOperation.                                                         *)

\* A relation is never broader than an end of it.
Fits(scope, end) == end \in {Shared, scope}

IsEntity(t, i) == t.record[i] # Nothing /\ t.record[i].type = "entity"
Relations(t) == {i \in Id : t.record[i] # Nothing /\ t.record[i].type = "relation"}
Dependents(t, i) == {r \in Relations(t) : i \in t.record[r].ends}
Unclaimed(t, op) == t.type[op.id] \in {op.type, Nothing} /\ op.id \notin t.revoked

Permits(t, op) ==
    CASE op.do = "revoke" -> t.type[op.id] = op.type /\ op.id \notin t.revoked
      [] op.do = "upsert" /\ op.type = "entity" ->
            /\ Unclaimed(t, op)
            /\ \A r \in Dependents(t, op.id) : \A e \in t.record[r].ends :
                  \/ e = op.id /\ Fits(t.record[r].scope, op.scope)
                  \/ e # op.id /\ IsEntity(t, e) /\ Fits(t.record[r].scope, t.record[e].scope)
      [] OTHER -> /\ Unclaimed(t, op)
                  /\ \A e \in op.ends : IsEntity(t, e) /\ Fits(op.scope, t.record[e].scope)

\* A revoked entity takes the relations that end in it along.
Gone(t, op) == {op.id} \cup (IF op.type = "entity" THEN Dependents(t, op.id) ELSE {})

Apply(t, event) ==
    LET op == event.op  after == [t EXCEPT !.log = Append(@, event)] IN
    IF op.do = "revoke"
    THEN [after EXCEPT !.revoked = @ \cup Gone(t, op),
                       !.record = [i \in Id |-> IF i \in Gone(t, op) THEN Nothing ELSE @[i]]]
    ELSE [after EXCEPT !.type[op.id] = op.type,
                       !.record[op.id] = [type |-> op.type, scope |-> op.scope, brief |-> op.brief,
                                          ends |-> op.ends, revision |-> Len(t.log) + 1]]

-----------------------------------------------------------------------------
(* append.                                                                 *)

\* A caller asks with the revision it knows to be current, or asks again.
Ask(c) ==
    /\ request[c].state # "asked"
    /\ \E e \in {x \in Event : x.op \in Followed} :
        request' = [request EXCEPT ![c] = [state |-> "asked", event |-> e, revision |-> 0,
                                          expected |-> Len(db[Home[c]].log)]]
    /\ UNCHANGED <<db, cache, observed, late>>

Receipts(t, key) == {r \in 1..Len(t.log) : t.log[r].key = key}

\* What becomes of a request: a receipt answers before the revision is looked at.
\* Mutant: the revision is compared first.
OutcomeByRevision(t, q) ==
    IF Len(t.log) # q.expected THEN "conflict"
    ELSE IF \E r \in Receipts(t, q.event.key) : t.log[r].op = q.event.op THEN "repeated"
    ELSE IF Receipts(t, q.event.key) # {} THEN "conflict"
    ELSE IF Permits(t, q.event.op) THEN "committed" ELSE "refused"
Outcome(t, q) ==
    IF \E r \in Receipts(t, q.event.key) : t.log[r].op = q.event.op THEN "repeated"
    ELSE IF Receipts(t, q.event.key) # {} \/ Len(t.log) # q.expected THEN "conflict"
    ELSE IF Permits(t, q.event.op) THEN "committed" ELSE "refused"

\* The answer reaches the caller, or is lost after the transaction.
Answered(c, state, revision) ==
    request' \in {request, [request EXCEPT ![c] = [state |-> state, event |-> Nothing,
                                                 expected |-> 0, revision |-> revision]]}

\* The connection that changes the database drops its cache.
Changes(c, t) ==
    /\ db' = [db EXCEPT ![Home[c]] = t]
    /\ cache' = [cache EXCEPT ![c] = << >>]
    /\ observed' = [observed EXCEPT ![c] = Len(t.log)]

AppendEvent(c) ==
    LET t == db[Home[c]]  q == request[c] IN
    /\ q.state = "asked"
    /\ \/ /\ Outcome(t, q) = "committed" /\ Len(t.log) < MaxRevision
          /\ Changes(c, Apply(t, q.event)) /\ Answered(c, "committed", Len(t.log) + 1)
       \/ /\ Outcome(t, q) = "repeated" /\ UNCHANGED <<db, cache, observed>>
          /\ \E r \in Receipts(t, q.event.key) : Answered(c, "committed", r)
       \/ /\ Outcome(t, q) \in {"conflict", "refused"} /\ UNCHANGED <<db, cache, observed>>
          /\ Answered(c, Outcome(t, q), 0)
    /\ UNCHANGED late

\* Another caller asks and is answered at once.
Write(c) == \E e \in Event : LET t == db[Home[c]] IN
    /\ Len(t.log) < MaxRevision
    /\ Outcome(t, [event |-> e, expected |-> Len(t.log)]) = "committed"
    /\ Changes(c, Apply(t, e)) /\ UNCHANGED <<request, late>>

-----------------------------------------------------------------------------
(* Snapshots and event batches.                                            *)

\* exportSnapshot and loadSnapshot: what a database with the tables t hands to an empty one.
\* Mutant: only the identities with a current record are carried over.
RestoredActive(t) == [t EXCEPT !.base = Len(t.log), !.revoked = {},
                        !.type = [i \in Id |-> IF t.record[i] = Nothing THEN Nothing ELSE @[i]]]
Restored(t) == [t EXCEPT !.base = Len(t.log)]

\* The checks of loadSnapshot.
Active(t) == {i \in Id : t.record[i] # Nothing}
Accepts(t) ==
    /\ \A i \in Active(t) : t.type[i] = t.record[i].type /\ i \notin t.revoked
                            /\ t.record[i].revision <= Len(t.log)
    /\ \A r \in Relations(t) : \A e \in t.record[r].ends :
          IsEntity(t, e) /\ Fits(t.record[r].scope, t.record[e].scope)
    /\ {i \in Id : t.type[i] # Nothing} \ t.revoked = Active(t)
    /\ Cardinality({t.log[r].key : r \in 1..Len(t.log)}) = Len(t.log)

RestoreSnapshot(c) == \E d \in Database :
    /\ d # Home[c] /\ db[Home[c]].log = << >>
    /\ db[d].log # << >> /\ Accepts(Restored(db[d]))
    /\ Changes(c, Restored(db[d])) /\ UNCHANGED <<request, late>>

Prefix(s, t) == Len(s) <= Len(t) /\ \A i \in 1..Len(s) : s[i] = t[i]

\* eventsSince of another database: what continues the local journal and is retained there.
Continues(t, u) == Prefix(t.log, u.log) /\ Len(t.log) < Len(u.log) /\ u.base <= Len(t.log)

\* The tables as the events that t lacks are applied to it one after another.
Replayed(t, u) ==
    LET after[r \in Len(t.log) .. Len(u.log)] == IF r = Len(t.log) THEN t ELSE Apply(after[r - 1], u.log[r])
    IN  after

Replay(c) == \E d \in Database : LET t == db[Home[c]]  u == db[d] IN
    /\ Continues(t, u)
    /\ \E n \in Len(t.log) + 1 .. Len(u.log) :
        /\ \A r \in Len(t.log) + 1 .. n : Permits(Replayed(t, u)[r - 1], u.log[r].op)
        /\ Changes(c, Replayed(t, u)[n])
    /\ UNCHANGED <<request, late>>

-----------------------------------------------------------------------------
(* get.                                                                    *)

Visible(record, owner) == record.scope \in {Shared, owner}
Fresh(record) == ~(record.brief /\ late)

Readable(t, record, owner) ==
    /\ Visible(record, owner) /\ Fresh(record)
    /\ \A e \in record.ends : IsEntity(t, e) /\ Visible(t.record[e], owner) /\ Fresh(t.record[e])

Direct(t, i, owner) ==
    IF t.record[i] # Nothing /\ Readable(t, t.record[i], owner) THEN t.record[i] ELSE Nothing

\* The cache is dropped when another connection has moved the revision.
Kept(c) == IF observed[c] = Len(db[Home[c]].log) THEN cache[c] ELSE << >>
Hits(c, i, owner) == {k \in 1..Len(Kept(c)) : Kept(c)[k].id = i /\ Kept(c)[k].owner = owner}

Got(c, i, owner) ==
    IF Hits(c, i, owner) = {} THEN Direct(db[Home[c]], i, owner)
    ELSE LET record == Kept(c)[CHOOSE k \in Hits(c, i, owner) : TRUE].record
         IN  IF Readable(db[Home[c]], record, owner) THEN record ELSE Nothing

\* A record that was read is the most recently used; the oldest gives way.
Evicted(s) == IF Len(s) > CacheEntries THEN Tail(s) ELSE s

Others(s, k) == SubSeq(s, 1, k - 1) \o SubSeq(s, k + 1, Len(s))

Get(c, i, owner) ==
    /\ observed' = [observed EXCEPT ![c] = Len(db[Home[c]].log)]
    /\ \/ \E k \in Hits(c, i, owner) :
            cache' = [cache EXCEPT ![c] = Append(Others(Kept(c), k), Kept(c)[k])]
       \/ /\ Hits(c, i, owner) = {}
          /\ cache' = [cache EXCEPT ![c] =
                IF Got(c, i, owner) = Nothing THEN Kept(c)
                ELSE Evicted(Append(Kept(c), [id |-> i, owner |-> owner, record |-> Got(c, i, owner)]))]
    /\ UNCHANGED <<db, request, late>>

Expire == ~late /\ late' = TRUE /\ UNCHANGED <<db, request, cache, observed>>

Next ==
    \/ \E c \in Caller : Ask(c) \/ AppendEvent(c)
    \/ \E c \in Writer : Write(c)
    \/ \E c \in Connection : RestoreSnapshot(c) \/ Replay(c)
    \/ \E c \in Reader, i \in Id, o \in Owner : Get(c, i, o)
    \/ Expire

Spec == Init /\ [][Next]_vars

-----------------------------------------------------------------------------
(* Properties.                                                             *)

\* docs/environment-memory.md, every append carries an idempotency key: a caller that asks
\* again, however often and whatever others have committed meanwhile, is told the revision
\* of its event, and is told of a conflict only if its event is not in the log.
ReplyStep == \A c \in Caller : request[c].state = "asked" =>
    LET log == db'[Home[c]].log  q == request'[c] IN
    /\ q.state = "committed" => log[q.revision] = request[c].event
    /\ q.state \in {"conflict", "refused"} =>
          \A r \in 1..Len(log) : log[r] # request[c].event

\* loadSnapshot must be able to restore whatever exportSnapshot hands out: whatever was
\* upserted, narrowed, revoked and restored, every relation fits its ends, every identity
\* that is not revoked has its record, and no key is used twice.
SnapshotAccepted == \A d \in Database : Accepts(Restored(db[d]))

\* Databases with the same history answer alike, however they came by it: by appends, by a
\* snapshot, by replay of batches.  In particular a restored database still refuses what a
\* revocation forbids, and every batch that continues a journal can be applied.
ReplicasAgree == \A d, e \in Database : db[d].log = db[e].log =>
    db[d].type = db[e].type /\ db[d].revoked = db[e].revoked /\ db[d].record = db[e].record

\* "This per-connection LRU only caches fully committed values": a read answers as it would
\* without the cache, after appends by other connections and after records have expired.
CachedReadsTrue == \A c \in Connection, i \in Id, o \in Owner :
    Got(c, i, o) = Direct(db[Home[c]], i, o)
=============================================================================
