------------------------------ MODULE Memories ------------------------------
(***************************************************************************)
(* What the plugin remembers between its calls, each committed by compare- *)
(* and-swap on a revision under a lock: the manifest of a run (RunStore),  *)
(* the environment memory of a project, which its sessions share           *)
(* (EnvironmentMemory), and the memory of one session and its runs         *)
(* (SessionMemory).  They share no step, and a behaviour is of one of them.*)
(* Of a session it has the calls with the deliveries Beside them, calls    *)
(* that overlap, or the deliveries of the journal: of one another these    *)
(* see the checkpoint, which commands change in any, and whether the       *)
(* session can be delivered to.                                            *)
(***************************************************************************)
EXTENDS RunStore

CONSTANTS
    Database, Connection, Caller, Writer, Reader, Home, Id, Key, Owner, Shared, Nothing,
    Operations, Followed, CacheEntries, MaxTable,                        \* EnvironmentMemory
    Wrapped, Beside, Overlapping, Delivery,                              \* SessionMemory
    Retry, MaxPins, Window, MaxCheckpoint, MaxRun, MaxFails, None

VARIABLES
    by,
    db, request, cache, observed, late,
    head, revoked, run, call, spent, journal, hook, published, unavailable, fails
database == <<db, request, cache, observed, late>>
session == <<head, revoked, run, call, spent, journal, hook, published, unavailable, fails>>
allvars == <<by, vars, database, session>>

Environment == INSTANCE EnvironmentMemory WITH MaxRevision <- MaxTable
Sessions == INSTANCE SessionMemory
    WITH Caller <- Wrapped, Request <- Beside, MaxRevision <- MaxCheckpoint
Overlaps == INSTANCE SessionMemory
    WITH Caller <- Overlapping, Request <- {}, MaxRevision <- MaxCheckpoint
Journals == INSTANCE SessionMemory
    WITH Caller <- {}, Request <- Delivery, MaxRevision <- MaxCheckpoint
ASSUME EnvironmentAssumption == Environment!OperationsAssumption
ASSUME SessionAssumption == Sessions!BoundsAssumption /\ Overlaps!BoundsAssumption

NoEnvironment == db = {} /\ request = {} /\ cache = {} /\ observed = {} /\ late = FALSE
NoSession ==
    /\ head = {} /\ revoked = {} /\ run = {} /\ call = {} /\ spent = {}
    /\ journal = {} /\ hook = {} /\ published = {} /\ unavailable = FALSE /\ fails = 0

MemoriesInit ==
    /\ Init
    /\ \/ by = "run" /\ NoEnvironment /\ NoSession
       \/ by = "environment" /\ Environment!Init /\ NoSession
       \/ by = "session" /\ Sessions!Init /\ NoEnvironment
       \/ by = "overlap" /\ Overlaps!Init /\ NoEnvironment
       \/ by = "journal" /\ Journals!Init /\ NoEnvironment
MemoriesNext ==
    \/ by = "run" /\ Next /\ UNCHANGED <<by, database, session>>
    \/ by = "environment" /\ Environment!Next /\ UNCHANGED <<by, vars, session>>
    \/ by = "session" /\ Sessions!Next /\ UNCHANGED <<by, vars, database>>
    \/ by = "overlap" /\ Overlaps!Next /\ UNCHANGED <<by, vars, database>>
    \/ by = "journal" /\ Journals!Next /\ UNCHANGED <<by, vars, database>>
MemoriesSpec == MemoriesInit /\ [][MemoriesNext]_allvars

-----------------------------------------------------------------------------
\* What exportSnapshot hands out can be restored by loadSnapshot and continued by replay, and
\* databases with one history answer alike, however they came by it and whatever the
\* connection that answers has cached.
ReplicasTrue == by = "environment" =>
    Environment!SnapshotAccepted /\ Environment!ReplicasAgree /\ Environment!CachedReadsTrue
\* append tells a caller that asks again what became of its event, and only what is so.
RepliesTrue == [][by = "environment" => Environment!ReplyStep]_allvars
\* An operator's allowance is behind one execution at most, and once executed under it is not
\* offered again, also when calls of the session for one run overlap.  When they follow one
\* another, a failure blocks a repetition as long as, and only as long as, the committed run
\* shows it (committedFailureDecision).
RepeatsGuarded ==
    /\ by = "session" => Sessions!RepeatsExcused
    /\ by = "overlap" => Overlaps!RepeatsExcused
\* The delivery journal says emitted, or unconfirmed, only of a text that was published, and
\* hook_failed only of one that was not.
JournalHonest ==
    /\ by = "session" => Sessions!DeliveryHonest
    /\ by = "journal" => Journals!DeliveryHonest
\* An allowance that was revoked between preflight and consumption is not consumed.
RevokedNeverConsumed ==
    [][/\ by = "session" => Sessions!ConsumeStep
       /\ by = "overlap" => Overlaps!ConsumeStep]_allvars
=============================================================================
