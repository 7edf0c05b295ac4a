----------------------------- MODULE LiveFiles -----------------------------
(***************************************************************************)
(* The files that a command of the manager (scripts/manager-core.ts) or of *)
(* the direct installer (src/config-editor.ts) replaces together, and the  *)
(* hidden hard links beside them: a claim keeps the old file while its     *)
(* public name is gone, a prepared file is complete before it is public.   *)
(*                                                                         *)
(* A file is its inode: "before" is the one the plan was made from,        *)
(* "after" the prepared one, "foreign" any other.  An inode that a user    *)
(* wrote to in place is spoiled: it has the right identity and the wrong   *)
(* hash.  A step is one link or unlink with the checks in front of it; a   *)
(* writer between the last check and the unlink is excluded, as            *)
(* docs/upgrades.md (248-251) excludes it.                                 *)
(***************************************************************************)
EXTENDS Naturals, Sequences, FiniteSets, SequencesExt

CONSTANTS
    Files,      \* planned files are slots 1..Files; slot 0 is the receipt, or a file like the others
    Kinds,      \* what a plan may do to its file
    MaxEdits,   \* bound: edits by users while a command runs or is to be repaired
    MaxFaults,  \* bound: links, unlinks and writes that fail
    MaxCrashes  \* bound

Receipt == 0
File == 1..Files
Slot == 0..Files

ASSUME FilesAssumption ==
    /\ Files \in Nat
    /\ Kinds \subseteq {"replace", "create", "delete", "read"}
    /\ MaxEdits \in Nat /\ MaxFaults \in Nat /\ MaxCrashes \in Nat

VARIABLES
    kind,      \* the plan of each slot
    public,    \* the inode under the public name
    claim,     \* slots whose claim link exists; it is the "before" inode
    prepared,  \* slots whose prepared link exists
    spoiled,   \* inodes a user wrote to in place
    edited,    \* slots users have touched
    mode,      \* what the command is doing
    todo,      \* its remaining operations, which a crash forgets
    edits, faults, crashes

links == <<public, claim, prepared>>
users == <<kind, spoiled, edited, edits>>
command == <<mode, todo>>
bounds == <<faults, crashes>>
files == <<links, users, command, bounds>>

Before(s) == IF kind[s] = "create" THEN "none" ELSE "before"
After(s) == CASE kind[s] = "delete" -> "none"
              [] kind[s] = "read" -> "before"
              [] OTHER -> "after"
Changed(s) == kind[s] # "read"
Had(s) == Before(s) # "none"
Gets(s) == Changed(s) /\ After(s) # "none"

Intact(s, inode) == <<s, inode>> \notin spoiled
\* The public name has this inode with the bytes it was planned with, or is free.
Holds(s, inode) == public[s] = inode /\ (inode # "none" => Intact(s, inode))

-----------------------------------------------------------------------------
(* A command is a sequence of operations on slots.                         *)

Do(name, s) == [do |-> name, slot |-> s]
When(condition, op) == IF condition THEN <<op>> ELSE <<>>
PerSlot(first, Ops(_)) == FlattenSeq([i \in 1..Files + 1 - first |-> Ops(first + i - 1)])
PerSlotReversed(first, Ops(_)) == FlattenSeq([i \in 1..Files + 1 - first |-> Ops(Files + 1 - i)])

Replaces(s) == When(Changed(s) /\ Had(s), Do("unlink", s)) \o When(Gets(s), Do("publish", s))
Drops(s) == When(Changed(s) /\ Had(s), Do("drop-claim", s)) \o When(Gets(s), Do("drop-prepared", s))
\* Mutant: files that the transaction created are left in place.
RestoresReplaced(s) ==
    IF Changed(s) /\ Had(s) THEN <<Do("withdraw", s), Do("return", s)>> ELSE <<>>
Restores(s) == When(Changed(s), Do("withdraw", s)) \o When(Changed(s) /\ Had(s), Do("return", s))

Pending(name, s) == \E i \in DOMAIN todo : todo[i] = Do(name, s)
Due(names) == todo # <<>> /\ Head(todo).do \in names
At == Head(todo).slot
Proceed == todo' = Tail(todo) /\ mode' = IF Len(todo) = 1 THEN "idle" ELSE mode
Stop == mode' = "idle" /\ todo' = <<>>

\* link(path, claim), link(prepared, path) and unlink(path).
TakeClaim(s) == claim' = (IF Had(s) THEN claim \cup {s} ELSE claim) /\ UNCHANGED <<public, prepared>>
Link(s, inode) == public' = [public EXCEPT ![s] = inode] /\ UNCHANGED <<claim, prepared>>
Unlink(s) == public' = [public EXCEPT ![s] = "none"] /\ UNCHANGED <<claim, prepared>>
Drop(op) ==
    /\ claim' = (IF op.do = "drop-claim" THEN claim \ {op.slot} ELSE claim)
    /\ prepared' = (IF op.do = "drop-prepared" THEN prepared \ {op.slot} ELSE prepared)
    /\ UNCHANGED public

FilesInit ==
    /\ kind \in [Slot -> Kinds]
    /\ public = [s \in Slot |-> Before(s)]
    /\ claim = {} /\ prepared = {} /\ spoiled = {} /\ edited = {}
    /\ mode = "new" /\ todo = <<>>
    /\ edits = 0 /\ faults = 0 /\ crashes = 0

\* Prepared files have names of their own that nobody else looks at.
BeginWith(script) ==
    /\ mode = "new" /\ mode' = "commit" /\ todo' = script
    /\ prepared' = {s \in Slot : Gets(s)}
    /\ UNCHANGED <<public, claim, users, bounds>>

\* A user, or another program, replaces, removes or rewrites a file.
UserEdit ==
    /\ edits < MaxEdits /\ edits' = edits + 1
    /\ \E s \in Slot :
        /\ edited' = edited \cup {s}
        /\ \/ \E inode \in {"none", "foreign"} :
                public' = [public EXCEPT ![s] = inode] /\ UNCHANGED spoiled
           \/ /\ public[s] \in {"before", "after"}
              /\ spoiled' = spoiled \cup {<<s, public[s]>>} /\ UNCHANGED public
    /\ UNCHANGED <<kind, claim, prepared, command, bounds>>

CrashCommand ==
    /\ crashes < MaxCrashes /\ crashes' = crashes + 1
    /\ todo # <<>> /\ Stop
    /\ UNCHANGED <<links, users, faults>>

-----------------------------------------------------------------------------
(* Properties of every command.                                            *)

\* Only a file that existed is claimed, only one that will exist is prepared, and a command
\* that runs has something left to do.
FilesTypeOK ==
    /\ kind \in [Slot -> Kinds]
    /\ public \in [Slot -> {"none", "before", "after", "foreign"}]
    /\ claim \subseteq {s \in Slot : Had(s)}
    /\ prepared \subseteq {s \in Slot : Gets(s)}
    /\ spoiled \subseteq Slot \X {"before", "after"}
    /\ edited \subseteq Slot
    /\ mode \in {"new", "commit", "undo", "recover", "idle"}
    /\ (mode \in {"commit", "undo", "recover"}) = (todo # <<>>)
    /\ \A i \in DOMAIN todo : todo[i].slot \in Slot
    /\ edits \in 0..MaxEdits /\ faults \in 0..MaxFaults /\ crashes \in 0..MaxCrashes

\* Every slot nobody else touched is as it was planned from, or as it was planned to be.
AllBefore == \A s \in Slot \ edited : public[s] = Before(s)
AllAfter == \A s \in Slot \ edited : public[s] = After(s)

\* "Deletes retain the old claim through receipt finalization" (README.md): the bytes a
\* command replaces can be had from their name or their claim until every file is the new
\* one, whatever the command was doing when it failed or crashed.
OriginalsReachable ==
    AllAfter \/ \A s \in Slot \ edited : Had(s) => public[s] = "before" \/ s \in claim

\* "Occupied public/claim paths and third states are never overwritten or manager-deleted"
\* (README.md): no step of a command changes a public file that holds what a user wrote.
UserBytesKept ==
    [][\A s \in Slot :
        edits' = edits /\ (public[s] = "foreign" \/ (public[s] # "none" /\ ~Intact(s, public[s])))
        => public'[s] = public[s]]_files
=============================================================================
