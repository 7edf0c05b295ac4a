-------------------- MODULE EnvironmentReplication_proofs --------------------
(***************************************************************************)
(* Proofs about EnvironmentReplication, for any number of databases, calls *)
(* that stop or fail anywhere and histories of any length: the variables   *)
(* keep their types, and the remote history is append-only.                *)
(***************************************************************************)
EXTENDS EnvironmentReplication, SequenceTheorems, TLAPS

\* What the state of a call promises about the manifest it is about to publish.
Sound(c) ==
    /\ c \in Call
    /\ ~Committed(c.remote) => c.remote.head = << >>
    /\ c.pc \in {"put", "publish"} =>
        /\ Extends(c.remote.head, c.next.head)
        /\ Len(c.next.batches) <= MaxBatches
        /\ Committed(c.next)

\* The inductive invariant: an upload only ever continues the head it was decided on,
\* and a database never falls behind what a call observed of it.
Inv ==
    /\ TypeOK
    /\ ~Committed(manifest) => manifest.head = << >>
    /\ \A e \in Engine : Sound(call[e]) /\ Len(call[e].local) <= Len(journal[e])

-----------------------------------------------------------------------------
(* Histories and records.                                                  *)

\* hashAt: the cursor of an earlier revision is the history up to it.
LEMMA UpToPrefix ==
    ASSUME NEW h \in History, NEW k \in 0..Len(h)
    PROVE  /\ UpTo(h, k) \in History
           /\ Len(UpTo(h, k)) = k
           /\ \A i \in 1..k : UpTo(h, k)[i] = h[i]
<1>1. \A i \in 1..k : h[i] \in Event
    BY DEF History
<1>2. k \in Int /\ 1 \in Int
    OBVIOUS
<1>3. /\ SubSeq(h, 1, k) \in Seq(Event)
      /\ Len(SubSeq(h, 1, k)) = IF 1 <= k THEN k - 1 + 1 ELSE 0
      /\ \A i \in 1..(k - 1 + 1) : SubSeq(h, 1, k)[i] = h[1 + i - 1]
    BY <1>1, <1>2, SubSeqProperties
<1> QED
    BY <1>3 DEF UpTo, History

\* The records a call starts from and returns to.
LEMMA Records ==
    /\ << >> \in History
    /\ NoManifest \in Manifest
    /\ Len(NoManifest.batches) <= MaxBatches
    /\ Sound(NoCall)
<1>1. << >> \in History /\ << >> \in Seq(Object) /\ Len(<< >>) = 0
    BY EmptySeq DEF History
<1>2. NoManifest \in Manifest
    BY <1>1 DEF NoManifest, Manifest, Snapshot, Object
<1>3. NoCall \in Call
    BY <1>1, <1>2 DEF NoCall, Call, PC
<1> QED
    BY <1>1, <1>2, <1>3, LimitsAssumption DEF NoCall, NoManifest, Sound, Committed
-----------------------------------------------------------------------------
(* The call of one engine is replaced by a sound one.                      *)

\* A step that only moves the call of e to a sound call keeps all calls sound.
LEMMA SetCallSound ==
    ASSUME Inv, NEW e \in Engine, NEW c, Sound(c), SetCall(e, c)
    PROVE  /\ call' \in [Engine -> Call]
           /\ \A f \in Engine : Sound(call'[f])
<1>1. c \in Call
    BY DEF Sound
<1>2. call \in [Engine -> Call]
    BY DEF Inv, TypeOK
<1>3. call' = [call EXCEPT ![e] = c]
    BY DEF SetCall
<1>4. call' \in [Engine -> Call]
    BY <1>1, <1>2, <1>3
<1>5. ASSUME NEW f \in Engine PROVE Sound(call'[f])
    <2>1. CASE f = e
        BY <1>2, <1>3, <2>1
    <2>2. CASE f # e
        <3>1. call'[f] = call[f]
            BY <1>2, <1>3, <2>2
        <3> QED BY <3>1 DEF Inv
    <2> QED BY <2>1, <2>2
<1> QED
    BY <1>4, <1>5

\* What the invariant says of one call.
LEMMA CallFacts ==
    ASSUME Inv, NEW e \in Engine
    PROVE  /\ call[e] \in Call
           /\ journal[e] \in History
           /\ base[e] \in Nat
           /\ Sound(call[e])
           /\ Len(call[e].local) <= Len(journal[e])
BY DEF Inv, TypeOK

\* replicateEnvironmentMemory: another attempt, or the end of the call.
LEMMA AgainSound ==
    ASSUME Inv, NEW e \in Engine
    PROVE  Sound(Again(e))
<1>1. call[e].attempt \in Nat
    BY CallFacts DEF Call
<1> DEFINE c == [NoCall EXCEPT !.pc = "retry", !.attempt = call[e].attempt]
<1>2. Sound(NoCall) /\ NoCall \in Call
    BY Records DEF Sound
<1>3. c \in Call /\ c.pc = "retry" /\ c.remote = NoCall.remote
    BY <1>1, <1>2 DEF Call, PC
<1>4. Sound(c)
    BY <1>2, <1>3 DEF Sound
<1> QED
    BY <1>2, <1>4 DEF Again

\* The receipt of a published or an unchanged manifest.
LEMMA ReceiptSound ==
    ASSUME Inv, NEW e \in Engine, NEW m \in Manifest
    PROVE  Sound(Receipt(e, m))
<1>1. call[e].local \in History
    BY CallFacts DEF Call
<1>2. Sound(NoCall) /\ NoCall \in Call
    BY Records DEF Sound
<1>3. /\ Receipt(e, m) \in Call
      /\ Receipt(e, m).pc = "done"
      /\ Receipt(e, m).remote = NoCall.remote
    BY <1>1, <1>2 DEF Receipt, Call, PC
<1> QED
    BY <1>2, <1>3 DEF Sound

\* An upload is sound when what it publishes continues the head it was decided on.
LEMMA UploadSound ==
    ASSUME Inv, NEW e \in Engine, NEW m \in Manifest,
           Extends(call[e].remote.head, m.head), Len(m.batches) <= MaxBatches
    PROVE  Sound(Upload(e, m))
<1>1. call[e] \in Call /\ call[e].remote \in Manifest /\ call[e].remote.generation \in Nat
    BY CallFacts DEF Call, Manifest
<1> DEFINE n == [m EXCEPT !.generation = call[e].remote.generation + 1]
<1>2. n \in Manifest /\ n.head = m.head /\ n.batches = m.batches /\ n.generation > 0
    BY <1>1 DEF Manifest
<1>3. Upload(e, m) = [call[e] EXCEPT !.pc = "put", !.next = n]
    BY DEF Upload
<1>4. /\ Upload(e, m) \in Call
      /\ Upload(e, m).next = n
      /\ Upload(e, m).remote = call[e].remote
    BY <1>1, <1>2, <1>3 DEF Call, PC
<1>5. ~Committed(call[e].remote) => call[e].remote.head = << >>
    BY CallFacts DEF Sound
<1> QED
    BY <1>2, <1>4, <1>5 DEF Sound, Committed

\* uploadCheckpoint: the receipts of the snapshot have the remote head.
LEMMA CheckpointSound ==
    ASSUME Inv, NEW e \in Engine,
           ~Committed(call[e].remote) \/ Len(call[e].remote.head) < Len(call[e].local)
    PROVE  Sound(Checkpoint(e))
<1> DEFINE head == call[e].remote.head
           m == CheckpointManifest(call[e].local)
<1>1. CASE ~(journal[e] = call[e].local /\ UpTo(journal[e], Len(head)) = head)
    BY <1>1, AgainSound DEF Checkpoint
<1>2. CASE journal[e] = call[e].local /\ UpTo(journal[e], Len(head)) = head
    <2>1. /\ call[e].local \in History /\ head \in History
          /\ ~Committed(call[e].remote) => head = << >>
        BY CallFacts DEF Call, Manifest, Sound
    <2>2. m \in Manifest /\ m.head = call[e].local /\ m.batches = << >>
        BY <2>1, Records DEF CheckpointManifest, Snapshot, Manifest, Object
    <2>3. Len(m.batches) <= MaxBatches
        BY <2>2, LimitsAssumption
    <2>4. Len(head) \in 0..Len(call[e].local)
        BY <2>1 DEF History
    <2>5. Extends(head, call[e].local)
        BY <1>2, <2>1, <2>4, UpToPrefix, SMTT(30) DEF Extends, History
    <2>6. Sound(Upload(e, m))
        BY <2>2, <2>3, <2>5, UploadSound
    <2> QED
        BY <1>2, <2>6 DEF Checkpoint
<1> QED
    BY <1>1, <1>2

\* eventsSince, bounded by the observed revision: the segment continues the remote head.
LEMMA NextSegmentSound ==
    ASSUME Inv, NEW e \in Engine, TakesSegment(e),
           Len(call[e].remote.head) < Len(call[e].local)
    PROVE  Sound(NextSegment(e))
<1> DEFINE r == call[e].remote
           k == Len(r.head) + SegmentLimit(e)
           from == UpTo(journal[e], Len(r.head))
           to == UpTo(journal[e], k)
           m == [r EXCEPT !.head = to, !.batches = Append(@, Segment(from, to))]
<1>1. /\ r \in Manifest /\ r.head \in History /\ r.batches \in Seq(Object)
      /\ journal[e] \in History /\ call[e].local \in History
    BY CallFacts DEF Call, Manifest
<1>2. /\ Len(r.head) \in 0..Len(journal[e])
      /\ k \in 0..Len(journal[e]) /\ Len(r.head) <= k
    <2>1. /\ Len(r.head) \in Nat /\ Len(journal[e]) \in Nat /\ Len(call[e].local) \in Nat
          /\ Len(call[e].local) <= Len(journal[e])
        BY <1>1, CallFacts DEF History
    <2> DEFINE room == Len(call[e].local) - Len(r.head)
    <2>2. room \in Nat
        BY <2>1
    <2>3. SegmentLimit(e) = IF EventLimit < room THEN EventLimit ELSE room
        BY DEF SegmentLimit
    <2> HIDE DEF room
    <2>4. SegmentLimit(e) \in Nat /\ SegmentLimit(e) <= room
        BY <2>2, <2>3, LimitsAssumption
    <2>5. Len(r.head) + room = Len(call[e].local)
        BY <2>1 DEF room
    <2>6. Len(r.head) + SegmentLimit(e) <= Len(journal[e])
        BY <2>1, <2>2, <2>4, <2>5
    <2>7. Len(r.head) + SegmentLimit(e) \in Nat /\ Len(r.head) <= Len(r.head) + SegmentLimit(e)
        <3>1. \A n, l \in Nat : n + l \in Nat /\ n <= n + l
            OBVIOUS
        <3> QED
            BY <2>1, <2>4, <3>1, Zenon
    <2> QED
        BY <2>1, <2>6, <2>7
<1>3. /\ from \in History
      /\ Len(from) = Len(r.head)
      /\ \A i \in 1..Len(r.head) : from[i] = journal[e][i]
    BY <1>1, <1>2, UpToPrefix
<1>4. /\ to \in History
      /\ Len(to) = k
      /\ \A i \in 1..k : to[i] = journal[e][i]
    BY <1>1, <1>2, UpToPrefix
<1>5. Segment(from, to) \in Object
    BY <1>3, <1>4 DEF Segment, Object
<1>6. /\ Append(r.batches, Segment(from, to)) \in Seq(Object)
      /\ Len(Append(r.batches, Segment(from, to))) = Len(r.batches) + 1
    BY <1>1, <1>5, AppendProperties
<1>7. /\ m \in Manifest /\ m.head = to
      /\ m.batches = Append(r.batches, Segment(from, to))
    BY <1>1, <1>4, <1>6 DEF Manifest
<1>8. Len(m.batches) <= MaxBatches
    BY <1>1, <1>6, <1>7, LimitsAssumption DEF TakesSegment
<1>9. CASE from = r.head
    <2>1. Extends(r.head, m.head)
        BY <1>2, <1>3, <1>4, <1>7, <1>9 DEF Extends
    <2>2. Sound(Upload(e, m))
        BY <1>7, <1>8, <2>1, UploadSound
    <2> QED
        BY <1>9, <2>2 DEF NextSegment
<1>10. CASE from # r.head
    BY <1>10, Records DEF NextSegment
<1> QED
    BY <1>9, <1>10
-----------------------------------------------------------------------------
(* The steps.                                                              *)

\* Bounds and objects aside, what a step has to keep.
LEMMA InitInv == Init => Inv
<1> SUFFICES ASSUME Init PROVE Inv
    OBVIOUS
<1>1. /\ << >> \in History
      /\ NoManifest \in Manifest /\ Len(NoManifest.batches) <= MaxBatches
      /\ NoManifest.head = << >>
      /\ Sound(NoCall) /\ NoCall \in Call /\ NoCall.local = << >>
    BY Records DEF Sound, NoManifest, NoCall
<1>2. TypeOK
    BY <1>1 DEF Init, TypeOK
<1>3. Len(<< >>) <= Len(<< >>)
    OBVIOUS
<1> QED
    BY <1>1, <1>2, <1>3 DEF Init, Inv

\* A step of engine e that replaces its call by c and leaves the rest alone, but for
\* objects and faults.
LEMMA CallStep ==
    ASSUME Inv, NEW e \in Engine, NEW c, Sound(c), SetCall(e, c),
           Len(c.local) <= Len(journal[e]),
           UNCHANGED <<journal, base, manifest>>,
           objects' \in SUBSET Object, faults' \in Nat
    PROVE  Inv'
<1>1. call' \in [Engine -> Call] /\ \A f \in Engine : Sound(call'[f])
    BY SetCallSound
<1>2. \A f \in Engine : Len(call'[f].local) <= Len(journal'[f])
    <2> SUFFICES ASSUME NEW f \in Engine PROVE Len(call'[f].local) <= Len(journal'[f])
        OBVIOUS
    <2>1. call \in [Engine -> Call] /\ call' = [call EXCEPT ![e] = c]
        BY DEF Inv, TypeOK, SetCall
    <2>2. CASE f = e
        BY <2>1, <2>2
    <2>3. CASE f # e
        BY <2>1, <2>3, CallFacts
    <2> QED
        BY <2>2, <2>3
<1>3. TypeOK'
    BY <1>1 DEF Inv, TypeOK
<1>4. (~Committed(manifest) => manifest.head = << >>)'
    BY DEF Inv, Committed
<1>5. (\A f \in Engine : Sound(call[f]))'
    BY <1>1 DEF Sound, Committed, Extends
<1> QED
    BY <1>2, <1>3, <1>4, <1>5 DEF Inv

\* The calls that leave the manifest alone.
LEMMA ReadStep == ASSUME Inv, NEW e \in Engine, Observe(e) \/ ReadManifest(e) \/ Stop(e)
                  PROVE  Inv'
<1>1. /\ objects \in SUBSET Object /\ faults \in Nat /\ manifest \in Manifest
      /\ ~Committed(manifest) => manifest.head = << >>
    BY DEF Inv, TypeOK
<1>2. /\ call[e] \in Call /\ Sound(call[e]) /\ journal[e] \in History
      /\ Len(call[e].local) <= Len(journal[e])
    BY CallFacts
<1>3. Sound(NoCall) /\ NoCall \in Call /\ NoCall.local = << >>
    BY Records DEF Sound, NoCall
<1>4. Len(NoCall.local) <= Len(journal[e])
    BY <1>2, <1>3 DEF History
<1>5. CASE Observe(e)
    <2> DEFINE c == [NoCall EXCEPT !.pc = "read", !.local = journal[e],
                                   !.attempt = call[e].attempt + 1]
    <2>0. call[e].attempt + 1 \in Nat
        BY <1>2 DEF Call
    <2>1. c \in Call /\ c.pc = "read" /\ c.remote = NoCall.remote /\ c.local = journal[e]
        BY <1>2, <1>3, <2>0 DEF Call, PC
    <2>2. Sound(c)
        BY <1>3, <2>1 DEF Sound
    <2>3. Len(c.local) <= Len(journal[e])
        BY <1>2, <2>1 DEF History
    <2> QED
        BY <1>1, <1>5, <2>2, <2>3, CallStep DEF Observe, Local
<1>6. CASE ReadManifest(e)
    <2> DEFINE c == [call[e] EXCEPT !.pc = "decide", !.remote = manifest]
    <2>1. c \in Call /\ c.pc = "decide" /\ c.remote = manifest /\ c.local = call[e].local
        BY <1>1, <1>2 DEF Call, PC
    <2>2. Sound(c)
        BY <1>1, <2>1 DEF Sound
    <2>3. SetCall(e, c) \/ SetCall(e, NoCall)
        BY <1>6 DEF ReadManifest
    <2> QED
        BY <1>1, <1>2, <1>3, <1>4, <1>6, <2>1, <2>2, <2>3, CallStep DEF ReadManifest, Local
<1>7. CASE Stop(e)
    BY <1>1, <1>3, <1>4, <1>7, CallStep DEF Stop, Local
<1> QED
    BY <1>5, <1>6, <1>7

\* The decision of replicateAttempt leads to a sound upload, a receipt or a retry.
LEMMA DecideStep == ASSUME Inv, NEW e \in Engine, Decide(e) PROVE Inv'
<1> DEFINE remote == call[e].remote
<1>1. /\ objects \in SUBSET Object /\ faults \in Nat
      /\ remote \in Manifest /\ journal[e] \in History
      /\ Len(call[e].local) <= Len(journal[e])
    BY CallFacts DEF Inv, TypeOK, Call
<1>2. PICK c \in {Checkpoint(e), NextSegment(e), Receipt(e, remote), Again(e)} :
        SetCall(e, c) /\ Sound(c)
    <2>1. CASE SetCall(e, Checkpoint(e)) /\ (~Committed(remote) \/ Len(remote.head) < Len(call[e].local))
        BY <2>1, CheckpointSound
    <2>2. CASE SetCall(e, NextSegment(e)) /\ TakesSegment(e) /\ Len(remote.head) < Len(call[e].local)
        BY <2>2, NextSegmentSound
    <2>3. CASE SetCall(e, Receipt(e, remote))
        BY <1>1, <2>3, ReceiptSound
    <2>4. CASE SetCall(e, Again(e))
        BY <2>4, AgainSound
    <2> QED
        BY <2>1, <2>2, <2>3, <2>4 DEF Decide
<1>3. Len(NoCall.local) <= Len(journal[e]) /\ Len(Again(e).local) <= Len(journal[e])
    <2>1. NoCall.local = << >> /\ Again(e).local = << >>
        BY DEF NoCall, Again
    <2> QED
        BY <1>1, <2>1 DEF History
<1>4. \A m : Upload(e, m).local = call[e].local /\ Receipt(e, m).local = call[e].local
    BY CallFacts DEF Upload, Receipt, NoCall, Call
<1>5. Len(c.local) <= Len(journal[e])
    <2>1. c \in {Again(e), NoCall} \/ c.local = call[e].local
        BY <1>2, <1>4 DEF Checkpoint, NextSegment
    <2> QED
        BY <1>1, <1>3, <2>1
<1> QED
    BY <1>1, <1>2, <1>5, CallStep DEF Decide, Local

\* The upload adds an object of the manifest that waits for it.
LEMMA UploadedObjects == ASSUME Inv, NEW e \in Engine PROVE Uploaded(e) \in SUBSET Object
<1> DEFINE m == call[e].next
           o == IF m.batches = << >> THEN m.snapshot ELSE m.batches[Len(m.batches)]
<1>1. m.snapshot \in Object /\ m.batches \in Seq(Object)
    BY CallFacts DEF Call, Manifest
<1>2. o \in Object
    BY <1>1
<1>3. objects \in SUBSET Object /\ Uploaded(e) = objects \cup {o}
    BY DEF Inv, TypeOK, Uploaded
<1> QED
    BY <1>2, <1>3

LEMMA AgainLocal == ASSUME Inv, NEW e \in Engine PROVE Len(Again(e).local) <= Len(journal[e])
<1>1. Again(e).local = << >> /\ journal[e] \in History
    BY CallFacts DEF Again, NoCall
<1> QED
    BY <1>1 DEF History

LEMMA PutStep == ASSUME Inv, NEW e \in Engine, Put(e) PROVE Inv'
<1> DEFINE c == [call[e] EXCEPT !.pc = "publish"]
<1>1. /\ call[e] \in Call /\ Sound(call[e]) /\ call[e].pc = "put"
      /\ Len(call[e].local) <= Len(journal[e])
    BY CallFacts DEF Put
<1>2. /\ c \in Call /\ c.pc = "publish" /\ c.local = call[e].local
      /\ c.remote = call[e].remote /\ c.next = call[e].next
    BY <1>1 DEF Call, PC
<1>3. Sound(c)
    BY <1>1, <1>2 DEF Sound
<1>4. objects' \in SUBSET Object /\ faults' \in Nat
    BY UploadedObjects DEF Put, Inv, TypeOK
<1> QED
    BY <1>1, <1>2, <1>3, <1>4, CallStep DEF Put, Local

\* A step of engine e that ends its call with c and puts its next manifest in place.
LEMMA SwapStep ==
    ASSUME Inv, NEW e \in Engine, call[e].pc = "publish", manifest' = call[e].next,
           NEW c, Sound(c), SetCall(e, c), Len(c.local) <= Len(journal[e]),
           UNCHANGED <<journal, base, objects>>, faults' \in Nat
    PROVE  Inv'
<1>1. call' \in [Engine -> Call] /\ \A f \in Engine : Sound(call'[f])
    BY SetCallSound
<1>2. \A f \in Engine : Len(call'[f].local) <= Len(journal'[f])
    <2> SUFFICES ASSUME NEW f \in Engine PROVE Len(call'[f].local) <= Len(journal'[f])
        OBVIOUS
    <2>1. call \in [Engine -> Call] /\ call' = [call EXCEPT ![e] = c]
        BY DEF Inv, TypeOK, SetCall
    <2>2. CASE f = e
        BY <2>1, <2>2
    <2>3. CASE f # e
        BY <2>1, <2>3, CallFacts
    <2> QED
        BY <2>2, <2>3
<1>3. /\ manifest' \in Manifest /\ Len(manifest'.batches) <= MaxBatches
      /\ Committed(manifest')
    BY CallFacts DEF Sound, Call
<1>4. TypeOK'
    BY <1>1, <1>3 DEF Inv, TypeOK
<1>5. (~Committed(manifest) => manifest.head = << >>)'
    BY <1>3 DEF Committed
<1>6. (\A f \in Engine : Sound(call[f]))'
    BY <1>1 DEF Sound, Committed, Extends
<1> QED
    BY <1>2, <1>4, <1>5, <1>6 DEF Inv

LEMMA PublishStep == ASSUME Inv, NEW e \in Engine, Publish(e) PROVE Inv'
<1>1. /\ call[e].next \in Manifest /\ Len(call[e].local) <= Len(journal[e])
      /\ objects \in SUBSET Object /\ faults \in Nat
    BY CallFacts DEF Inv, TypeOK, Call
<1>2. CASE Swaps(e)
    <2> DEFINE c == Receipt(e, call[e].next)
    <2>1. Sound(c) /\ c.local = call[e].local
        BY <1>1, ReceiptSound DEF Receipt, NoCall
    <2> HIDE DEF c
    <2>2. /\ call[e].pc = "publish" /\ manifest' = call[e].next /\ SetCall(e, c)
          /\ UNCHANGED <<journal, base, objects, faults>>
        BY <1>2 DEF Publish, Local, c
    <2> QED
        BY <1>1, <2>1, <2>2, SwapStep
<1>3. CASE ~Swaps(e)
    BY <1>1, <1>3, AgainSound, AgainLocal, CallStep DEF Publish, Local
<1> QED
    BY <1>2, <1>3

LEMMA UnavailableStep == ASSUME Inv, NEW e \in Engine, Unavailable(e) PROVE Inv'
<1>1. /\ objects \in SUBSET Object /\ faults' \in Nat
      /\ UNCHANGED <<journal, base>>
      /\ SetCall(e, Again(e)) /\ Sound(Again(e)) /\ Len(Again(e).local) <= Len(journal[e])
    BY AgainSound, AgainLocal DEF Unavailable, Local, Inv, TypeOK
<1>2. CASE UNCHANGED <<objects, manifest>>
    BY <1>1, <1>2, CallStep
<1>3. CASE objects' = Uploaded(e) /\ UNCHANGED manifest
    BY <1>1, <1>3, UploadedObjects, CallStep
<1>4. CASE call[e].pc = "publish" /\ manifest' = call[e].next /\ UNCHANGED objects
    BY <1>1, <1>4, SwapStep
<1> QED
    BY <1>2, <1>3, <1>4 DEF Unavailable

\* A step of engine e that gives its database a history at least as long.
LEMMA JournalStep ==
    ASSUME Inv, NEW e \in Engine, NEW h \in History, Len(journal[e]) <= Len(h),
           journal' = [journal EXCEPT ![e] = h], base' \in [Engine -> Nat],
           UNCHANGED <<objects, manifest, faults>>,
           UNCHANGED call \/ SetCall(e, NoCall)
    PROVE  Inv'
<1>1. /\ journal \in [Engine -> History] /\ call \in [Engine -> Call]
      /\ \A f \in Engine : /\ Sound(call[f])
                           /\ Len(call[f].local) <= Len(journal[f])
                           /\ Len(call[f].local) \in Nat
                           /\ Len(journal[f]) \in Nat
    BY DEF Inv, TypeOK, Call, History
<1>2. Sound(NoCall) /\ NoCall \in Call /\ Len(NoCall.local) = 0 /\ Len(h) \in Nat
    BY Records DEF Sound, NoCall, History
<1>3. /\ journal' \in [Engine -> History]
      /\ \A f \in Engine : journal'[f] = IF f = e THEN h ELSE journal[f]
    BY <1>1
<1>4. /\ call' \in [Engine -> Call]
      /\ \A f \in Engine : call'[f] = call[f] \/ call'[f] = NoCall
    BY <1>1, <1>2 DEF SetCall
<1>5. \A f \in Engine : Sound(call'[f])
    BY <1>1, <1>2, <1>4
<1>6. \A f \in Engine : Len(call'[f].local) <= Len(journal'[f])
    <2> SUFFICES ASSUME NEW f \in Engine PROVE Len(call'[f].local) <= Len(journal'[f])
        OBVIOUS
    <2>1. Len(journal[f]) <= Len(journal'[f]) /\ Len(journal'[f]) \in Nat
        BY <1>1, <1>2, <1>3
    <2>2. CASE call'[f] = call[f]
        BY <1>1, <2>1, <2>2
    <2>3. CASE call'[f] = NoCall
        BY <1>2, <2>1, <2>3
    <2> QED
        BY <1>4, <2>2, <2>3
<1>7. TypeOK'
    BY <1>3, <1>4 DEF Inv, TypeOK
<1>8. (~Committed(manifest) => manifest.head = << >>)'
    BY DEF Inv, Committed
<1>9. (\A f \in Engine : Sound(call[f]))'
    BY <1>5 DEF Sound, Committed, Extends
<1> QED
    BY <1>6, <1>7, <1>8, <1>9 DEF Inv

LEMMA AppendStep == ASSUME Inv, NEW e \in Engine, AppendEvent(e) PROVE Inv'
<1>1. PICK x \in Event : journal' = [journal EXCEPT ![e] = Append(journal[e], x)]
    BY DEF AppendEvent
<1>2. journal[e] \in History
    BY CallFacts
<1>3. /\ Append(journal[e], x) \in History
      /\ Len(Append(journal[e], x)) = Len(journal[e]) + 1
      /\ Len(journal[e]) \in Nat
    BY <1>2, AppendProperties DEF History
<1>4. Len(journal[e]) <= Len(Append(journal[e], x))
    BY <1>3
<1>5. base' \in [Engine -> Nat] /\ UNCHANGED <<objects, manifest, call, faults>>
    BY DEF AppendEvent, Inv, TypeOK
<1> QED
    BY <1>1, <1>3, <1>4, <1>5, JournalStep

\* A restore only ever fills an empty database.
LEMMA RestoreStep == ASSUME Inv, NEW e \in Engine, Restore(e) PROVE Inv'
<1>1. /\ journal \in [Engine -> History] /\ base \in [Engine -> Nat]
      /\ objects \in SUBSET Object /\ faults \in Nat /\ manifest \in Manifest
      /\ call[e].remote \in Manifest
      /\ \A f \in Engine : journal[f] \in History /\ Len(journal[f]) \in Nat
    BY CallFacts DEF Inv, TypeOK, Call, History
<1>2. Sound(NoCall) /\ NoCall \in Call /\ NoCall.local = << >>
    BY Records DEF Sound, NoCall
<1>3. Len(NoCall.local) <= Len(journal[e])
    BY <1>1, <1>2
<1>4. CASE StartRestore(e)
    <2> DEFINE c == [NoCall EXCEPT !.pc = "load", !.remote = manifest]
    <2>1. c \in Call /\ c.pc = "load" /\ c.remote = manifest /\ c.local = << >>
        BY <1>1, <1>2 DEF Call, PC
    <2>2. Sound(c)
        BY <1>4, <2>1 DEF Sound, StartRestore
    <2>3. Len(c.local) <= Len(journal[e])
        BY <1>2, <1>3, <2>1
    <2> HIDE DEF c
    <2>4. SetCall(e, c) /\ UNCHANGED <<journal, base, objects, manifest, faults>>
        BY <1>4 DEF StartRestore, Local, c
    <2> QED
        BY <1>1, <2>2, <2>3, <2>4, CallStep
<1>5. CASE Load(e)
    <2>1. SetCall(e, NoCall) /\ UNCHANGED <<objects, manifest, faults>>
        BY <1>5 DEF Load
    <2>2. CASE journal[e] = << >>
        <3> DEFINE h == call[e].remote.head
        <3>1. h \in History /\ Len(journal[e]) <= Len(h)
            BY <1>1, <2>2 DEF Manifest, History
        <3>2. journal' = [journal EXCEPT ![e] = h]
            BY <1>5, <2>2 DEF Load
        <3>3. Len(call[e].remote.snapshot.to) \in Nat
            <4>1. call[e].remote.snapshot \in Object
                BY <1>1 DEF Manifest
            <4>2. call[e].remote.snapshot.to \in Seq(Event)
                BY <4>1 DEF Object, History
            <4> QED
                BY <4>2, LenProperties
        <3>4. base' \in [Engine -> Nat]
            BY <1>1, <1>5, <2>2, <3>3 DEF Load
        <3> QED
            BY <2>1, <3>1, <3>2, <3>4, JournalStep
    <2>3. CASE journal[e] # << >>
        <3>1. UNCHANGED <<journal, base>>
            BY <1>5, <2>3 DEF Load, Local
        <3> QED
            BY <1>1, <1>2, <1>3, <2>1, <3>1, CallStep
    <2> QED
        BY <2>2, <2>3
<1>6. CASE RestoreFile(e)
    <2>0. PICK o \in Engine : \E k \in 1..Len(journal[o]) :
            /\ journal' = [journal EXCEPT ![e] = UpTo(journal[o], k)]
            /\ base' = [base EXCEPT ![e] = k]
        BY <1>6 DEF RestoreFile
    <2>1. PICK k \in 1..Len(journal[o]) :
            /\ journal' = [journal EXCEPT ![e] = UpTo(journal[o], k)]
            /\ base' = [base EXCEPT ![e] = k]
        BY <2>0
    <2>2. k \in 0..Len(journal[o]) /\ k \in Nat
        BY <1>1, <2>1
    <2>3. UpTo(journal[o], k) \in History /\ Len(UpTo(journal[o], k)) = k
        BY <1>1, <2>2, UpToPrefix
    <2>4. Len(journal[e]) <= Len(UpTo(journal[o], k))
        BY <1>6, <2>2, <2>3 DEF RestoreFile
    <2>5. base' \in [Engine -> Nat] /\ UNCHANGED <<objects, manifest, call, faults>>
        BY <1>1, <1>6, <2>1, <2>2 DEF RestoreFile
    <2> QED
        BY <2>1, <2>3, <2>4, <2>5, JournalStep
<1> QED
    BY <1>4, <1>5, <1>6 DEF Restore

LEMMA NextInv == Inv /\ [Next]_vars => Inv'
<1> SUFFICES ASSUME Inv, [Next]_vars PROVE Inv'
    OBVIOUS
<1>1. CASE Next
    <2>1. PICK e \in Engine : AppendEvent(e) \/ Replicate(e) \/ Restore(e)
        BY <1>1 DEF Next
    <2> QED
        BY <2>1, AppendStep, RestoreStep, ReadStep, DecideStep, PutStep, PublishStep,
           UnavailableStep DEF Replicate
<1>2. CASE UNCHANGED vars
    BY <1>2 DEF vars, Inv, TypeOK, Sound, Committed, Extends
<1> QED
    BY <1>1, <1>2

LEMMA SpecInv == Spec => []Inv
BY InitInv, NextInv, PTL DEF Spec

-----------------------------------------------------------------------------
(* The theorems.                                                           *)

\* The variables keep their types, and a manifest never has more segments than its limit.
THEOREM TypeCorrect == Spec => []TypeOK
<1>1. Inv => TypeOK
    BY DEF Inv
<1> QED
    BY <1>1, SpecInv, PTL

\* Only replaceManifest, of a manifest still in place, moves the remote history, and what
\* it publishes continues it: for any number of writers, of lost databases and of failed
\* requests, the remote history is an append-only log.
THEOREM RemoteAppendOnly == Spec => RemoteIsLog
<1>1. Init => Remote!Init
    BY DEF Init, Remote!Init, NoManifest
<1>2. ASSUME Inv, [Next]_vars PROVE [Remote!Next]_(manifest.head)
    <2>1. ASSUME NEW e \in Engine, call[e].pc = "publish", Swaps(e), manifest' = call[e].next
          PROVE  Remote!Next
        <3>1. /\ manifest = call[e].remote
              /\ Extends(call[e].remote.head, call[e].next.head)
              /\ manifest \in Manifest /\ call[e].next \in Manifest
            BY <1>2, <2>1, CallFacts DEF Sound, Swaps, Call
        <3> QED
            BY <2>1, <3>1 DEF Remote!Next, Remote!Extends, Extends, Manifest, History
    <2>2. CASE UNCHANGED manifest
        BY <2>2
    <2>3. CASE \E e \in Engine : Publish(e) \/ Unavailable(e)
        BY <2>1, <2>2, <2>3 DEF Publish, Unavailable
    <2> QED
        BY <1>2, <2>2, <2>3 DEF Next, AppendEvent, Replicate, Restore, Observe, ReadManifest,
           Decide, Put, Stop, StartRestore, Load, RestoreFile, vars
<1> QED
    BY <1>1, <1>2, SpecInv, PTL DEF Spec, RemoteIsLog, Remote!Spec

-----------------------------------------------------------------------------
(* What is published is whole, and what is reported is so.                 *)

\* Verified, of a store of objects O.
VerifiedIn(m, O) ==
    /\ m.snapshot \in O
    /\ \A i \in 1..Len(m.batches) :
        /\ m.batches[i] \in O
        /\ m.batches[i].from = IF i = 1 THEN m.snapshot.to ELSE m.batches[i - 1].to
    /\ m.head = IF m.batches = << >> THEN m.snapshot.to ELSE m.batches[Len(m.batches)].to

\* What an upload puts into the store.
New(m) == IF m.batches = << >> THEN m.snapshot ELSE m.batches[Len(m.batches)]

\* What is so of a call c of a database with history h, while the store has the objects O
\* and the manifest m: its manifest leads to objects that are there, but for the one it is
\* about to upload, and goes no further than what it observed.
Honest(c, h, O, m) ==
    /\ Extends(c.local, h)
    /\ c.pc = "decide" /\ Committed(c.remote) =>
            VerifiedIn(c.remote, O) /\ Extends(c.remote.head, m.head)
    /\ c.pc = "put" => VerifiedIn(c.next, O \cup {New(c.next)})
    /\ c.pc = "publish" => VerifiedIn(c.next, O)
    /\ c.pc \in {"put", "publish", "done"} => Extends(c.next.head, c.local)
    /\ c.pc = "done" => Extends(c.next.head, m.head)

\* The inductive invariant of ReplicationTrue, beside Inv.
Whole ==
    /\ Committed(manifest) => VerifiedIn(manifest, objects)
    /\ \A e \in Engine : Honest(call[e], journal[e], objects, manifest)

\* validateManifestContents, of the store as it is.
LEMMA VerifiedHere ==
    ASSUME NEW m \in Manifest
    PROVE  Verified(m) <=> VerifiedIn(m, objects)
<1>1. m.batches \in Seq(Object) /\ Len(m.batches) \in Nat /\ (m.batches = << >> <=> Len(m.batches) = 0)
    BY EmptySeq, LenProperties DEF Manifest
<1>2. \A i \in 1..Len(m.batches) : (i - 1 = 0 <=> i = 1)
    OBVIOUS
<1> QED
    BY <1>1, <1>2 DEF Verified, VerifiedIn

\* Prefixes are ordered, and appending makes a longer history.
LEMMA ExtendsOrder ==
    ASSUME NEW s \in History, NEW t \in History, NEW u \in History
    PROVE  /\ Extends(s, s)
           /\ Extends(<< >>, s)
           /\ Extends(s, t) /\ Extends(t, u) => Extends(s, u)
<1>1. Len(s) \in Nat /\ Len(t) \in Nat /\ Len(u) \in Nat
    BY LenProperties DEF History
<1>2. Extends(s, s)
    BY <1>1 DEF Extends
<1>3. Extends(<< >>, s)
    BY <1>1, EmptySeq DEF Extends
<1>4. ASSUME Extends(s, t), Extends(t, u) PROVE Extends(s, u)
    <2>1. Len(s) <= Len(u)
        BY <1>1, <1>4 DEF Extends
    <2>2. ASSUME NEW i \in 1..Len(s) PROVE s[i] = u[i]
        <3>1. i \in 1..Len(t)
            BY <1>1, <1>4 DEF Extends
        <3> QED
            BY <1>4, <3>1 DEF Extends
    <2> QED
        BY <2>1, <2>2 DEF Extends
<1> QED
    BY <1>2, <1>3, <1>4

\* A prefix of a history is one of what extends it.
LEMMA UpToExtends ==
    ASSUME NEW h \in History, NEW t \in History, Extends(t, h), NEW k \in 0..Len(t)
    PROVE  Extends(UpTo(h, k), t)
<1>1. Len(h) \in Nat /\ Len(t) \in Nat /\ Len(t) <= Len(h) /\ \A i \in 1..Len(t) : t[i] = h[i]
    BY LenProperties DEF History, Extends
<1>2. Len(UpTo(h, k)) = k /\ \A i \in 1..k : UpTo(h, k)[i] = h[i]
    BY <1>1, UpToPrefix
<1> QED
    BY <1>1, <1>2 DEF Extends

\* The store only grows, and what is verified stays so.
LEMMA VerifiedGrows ==
    ASSUME NEW m, NEW O, NEW P, O \subseteq P, VerifiedIn(m, O)
    PROVE  VerifiedIn(m, P)
BY DEF VerifiedIn

\* A call stays honest while its database, the store and the remote history grow.
LEMMA HonestGrows ==
    ASSUME NEW c \in Call, NEW h \in History, NEW k \in History, Extends(h, k),
           NEW O, NEW P, O \subseteq P, NEW m \in Manifest, NEW n \in Manifest,
           Extends(m.head, n.head), Honest(c, h, O, m)
    PROVE  Honest(c, k, P, n)
<1>1. /\ c.local \in History /\ c.next.head \in History /\ c.remote.head \in History
      /\ m.head \in History /\ n.head \in History
    BY DEF Call, Manifest
<1>2. Extends(c.local, k)
    BY <1>1, ExtendsOrder DEF Honest
<1>3. c.pc = "decide" /\ Committed(c.remote) => VerifiedIn(c.remote, P) /\ Extends(c.remote.head, n.head)
    BY <1>1, ExtendsOrder, VerifiedGrows DEF Honest
<1>4. c.pc = "put" => VerifiedIn(c.next, P \cup {New(c.next)})
    <2>1. O \cup {New(c.next)} \subseteq P \cup {New(c.next)}
        OBVIOUS
    <2> QED
        BY <2>1, VerifiedGrows DEF Honest
<1>5. c.pc = "publish" => VerifiedIn(c.next, P)
    BY VerifiedGrows DEF Honest
<1>6. c.pc = "done" => Extends(c.next.head, n.head)
    BY <1>1, ExtendsOrder DEF Honest
<1> QED
    BY <1>2, <1>3, <1>4, <1>5, <1>6 DEF Honest

\* A call that has ended or is tried again promises nothing.
LEMMA AgainHonest ==
    ASSUME NEW e, NEW h \in History, NEW O, NEW m
    PROVE  Honest(NoCall, h, O, m) /\ Honest(Again(e), h, O, m)
<1>1. NoCall.local = << >> /\ NoCall.pc = "idle" /\ Again(e).local = << >> /\ Again(e).pc \in {"idle", "retry"}
    BY DEF NoCall, Again
<1>2. Extends(<< >>, h)
    BY ExtendsOrder
<1> QED
    BY <1>1, <1>2 DEF Honest

\* One engine moves to an honest call; everything grows around the others.
LEMMA WholeStep ==
    ASSUME Inv, Inv', Whole, NEW e \in Engine, NEW c, SetCall(e, c),
           \A f \in Engine : Extends(journal[f], journal'[f]),
           objects \subseteq objects', Extends(manifest.head, manifest'.head),
           Committed(manifest') => VerifiedIn(manifest', objects'),
           Honest(c, journal'[e], objects', manifest')
    PROVE  Whole'
<1>1. /\ call \in [Engine -> Call] /\ manifest \in Manifest /\ manifest' \in Manifest
      /\ \A f \in Engine : journal[f] \in History /\ journal'[f] \in History
    BY DEF Inv, TypeOK
<1>2. ASSUME NEW f \in Engine PROVE Honest(call'[f], journal'[f], objects', manifest')
    <2>1. CASE f = e
        BY <1>1, <2>1 DEF SetCall
    <2>2. CASE f # e
        <3>1. call'[f] = call[f] /\ call[f] \in Call /\ Honest(call[f], journal[f], objects, manifest)
            BY <1>1, <2>2 DEF SetCall, Whole
        <3> QED
            BY <1>1, <3>1, HonestGrows
    <2> QED
        BY <2>1, <2>2
<1> QED
    BY <1>2 DEF Whole

\* Where the databases and the manifest stay.
LEMMA StillStep ==
    ASSUME Inv, Inv', Whole, NEW e \in Engine, NEW c, SetCall(e, c),
           journal' = journal, manifest' = manifest, objects \subseteq objects',
           Honest(c, journal[e], objects', manifest)
    PROVE  Whole'
<1>1. /\ \A f \in Engine : Extends(journal[f], journal'[f])
      /\ Extends(manifest.head, manifest'.head)
    BY ExtendsOrder DEF Inv, TypeOK, Manifest
<1>2. Committed(manifest') => VerifiedIn(manifest', objects')
    BY VerifiedGrows DEF Whole
<1> QED
    BY <1>1, <1>2, WholeStep

\* An upload of the snapshot of what was observed.
LEMMA CheckpointHonest ==
    ASSUME Inv, Whole, NEW e \in Engine
    PROVE  Honest(Checkpoint(e), journal[e], objects, manifest)
<1> DEFINE c == Upload(e, CheckpointManifest(call[e].local))
<1>1. /\ call[e] \in Call /\ journal[e] \in History /\ call[e].local \in History
      /\ Extends(call[e].local, journal[e])
    BY CallFacts DEF Call, Whole, Honest
<1>2. /\ c.pc = "put" /\ c.local = call[e].local /\ c.next.head = call[e].local
      /\ c.next.batches = << >> /\ c.next.snapshot = Snapshot(call[e].local)
    BY <1>1 DEF Upload, CheckpointManifest, Call
<1>3. Snapshot(call[e].local).to = call[e].local /\ New(c.next) = c.next.snapshot /\ Len(<< >>) = 0
    BY <1>2 DEF Snapshot, New
<1>4. VerifiedIn(c.next, objects \cup {New(c.next)})
    BY <1>2, <1>3 DEF VerifiedIn
<1>5. Extends(c.next.head, c.local)
    BY <1>1, <1>2, ExtendsOrder
<1>6. Honest(c, journal[e], objects, manifest)
    BY <1>1, <1>2, <1>4, <1>5 DEF Honest
<1> QED
    BY <1>1, <1>6, AgainHonest DEF Checkpoint

\* An upload of the segment that continues the remote head.
LEMMA NextSegmentHonest ==
    ASSUME Inv, Whole, NEW e \in Engine, call[e].pc = "decide", Committed(call[e].remote),
           Len(call[e].remote.head) < Len(call[e].local)
    PROVE  Honest(NextSegment(e), journal[e], objects, manifest)
<1> DEFINE r == call[e].remote
           k == Len(r.head) + SegmentLimit(e)
           from == UpTo(journal[e], Len(r.head))
           to == UpTo(journal[e], k)
           m == [r EXCEPT !.head = to, !.batches = Append(@, Segment(from, to))]
           c == Upload(e, m)
<1>1. /\ call[e] \in Call /\ r \in Manifest /\ r.head \in History /\ r.batches \in Seq(Object)
      /\ journal[e] \in History /\ call[e].local \in History
      /\ Extends(call[e].local, journal[e]) /\ VerifiedIn(r, objects)
    BY CallFacts DEF Call, Manifest, Whole, Honest
<1>2. k \in 0..Len(call[e].local)
    <2>1. Len(r.head) \in Nat /\ Len(call[e].local) \in Nat
        BY <1>1 DEF History
    <2> DEFINE room == Len(call[e].local) - Len(r.head)
    <2>2. room \in Nat /\ Len(r.head) + room = Len(call[e].local)
        BY <2>1
    <2>3. SegmentLimit(e) = IF EventLimit < room THEN EventLimit ELSE room
        BY DEF SegmentLimit
    <2> HIDE DEF room
    <2>4. SegmentLimit(e) \in Nat /\ SegmentLimit(e) <= room
        BY <2>2, <2>3, LimitsAssumption
    <2>5. \A n, l, t \in Nat : l <= t => n + l \in 0..(n + t)
        OBVIOUS
    <2>6. Len(r.head) + SegmentLimit(e) \in 0..(Len(r.head) + room)
        BY <2>1, <2>2, <2>4, <2>5
    <2> QED
        BY <2>2, <2>6, Zenon
<1>3. Extends(to, call[e].local)
    BY <1>1, <1>2, UpToExtends
<1>4. CASE from = r.head
    <2> DEFINE g == Segment(from, to)
               b == r.batches
    <2>1. g.from = r.head /\ g.to = to
        BY <1>4 DEF Segment
    <2>2. /\ m.head = to /\ m.batches = Append(b, g) /\ m.snapshot = r.snapshot
          /\ c.pc = "put" /\ c.local = call[e].local
          /\ c.next.head = to /\ c.next.batches = Append(b, g) /\ c.next.snapshot = r.snapshot
        BY <1>1 DEF Upload, Call, Manifest
    <2> HIDE DEF g, b, m
    <2>0. b \in Seq(Object) /\ g \in Object
        <3>1. from \in History /\ to \in History
            <4>1. Len(call[e].local) <= Len(journal[e]) /\ Len(r.head) \in 0..Len(call[e].local)
                  /\ Len(call[e].local) \in Nat /\ Len(journal[e]) \in Nat
                BY <1>1, LenProperties DEF Extends, History
            <4> QED
                BY <1>1, <1>2, <4>1, UpToPrefix
        <3> QED
            BY <1>1, <3>1 DEF Segment, Object, g, b
    <2>3. /\ Len(Append(b, g)) = Len(b) + 1 /\ Len(b) \in Nat
          /\ \A i \in 1..Len(b) : Append(b, g)[i] = b[i]
          /\ Append(b, g)[Len(b) + 1] = g
        <3>1. \A s \in Seq(Object), x \in Object :
                /\ Len(Append(s, x)) = Len(s) + 1 /\ Len(s) \in Nat
                /\ \A i \in 1..Len(s) : Append(s, x)[i] = s[i]
                /\ Append(s, x)[Len(s) + 1] = x
            BY AppendProperties, LenProperties
        <3> QED
            BY <2>0, <3>1, Zenon
    <2>4. Append(b, g) # << >> /\ New(c.next) = g
        <3>1. Len(<< >>) = 0 /\ \A n \in Nat : n + 1 # 0
            BY EmptySeq
        <3>2. Append(b, g) # << >>
            BY <2>3, <3>1, Zenon
        <3>3. Append(b, g)[Len(Append(b, g))] = g
            BY <2>3, Zenon
        <3> QED
            BY <2>2, <3>2, <3>3, Zenon DEF New
    <2>5. /\ r.snapshot \in objects
          /\ \A i \in 1..Len(b) : /\ b[i] \in objects
                                  /\ b[i].from = IF i = 1 THEN r.snapshot.to ELSE b[i - 1].to
          /\ r.head = IF b = << >> THEN r.snapshot.to ELSE b[Len(b)].to
        BY <1>1 DEF VerifiedIn, b
    <2>6. b = << >> <=> Len(b) = 0
        BY <2>0, EmptySeq
    <2>7. VerifiedIn(c.next, objects \cup {New(c.next)})
        <3>1. ASSUME NEW i \in 1..(Len(b) + 1)
              PROVE  /\ Append(b, g)[i] \in objects \cup {g}
                     /\ Append(b, g)[i].from = IF i = 1 THEN r.snapshot.to ELSE Append(b, g)[i - 1].to
            <4>1. CASE i <= Len(b)
                <5>1. i \in 1..Len(b) /\ (i # 1 => i - 1 \in 1..Len(b))
                    BY <2>3, <4>1
                <5> QED
                    BY <2>3, <2>5, <5>1
            <4>2. CASE i = Len(b) + 1
                <5>1. i - 1 = Len(b) /\ (i # 1 => Len(b) \in 1..Len(b)) /\ (i = 1 <=> Len(b) = 0)
                    BY <2>3, <4>2
                <5> QED
                    BY <2>1, <2>3, <2>5, <2>6, <4>2, <5>1
            <4> QED
                BY <2>3, <4>1, <4>2
        <3>2. Append(b, g)[Len(Append(b, g))].to = to
            BY <2>1, <2>3
        <3> QED
            BY <2>2, <2>3, <2>4, <2>5, <3>1, <3>2 DEF VerifiedIn
    <2>8. Honest(c, journal[e], objects, manifest)
        BY <1>1, <1>3, <2>2, <2>7 DEF Honest
    <2>9. NextSegment(e) = c
        BY <1>4 DEF NextSegment, m
    <2> QED
        BY <2>8, <2>9
<1>5. CASE from # r.head
    BY <1>1, <1>5, AgainHonest DEF NextSegment
<1> QED
    BY <1>4, <1>5

\* A receipt tells what is in the manifest and was observed.
LEMMA ReceiptHonest ==
    ASSUME Inv, Whole, NEW e \in Engine, NEW m, NEW n, NEW O,
           Extends(m.head, call[e].local), Extends(m.head, n.head)
    PROVE  Honest(Receipt(e, m), journal[e], O, n)
<1>1. /\ Receipt(e, m).pc = "done" /\ Receipt(e, m).local = call[e].local /\ Receipt(e, m).next = m
    BY DEF Receipt, NoCall
<1> QED
    BY <1>1 DEF Honest, Whole

\* A publication puts a whole manifest in place of the one it continues.
LEMMA SwapWhole ==
    ASSUME Inv, Inv', Whole, NEW e \in Engine, call[e].pc = "publish", Swaps(e),
           manifest' = call[e].next, journal' = journal, objects' = objects,
           NEW c, SetCall(e, c), Honest(c, journal[e], objects, call[e].next)
    PROVE  Whole'
<1>1. Extends(manifest.head, manifest'.head)
    BY CallFacts DEF Swaps, Sound
<1>2. VerifiedIn(manifest', objects')
    BY DEF Whole, Honest
<1>3. \A f \in Engine : Extends(journal[f], journal'[f])
    BY ExtendsOrder DEF Inv, TypeOK
<1> QED
    BY <1>1, <1>2, <1>3, WholeStep

\* Every step of replicateEnvironmentMemory keeps what is published whole.
LEMMA ReplicateWhole == ASSUME Inv, Inv', Whole, NEW e \in Engine, Replicate(e) PROVE Whole'
<1>0. /\ call[e] \in Call /\ journal[e] \in History /\ manifest \in Manifest /\ objects \subseteq objects
      /\ call[e].local \in History /\ call[e].remote \in Manifest /\ call[e].next \in Manifest
      /\ manifest.head \in History /\ call[e].next.head \in History /\ call[e].remote.head \in History
      /\ Honest(call[e], journal[e], objects, manifest)
    BY CallFacts DEF Inv, TypeOK, Call, Manifest, Whole
<1>1. CASE Observe(e)
    <2> DEFINE c == [NoCall EXCEPT !.pc = "read", !.local = journal[e], !.attempt = call[e].attempt + 1]
    <2>1. c.pc = "read" /\ c.local = journal[e]
        BY DEF NoCall
    <2>2. Honest(c, journal[e], objects, manifest)
        BY <1>0, <2>1, ExtendsOrder DEF Honest
    <2> HIDE DEF c
    <2>3. SetCall(e, c) /\ journal' = journal /\ manifest' = manifest /\ objects' = objects
        BY <1>1 DEF Observe, Local, c
    <2> QED
        BY <2>2, <2>3, StillStep
<1>2. CASE ReadManifest(e)
    <2> DEFINE c == [call[e] EXCEPT !.pc = "decide", !.remote = manifest]
    <2>1. c.pc = "decide" /\ c.local = call[e].local /\ c.remote = manifest
        BY <1>0 DEF Call
    <2>2. Honest(c, journal[e], objects, manifest)
        BY <1>0, <2>1, ExtendsOrder DEF Honest, Whole
    <2> HIDE DEF c
    <2>3. /\ SetCall(e, c) \/ SetCall(e, NoCall)
          /\ journal' = journal /\ manifest' = manifest /\ objects' = objects
        BY <1>2 DEF ReadManifest, Local, c
    <2> QED
        BY <1>0, <2>2, <2>3, AgainHonest, StillStep
<1>3. CASE Decide(e)
    <2>1. journal' = journal /\ manifest' = manifest /\ objects' = objects /\ call[e].pc = "decide"
        BY <1>3 DEF Decide, Local
    <2>2. CASE SetCall(e, Checkpoint(e))
        BY <2>1, <2>2, CheckpointHonest, StillStep
    <2>3. CASE Committed(call[e].remote) /\ call[e].remote.head = call[e].local /\ SetCall(e, Receipt(e, call[e].remote))
        <3>1. Extends(call[e].remote.head, call[e].local) /\ Extends(call[e].remote.head, manifest.head)
            BY <1>0, <2>1, <2>3, ExtendsOrder DEF Honest
        <3> QED
            BY <2>1, <2>3, <3>1, ReceiptHonest, StillStep
    <2>4. CASE SetCall(e, Again(e))
        BY <1>0, <2>1, <2>4, AgainHonest, StillStep
    <2>5. CASE /\ Committed(call[e].remote) /\ Len(call[e].remote.head) < Len(call[e].local)
               /\ SetCall(e, NextSegment(e))
        BY <2>1, <2>5, NextSegmentHonest, StillStep
    <2> QED
        BY <1>3, <2>2, <2>3, <2>4, <2>5 DEF Decide
<1>4. Uploaded(e) = objects \cup {New(call[e].next)}
    BY DEF Uploaded, New
<1>5. CASE Put(e)
    <2> DEFINE c == [call[e] EXCEPT !.pc = "publish"]
    <2>1. c.pc = "publish" /\ c.local = call[e].local /\ c.next = call[e].next
        BY <1>0 DEF Call
    <2>2. Honest(c, journal[e], objects', manifest)
        BY <1>0, <1>4, <1>5, <2>1 DEF Honest, Put
    <2> HIDE DEF c
    <2>3. SetCall(e, c) /\ journal' = journal /\ manifest' = manifest /\ objects \subseteq objects'
        BY <1>4, <1>5 DEF Put, Local, c
    <2> QED
        BY <2>2, <2>3, StillStep
<1>6. CASE Publish(e)
    <2>1. journal' = journal /\ objects' = objects /\ call[e].pc = "publish"
        BY <1>6 DEF Publish, Local
    <2>2. CASE Swaps(e)
        <3>1. Honest(Receipt(e, call[e].next), journal[e], objects, call[e].next)
            <4>1. Extends(call[e].next.head, call[e].local) /\ Extends(call[e].next.head, call[e].next.head)
                BY <1>0, <2>1, ExtendsOrder DEF Honest
            <4> QED
                BY <4>1, ReceiptHonest
        <3>2. manifest' = call[e].next /\ SetCall(e, Receipt(e, call[e].next))
            BY <1>6, <2>2 DEF Publish
        <3> QED
            BY <2>1, <2>2, <3>1, <3>2, SwapWhole
    <2>3. CASE ~Swaps(e)
        BY <1>0, <1>6, <2>1, <2>3, AgainHonest, StillStep DEF Publish
    <2> QED
        BY <2>2, <2>3
<1>7. CASE Unavailable(e)
    <2>1. journal' = journal /\ SetCall(e, Again(e))
        BY <1>7 DEF Unavailable, Local
    <2>2. CASE manifest' = manifest /\ objects \subseteq objects'
        BY <1>0, <2>1, <2>2, AgainHonest, StillStep
    <2>3. CASE call[e].pc = "publish" /\ Swaps(e) /\ manifest' = call[e].next /\ objects' = objects
        BY <1>0, <2>1, <2>3, AgainHonest, SwapWhole
    <2> QED
        BY <1>4, <1>7, <2>2, <2>3 DEF Unavailable
<1>8. CASE Stop(e)
    BY <1>0, <1>8, AgainHonest, StillStep DEF Stop, Local
<1> QED
    BY <1>1, <1>2, <1>3, <1>5, <1>6, <1>7, <1>8 DEF Replicate

\* A database only grows or is filled, and no manifest changes.
LEMMA LocalWhole ==
    ASSUME Inv, Inv', Whole, NEW e \in Engine, AppendEvent(e) \/ Restore(e)
    PROVE  Whole'
<1>0. /\ call \in [Engine -> Call] /\ journal \in [Engine -> History] /\ manifest \in Manifest
      /\ journal' \in [Engine -> History] /\ objects' = objects /\ manifest' = manifest
    BY DEF Inv, TypeOK, AppendEvent, Restore, StartRestore, Load, RestoreFile
<1>1. CASE StartRestore(e)
    <2> DEFINE c == [NoCall EXCEPT !.pc = "load", !.remote = manifest]
    <2>1. c.pc = "load" /\ c.local = << >>
        BY DEF NoCall
    <2>2. Honest(c, journal[e], objects, manifest)
        BY <1>0, <2>1, ExtendsOrder DEF Honest
    <2> HIDE DEF c
    <2>3. SetCall(e, c) /\ journal' = journal
        BY <1>1 DEF StartRestore, Local, c
    <2> QED
        BY <1>0, <2>2, <2>3, StillStep
<1>2. CASE AppendEvent(e) \/ Load(e) \/ RestoreFile(e)
    <2>1. /\ \A f \in Engine \ {e} : journal'[f] = journal[f]
          /\ call' = call \/ SetCall(e, NoCall)
        BY <1>0, <1>2 DEF AppendEvent, Load, RestoreFile, Local
    <2>2. Extends(journal[e], journal'[e])
        <3>1. CASE AppendEvent(e)
            <4>1. PICK x \in Event : journal'[e] = Append(journal[e], x)
                BY <1>0, <3>1 DEF AppendEvent
            <4>2. /\ Len(Append(journal[e], x)) = Len(journal[e]) + 1 /\ Len(journal[e]) \in Nat
                  /\ \A i \in 1..Len(journal[e]) : Append(journal[e], x)[i] = journal[e][i]
                BY <1>0, AppendProperties, LenProperties DEF History
            <4> QED
                BY <4>1, <4>2 DEF Extends
        <3>2. CASE journal[e] = << >> \/ journal'[e] = journal[e]
            BY <1>0, <3>2, ExtendsOrder
        <3> QED
            BY <1>2, <3>1, <3>2 DEF Load, RestoreFile, Local
    <2>3. \A f \in Engine : Extends(journal[f], journal'[f])
        BY <1>0, <2>1, <2>2, ExtendsOrder
    <2>4. Extends(manifest.head, manifest'.head)
        BY <1>0, ExtendsOrder DEF Manifest
    <2>5. CASE SetCall(e, NoCall)
        <3>1. Honest(NoCall, journal'[e], objects', manifest')
            BY <1>0, AgainHonest
        <3> QED
            BY <1>0, <2>3, <2>4, <2>5, <3>1, WholeStep DEF Whole
    <2>6. CASE call' = call
        <3>1. ASSUME NEW f \in Engine PROVE Honest(call[f], journal'[f], objects, manifest)
            BY <1>0, <2>3, <2>4, HonestGrows DEF Whole
        <3> QED
            BY <1>0, <2>6, <3>1 DEF Whole
    <2> QED
        BY <2>1, <2>5, <2>6
<1> QED
    BY <1>1, <1>2 DEF Restore

\* Whoever reads the store finds a manifest whose objects are there and lead to its head,
\* and a receipt of replicateEnvironmentMemory tells what is in the remote and was in the
\* database: for any number of writers, and wherever they stop or a request fails.
THEOREM PublishedIsTrue == Spec => []ReplicationTrue
<1>1. Init => Whole
    <2> SUFFICES ASSUME Init PROVE Whole
        OBVIOUS
    <2>1. << >> \in History /\ ~Committed(manifest)
        BY Records DEF Init, NoManifest, Committed
    <2> QED
        BY <2>1, AgainHonest DEF Init, Whole
<1>2. Inv /\ Inv' /\ Whole /\ [Next]_vars => Whole'
    <2> SUFFICES ASSUME Inv, Inv', Whole, [Next]_vars PROVE Whole'
        OBVIOUS
    <2>1. CASE Next
        BY <2>1, ReplicateWhole, LocalWhole DEF Next
    <2>2. CASE UNCHANGED vars
        BY <2>2 DEF vars, Whole, Honest, VerifiedIn, Committed, Extends, New
    <2> QED
        BY <2>1, <2>2
<1>3. Inv /\ Whole => ReplicationTrue
    <2> SUFFICES ASSUME Inv, Whole PROVE ReplicationTrue
        OBVIOUS
    <2>1. ManifestWhole
        BY VerifiedHere DEF Inv, TypeOK, Whole, ManifestWhole
    <2>2. ReceiptsHonest
        BY DEF Whole, Honest, ReceiptsHonest
    <2> QED
        BY <2>1, <2>2 DEF ReplicationTrue
<1> QED
    BY SpecInv, <1>1, <1>2, <1>3, PTL DEF Spec
=============================================================================
