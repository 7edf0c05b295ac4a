------------------------------ MODULE RunCards ------------------------------
(***************************************************************************)
(* The cards of a run (src/run-cards.ts): each attempt of a call of        *)
(* alg_run or alg_resume is shown by the host as a part of the parent's    *)
(* message, after the save that started or ended it.  The updates of one   *)
(* card are sent one after the other, those of different cards in any      *)
(* order.  A file, the sidecar of the run, lists the cards that are shown  *)
(* as running, so that the next call can close what a dead process left.   *)
(* A second call of the run is refused its lease, but only after it has    *)
(* taken up the sidecar.                                                   *)
(***************************************************************************)
EXTENDS Naturals, Sequences, FiniteSets

CONSTANTS Caller, Attempt,
          MaxCards,   \* MAX_RUN_CARDS
          MaxFaults   \* bound: updates the host refuses, files that cannot be written

VARIABLES
    attempt,   \* the saved attempts of the run
    call,
    chain,     \* the updates of each card that a call has sent and nobody has heard
    sidecar, host,
    lost,      \* ghost: cards that refused updates or a death took from the call that kept them
    faults

vars == <<attempt, call, chain, sidecar, host, lost, faults>>

\* A card is of the call that made it: two calls may have one for the same attempt.
CardOf == Caller \X Attempt
NewCall == [pc |-> "idle", leased |-> FALSE, base |-> {}, failures |-> 0, disabled |-> FALSE,
            card |-> [a \in Attempt |-> "none"]]

Init ==
    /\ attempt = [a \in Attempt |-> "none"] /\ call = [c \in Caller |-> NewCall]
    /\ chain = [c \in Caller |-> [k \in CardOf |-> << >>]]
    /\ sidecar = {} /\ host = [k \in CardOf |-> "none"] /\ lost = {} /\ faults = 0

Started == {a \in Attempt : attempt[a] # "none"}
Running(c, l) == {<<c, a>> : a \in {b \in Attempt : l.card[b] = "running"}}
Open(c) == call[c].pc \in {"open", "settling"}
Keeps(d) == {k \in {d} \X Attempt : call[d].card[k[2]] # "none" /\ (Open(d) \/ chain[d][k] # << >>)}
Fault == faults < MaxFaults /\ faults' = faults + 1

\* writeSidecar of a call that keeps l: its own running cards, whatever the file listed before.
Kept(c, l) == IF l.disabled THEN {} ELSE Running(c, l)
Taken(c, l) == (sidecar \ Kept(c, l)) \cap UNION {Keeps(d) : d \in Caller \ {c}}
Write(c, l) ==
    \/ sidecar' = Kept(c, l) /\ lost' = lost \cup Taken(c, l) /\ UNCHANGED faults
    \/ Fault /\ UNCHANGED sidecar /\ lost' = lost \cup Taken(c, l) \cup Running(c, l)
Send(c, update) == chain' = [chain EXCEPT ![c] =
    [k \in CardOf |-> IF k \in DOMAIN update THEN Append(@[k], update[k]) ELSE @[k]]]

\* prime: what the run has already is of earlier calls; what they left running is closed.
Prime(c) ==
    /\ call[c].pc = "idle"
    /\ call' = [call EXCEPT ![c].pc = "open", ![c].base = Started]
    /\ Send(c, [k \in sidecar |-> "error"])
    /\ IF sidecar = {} THEN UNCHANGED <<sidecar, lost, faults>> ELSE Write(c, NewCall)
    /\ UNCHANGED <<attempt, host>>

\* executeRun; a resumed run has closed the attempts that a dead call left.
Lease(c) ==
    /\ call[c].pc = "open" /\ \A d \in Caller : ~call[d].leased
    /\ call' = [call EXCEPT ![c].leased = TRUE]
    /\ attempt' = [a \in Attempt |-> IF attempt[a] = "running" THEN "failed" ELSE attempt[a]]
    /\ UNCHANGED <<chain, sidecar, host, lost, faults>>

Card(status) == CASE status = "done" -> "completed"
                  [] status = "failed" -> "error"
                  [] OTHER -> status
\* observe: an attempt of this call gets a card while there is room; a card that has ended stays.
Observed(c, saved) == {a \in Attempt \ call[c].base :
    /\ saved[a] # "none" /\ call[c].card[a] \in {"none", "running"}
    /\ call[c].card[a] # Card(saved[a])
    /\ call[c].card[a] = "none" =>
          Cardinality({b \in Attempt : call[c].card[b] # "none"}) < MaxCards}
Observe(c, saved) ==
    LET seen == IF call[c].disabled \/ call[c].pc # "open" THEN {} ELSE Observed(c, saved)
        l == [call[c] EXCEPT !.card = [a \in Attempt |-> IF a \in seen THEN Card(saved[a]) ELSE @[a]]]
    IN  /\ call' = [call EXCEPT ![c] = l]
        /\ Send(c, [k \in {c} \X seen |-> Card(saved[k[2]])])
        /\ IF seen = {} THEN UNCHANGED <<sidecar, lost, faults>> ELSE Write(c, l)

\* A save of the call that has the lease.
Save(c) ==
    /\ call[c].leased
    /\ \E a \in Attempt, status \in {"running", "done", "failed"} :
       /\ attempt[a] = (IF status = "running" THEN "none" ELSE "running")
       /\ attempt' = [attempt EXCEPT ![a] = status] /\ Observe(c, attempt')
    /\ UNCHANGED host

\* settle: what still runs is closed; the host is waited for, but not long.
Settle(c) ==
    /\ call[c].pc = "open"
    /\ LET open == Kept(c, call[c]) IN
       /\ call' = [call EXCEPT ![c].pc = "settling", ![c].leased = FALSE,
              ![c].card = [a \in Attempt |-> IF <<c, a>> \in open THEN "error" ELSE @[a]]]
       /\ Send(c, [k \in open |-> "error"])
    /\ UNCHANGED <<attempt, sidecar, host, lost, faults>>
Settled(c) ==
    /\ call[c].pc = "settling" /\ call' = [call EXCEPT ![c].pc = "done"]
    /\ Write(c, call[c]) /\ UNCHANGED <<attempt, chain, host>>

\* Mutant: every update is sent at once.
AnyTurn(updates) == 1..Len(updates)
Turn(updates) == {i \in 1..Len(updates) : i = 1}
Without(s, i) == SubSeq(s, 1, i - 1) \o SubSeq(s, i + 1, Len(s))
\* The host hears of a card, or refuses; after two refusals the rest is dropped, but for what
\* is on its way already.
Hears(c, k, i) == host' = [host EXCEPT ![k] = chain[c][k][i]]
Deliver(c, k) == \E i \in Turn(chain[c][k]) :
    /\ chain' = [chain EXCEPT ![c][k] = Without(@, i)]
    /\ \/ Hears(c, k, i) /\ call' = [call EXCEPT ![c].failures = 0] /\ UNCHANGED <<lost, faults>>
       \/ /\ call[c].disabled /\ UNCHANGED <<call, host, lost, faults>>
       \/ /\ ~call[c].disabled /\ Fault /\ (Hears(c, k, i) \/ UNCHANGED host)
          /\ LET off == call[c].failures = 1 IN
             /\ call' = [call EXCEPT ![c].failures = @ + 1, ![c].disabled = off]
             /\ lost' = lost \cup {k} \cup
                   (IF off THEN Running(c, call[c]) \cup {m \in CardOf : chain[c][m] # << >>} ELSE {})
    /\ UNCHANGED <<attempt, sidecar>>

\* Processes die: an update that was not heard never is; and a card that ran is not in the sidecar
\* any more when another call, which has it open, writes its own.
Ended(s) == {i \in 1..Len(s) : s[i] # "running"}
Crash == \E gone \in SUBSET {c \in Caller : call[c].pc # "idle"} :
    /\ gone # {}
    /\ call' = [c \in Caller |-> IF c \in gone THEN [NewCall EXCEPT !.pc = "done"] ELSE call[c]]
    /\ lost' = lost \cup {k \in CardOf :
           \/ \E c \in gone : Ended(chain[c][k]) # {}
           \/ /\ k[1] \in gone /\ call[k[1]].card[k[2]] = "running"
              /\ \E c \in Caller \ gone : Open(c)}
    /\ chain' = [c \in Caller |-> IF c \in gone THEN [k \in CardOf |-> << >>] ELSE chain[c]]
    /\ UNCHANGED <<attempt, sidecar, host, faults>>

Next ==
    \/ \E c \in Caller : \/ Prime(c) \/ Lease(c) \/ Save(c) \/ Settle(c) \/ Settled(c)
                       \/ \E k \in CardOf : Deliver(c, k)
    \/ Crash
Spec == Init /\ [][Next]_vars

-----------------------------------------------------------------------------
\* docs/live-run-visibility.md:38, "Cards still shown as running when the call ends are closed",
\* and a later call closes what a crashed process left: a card that is shown as running is in
\* the sidecar, or its end is on its way, unless an update of it was refused, its end died with
\* the process, or a call that ran beside took its place in the sidecar.
CardsClosed == \A k \in CardOf \ lost : host[k] = "running" =>
    k \in sidecar \/ \E c \in Caller : Ended(chain[c][k]) # {}
\* A card follows the saved attempt: it says completed only of an attempt that was saved as
\* done, and a card that has ended is never shown as running again.
CardsFollow == \A k \in CardOf :
    /\ host'[k] = "completed" => attempt'[k[2]] = "done"
    /\ k \notin lost' /\ host[k] \in {"completed", "error"} => host'[k] # "running"
=============================================================================
