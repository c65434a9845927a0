--------------------------- MODULE CircuitBreaker ---------------------------
(***************************************************************************)
(* One circuit (tenant and circuit key) of the persisted circuit breaker   *)
(* (runtime/workflow/circuit_breaker.py) as WorkflowRuntime.execute_node    *)
(* uses it around a model call.                                            *)
(*                                                                         *)
(* Every caller works inside the transaction of a workflow run.  A SELECT  *)
(* ... FOR UPDATE keeps the circuit row locked until that transaction ends,*)
(* so an ordinary call holds the row while the model answers; only a probe *)
(* commits, to let others in.  What the holder wrote since is seen by the  *)
(* holder alone, and is lost when its transaction rolls back.              *)
(*                                                                         *)
(* Two kinds of callers exist: a synchronous run commits the failure of its*)
(* execution, and the circuit row with it; a durable frontier rolls its    *)
(* transaction back before it compensates.                                 *)
(*                                                                         *)
(* opened_at is kept as the ticks since; half_opened_at matters only as the*)
(* identity of a recovery window, so any value that no probe still carries *)
(* will do.                                                                *)
(***************************************************************************)
EXTENDS Integers, FiniteSets

CONSTANTS
    Callers,     \* workflow runs that call nodes guarded by this circuit
    Durable,     \* those that run in a durable frontier; the others are synchronous
    Windows,     \* half_opened_at values
    NoWindow,    \* half_opened_at IS NULL, or no probe token
    NoOne,       \* nobody holds the row lock
    Threshold,   \* failure_threshold
    Recovery,    \* recovery_timeout_ms, in ticks
    MaxProbes,   \* half_open_max_calls
    MaxLag,      \* bound: ticks a statement waits for the row, its `now` taken before
    Faults       \* which of {"uncounted", "abort"} the environment does

ASSUME PolicyAssumption == /\ Threshold \in Nat \ {0}
                           /\ Recovery \in Nat \ {0}
                           /\ MaxProbes \in Nat \ {0}
                           /\ MaxLag \in Nat
ASSUME CallerAssumption == /\ IsFiniteSet(Callers)
                           /\ Durable \subseteq Callers
                           /\ NoOne \notin Callers
                           /\ NoWindow \notin Windows

VARIABLES
    row,     \* the committed workflow_circuit_states row
    work,    \* the row as the lock's holder sees it
    lock,    \* whose transaction holds the row
    pc,      \* where each caller is
    token,   \* the probe each caller carries (its ContextVar)
    streak,  \* history: failures committed since the last committed success
    recent,  \* history: the same count as the lock's holder sees it
    spoiled  \* history: a probe of the last window ended otherwise than in success

vars == <<row, work, lock, pc, token, streak, recent, spoiled>>

-----------------------------------------------------------------------------
States == {"absent", "closed", "open", "half_open"}

\* success_count is named for what it counts: the probes in flight.
Rows == [state : States, failures : 0..Threshold, inflight : 0..MaxProbes,
         age : 0..(Recovery + MaxLag), window : Windows \cup {NoWindow}]

\* "ok", "failed": the transaction goes on after a call;  "rejected": it cannot.
Phases == {"idle", "insert", "call", "ok", "failed", "rejected"}

AbsentRow == [state |-> "absent", failures |-> 0, inflight |-> 0, age |-> 0, window |-> NoWindow]
NewState == [AbsentRow EXCEPT !.state = "closed"]

Free(c) == lock \in {NoOne, c}

\* The holder's changes become visible and the row is released.
Commit(new) ==
    /\ row' = new /\ work' = new /\ lock' = NoOne
    /\ streak' = recent /\ UNCHANGED recent

\* The holder writes; nobody else sees it yet.
Write(c, new) == work' = new /\ lock' = c /\ UNCHANGED <<row, streak>>

\* The transaction of c ends without its writes.
Rollback(c) ==
    /\ work' = IF lock = c THEN row ELSE work
    /\ recent' = IF lock = c THEN streak ELSE recent
    /\ lock' = IF lock = c THEN NoOne ELSE lock
    /\ UNCHANGED <<row, streak>>

-----------------------------------------------------------------------------
(* before_call *)

\* A caller makes its first call, its next one, or retries a failed one.
MayCall(c) == pc[c] \in {"idle", "ok", "failed"} /\ Free(c)

GoTo(c, phase) == pc' = [pc EXCEPT ![c] = phase]
Carry(c, w) == token' = [token EXCEPT ![c] = w]

\* No row to lock: the INSERT comes after, and waits for a concurrent one.
FindNoRow(c) ==
    /\ pc[c] \in {"idle", "ok", "failed"}
    /\ lock # c
    /\ row.state = "absent"
    /\ GoTo(c, "insert")
    /\ Carry(c, NoWindow)
    /\ UNCHANGED <<row, work, lock, streak, recent, spoiled>>

Insert(c) ==
    /\ pc[c] = "insert"
    /\ Free(c)
    /\ IF work.state = "absent"
       THEN Write(c, NewState) /\ GoTo(c, "call") /\ UNCHANGED recent
       ELSE Rollback(c) /\ GoTo(c, "idle")
    /\ UNCHANGED <<token, spoiled>>

\* A closed circuit: call, and keep the row locked.
CallClosed(c) ==
    /\ MayCall(c)
    /\ work.state = "closed"
    /\ Write(c, work)
    /\ GoTo(c, "call")
    /\ Carry(c, NoWindow)
    /\ UNCHANGED <<recent, spoiled>>

\* A window no probe in flight belongs to.
FreshWindow(w) == w # work.window /\ w # row.window /\ \A d \in Callers : token[d] # w

HalfOpened(w) == [work EXCEPT !.state = "half_open", !.inflight = 1, !.age = 0, !.window = w]

Recovered(lag) == work.age - lag >= Recovery

\* An open circuit that recovered: the first probe opens a window and commits.
ProbeFirst(c) ==
    /\ MayCall(c)
    /\ work.state = "open"
    /\ \E lag \in 0..MaxLag : Recovered(lag)
    /\ \E w \in Windows : FreshWindow(w) /\ Commit(HalfOpened(w)) /\ Carry(c, w)
    /\ GoTo(c, "call")
    /\ spoiled' = FALSE

QuotaLeft == work.inflight < MaxProbes

\* A further probe of the same window reserves its slot and commits.
ProbeMore(c) ==
    /\ MayCall(c)
    /\ work.state = "half_open"
    /\ QuotaLeft
    /\ Commit([work EXCEPT !.inflight = @ + 1])
    /\ Carry(c, work.window)
    /\ GoTo(c, "call")
    /\ UNCHANGED spoiled

\* CircuitOpenError; the row stays locked until the transaction ends.
Rejected(c) ==
    /\ MayCall(c)
    /\ \/ work.state = "open" /\ \E lag \in 0..MaxLag : ~Recovered(lag)
       \/ work.state = "half_open" /\ ~QuotaLeft
    /\ Write(c, work)
    /\ GoTo(c, "rejected")
    /\ Carry(c, NoWindow)
    /\ UNCHANGED <<recent, spoiled>>

-----------------------------------------------------------------------------
(* The model call returns. *)

\* Mutant: a probe is not asked which window it belongs to.
ProbeMatches_AnyWindow(c) == TRUE

ProbeMatches(c) == token[c] = NoWindow \/ token[c] = work.window

\* Mutants: the first success closes the circuit; the last one is missed by one.
AfterSuccess_First(c) ==
    IF \/ work.state = "half_open" /\ ProbeMatches(c)
       \/ work.state = "closed" /\ token[c] = NoWindow
    THEN NewState ELSE work
AfterSuccess_Late(c) ==
    IF work.state = "half_open" /\ ProbeMatches(c)
    THEN IF work.inflight = 0 THEN NewState ELSE [work EXCEPT !.inflight = @ - 1]
    ELSE work

AfterSuccess(c) ==
    IF work.state = "half_open" /\ ProbeMatches(c)
    THEN IF work.inflight <= 1 THEN NewState ELSE [work EXCEPT !.inflight = @ - 1]
    ELSE IF work.state = "closed" /\ token[c] = NoWindow
    THEN [work EXCEPT !.failures = 0]
    ELSE work

RecordSuccess(c) ==
    /\ pc[c] = "call"
    /\ Free(c)
    /\ Write(c, AfterSuccess(c))
    /\ GoTo(c, "ok")
    /\ Carry(c, NoWindow)
    /\ recent' = 0
    /\ UNCHANGED spoiled

\* The window remembers a probe that did not succeed.
Spoil(c) == spoiled' = (spoiled \/ token[c] \in {row.window} \ {NoWindow})

\* Mutant: the threshold is missed by one.
Opens_Late == work.state = "half_open" \/ work.failures >= Threshold

\* The failure opens the circuit.
Opens == work.state = "half_open" \/ work.failures + 1 >= Threshold

AfterFailure(c, lag) ==
    IF work.state = "half_open" /\ ~ProbeMatches(c) THEN work
    ELSE IF Opens
    THEN [state |-> "open", failures |-> Threshold, inflight |-> 0, age |-> lag, window |-> NoWindow]
    ELSE [work EXCEPT !.state = "closed", !.failures = @ + 1, !.inflight = 0]

\* A failure that counts; a failed probe becomes a CircuitOpenError.
RecordFailure(c) ==
    /\ pc[c] = "call"
    /\ Free(c)
    /\ \E lag \in 0..MaxLag : Write(c, AfterFailure(c, lag))
    /\ GoTo(c, IF token[c] # NoWindow THEN "rejected" ELSE "failed")
    /\ Carry(c, NoWindow)
    /\ recent' = IF recent < Threshold THEN recent + 1 ELSE recent
    /\ Spoil(c)

\* The node times out (a cancellation passes `except Exception`) or fails with a
\* code the breaker does not count: nothing is recorded.
CallUncounted(c) ==
    /\ "uncounted" \in Faults
    /\ pc[c] = "call"
    /\ GoTo(c, "failed")
    /\ Carry(c, NoWindow)
    /\ Spoil(c)
    /\ UNCHANGED <<row, work, lock, streak, recent>>

-----------------------------------------------------------------------------
(* The caller's transaction ends. *)

CommitsAtEnd(c) == pc[c] = "ok" \/ c \notin Durable

End(c) ==
    /\ pc[c] \in {"ok", "failed", "rejected"}
    /\ IF lock = c /\ CommitsAtEnd(c) THEN Commit(work) ELSE Rollback(c)
    /\ GoTo(c, "idle")
    /\ UNCHANGED <<token, spoiled>>

\* The run's task is lost: a crash, a lost lease, a client that went away.
Abort(c) ==
    /\ "abort" \in Faults
    /\ pc[c] # "idle"
    /\ Rollback(c)
    /\ GoTo(c, "idle")
    /\ Carry(c, NoWindow)
    /\ Spoil(c)

Older(r) == IF r.state = "open" /\ r.age < Recovery + MaxLag THEN [r EXCEPT !.age = @ + 1] ELSE r

Tick ==
    /\ row' = Older(row)
    /\ work' = Older(work)
    /\ UNCHANGED <<lock, pc, token, streak, recent, spoiled>>

-----------------------------------------------------------------------------
Init ==
    /\ row = AbsentRow
    /\ work = AbsentRow
    /\ lock = NoOne
    /\ pc = [c \in Callers |-> "idle"]
    /\ token = [c \in Callers |-> NoWindow]
    /\ streak = 0
    /\ recent = 0
    /\ spoiled = FALSE

BeforeCall(c) == \/ FindNoRow(c) \/ Insert(c) \/ CallClosed(c)
                 \/ ProbeFirst(c) \/ ProbeMore(c) \/ Rejected(c)

Returns(c) == RecordSuccess(c) \/ RecordFailure(c) \/ CallUncounted(c)

Next == \/ \E c \in Callers : BeforeCall(c) \/ Returns(c) \/ End(c) \/ Abort(c)
        \/ Tick

Spec == Init /\ [][Next]_vars

\* Model calls have timeouts, so each ends, whether it reports or not; the database
\* serves whoever waits for a row; a run has finitely many nodes and attempts, so
\* its transaction ends.  Nobody has to make another call.
Fairness == \A c \in Callers : SF_vars(Returns(c)) /\ SF_vars(End(c))

FairSpec == Spec /\ Fairness

-----------------------------------------------------------------------------
(* Type invariant. *)
TypeOK ==
    /\ row \in Rows
    /\ work \in Rows
    /\ lock \in Callers \cup {NoOne}
    /\ pc \in [Callers -> Phases]
    /\ token \in [Callers -> Windows \cup {NoWindow}]
    /\ streak \in 0..Threshold
    /\ recent \in 0..Threshold
    /\ spoiled \in BOOLEAN

-----------------------------------------------------------------------------
(* Properties. *)

ProbesOf(r) == {c \in Callers : token[c] = r.window}

(* While the circuit is half open, every probe of the window that is still  *)
(* in flight holds one of its slots, and no more slots exist than allowed:  *)
(* commits, rollbacks and lost callers never hand out a slot twice.         *)
ProbesAccounted ==
    row.state = "half_open" => Cardinality(ProbesOf(row)) <= row.inflight

(* The circuit closes only when every probe its window admitted has         *)
(* succeeded: none failed or was lost, even if its failure was rolled back, *)
(* and none is still in flight.                                             *)
AllProbesSucceedBeforeClosing ==
    [][row.state = "half_open" /\ row'.state = "closed" =>
          ~spoiled /\ \A c \in Callers : token'[c] # row.window]_vars

(* A probe that outlived its window and then succeeds changes nothing: it   *)
(* neither closes a newer window nor clears the failures counted since.     *)
StaleSuccessIsIgnored ==
    [][\A c \in Callers :
          pc[c] = "call" /\ pc'[c] = "ok" /\ token[c] \notin {NoWindow, work.window}
             => work' = work]_vars

(* A circuit is not closed after Threshold failures in a row, whoever made  *)
(* the calls: synchronous runs and durable frontiers, lost runs and probes  *)
(* of old windows in between.  Only a failure whose record was rolled back  *)
(* with its transaction is not part of the row.                             *)
FailuresOpenTheCircuit == streak = Threshold => row.state # "closed"

Probing(w) == row.state = "half_open" /\ row.window = w

\* A slot of the window is taken by nobody any more: its probe timed out, was lost,
\* or reported in a transaction that was rolled back.
SlotLost ==
    row.state = "half_open" /\ lock = NoOne /\ Cardinality(ProbesOf(row)) < row.inflight

\* Further probes join windows again and again.
ProbesKeepComing == []<><<\E c \in Callers : ProbeMore(c)>>_vars

(* Every recovery window is decided by its probes, in whatever order they   *)
(* report, unless a probe of it never reports, or new probes overlap the    *)
(* reporting ones for ever: only the last one in flight closes the circuit. *)
HalfOpenEnds ==
    \A w \in Windows : ProbesKeepComing \/ (Probing(w) ~> ~Probing(w) \/ SlotLost)
=============================================================================
