----------------------- MODULE CircuitBreaker_proofs -----------------------
(***************************************************************************)
(* Proofs about CircuitBreaker for any number of callers, any policy and   *)
(* any mix of synchronous and durable callers, lost and uncounted calls.   *)
(*                                                                         *)
(* The argument: the committed row and the lock holder's view of it agree  *)
(* on the recovery window; a caller that is no probe holds the row from its*)
(* call on; so a window's slots count its probes in flight, and one more   *)
(* for a probe that was lost or failed, which keeps the circuit from       *)
(* closing.                                                                *)
(***************************************************************************)
EXTENDS CircuitBreaker, FiniteSetTheorems, TLAPS

-----------------------------------------------------------------------------
(* Counting probes. *)

Tokens == [Callers -> Windows \cup {NoWindow}]

\* How many of the tokens t are of window w.
InFlight(t, w) == Cardinality({c \in Callers : t[c] = w})

(* The probes of a window are counted by a natural number, 0 if there are none. *)
LEMMA CountType ==
    ASSUME NEW t, NEW w
    PROVE  /\ IsFiniteSet({c \in Callers : t[c] = w})
           /\ InFlight(t, w) \in Nat
           /\ InFlight(t, w) = 0 <=> \A c \in Callers : t[c] # w
<1>. DEFINE S == {c \in Callers : t[c] = w}
<1>1. IsFiniteSet(S)
  BY CallerAssumption, FS_Subset
<1>2. Cardinality(S) \in Nat /\ (Cardinality(S) = 0 <=> S = {})
  BY <1>1, FS_CardinalityType, FS_EmptySet
<1>. QED  BY <1>1, <1>2 DEF InFlight

(* A probe that reports back, or is lost, leaves its own window only.       *)
LEMMA DropProbe ==
    ASSUME NEW t \in Tokens, NEW c \in Callers, NEW w \in Windows
    PROVE  InFlight([t EXCEPT ![c] = NoWindow], w)
             = IF t[c] = w THEN InFlight(t, w) - 1 ELSE InFlight(t, w)
<1>. DEFINE S == {d \in Callers : t[d] = w}
            u == [t EXCEPT ![c] = NoWindow]
            T == {d \in Callers : u[d] = w}
<1>1. T = S \ {c}
  BY CallerAssumption DEF Tokens
<1>2. IsFiniteSet(S)
  BY CallerAssumption, FS_Subset
<1>3. Cardinality(S \ {c}) = IF c \in S THEN Cardinality(S) - 1 ELSE Cardinality(S)
  BY <1>2, FS_RemoveElement
<1>. QED  BY <1>1, <1>3 DEF InFlight

(* A new probe is one more of its window.                                   *)
LEMMA AddProbe ==
    ASSUME NEW t \in Tokens, NEW c \in Callers, NEW w \in Windows, t[c] # w
    PROVE  InFlight([t EXCEPT ![c] = w], w) = InFlight(t, w) + 1
<1>. DEFINE S == {d \in Callers : t[d] = w}
            u == [t EXCEPT ![c] = w]
            T == {d \in Callers : u[d] = w}
<1>1. T = S \cup {c}
  BY DEF Tokens
<1>2. IsFiniteSet(S) /\ c \notin S
  BY CountType
<1>3. Cardinality(S \cup {c}) = Cardinality(S) + 1
  BY <1>2, FS_AddElement
<1>. QED  BY <1>1, <1>3 DEF InFlight

-----------------------------------------------------------------------------
(* The inductive invariant. *)

\* A row has a window exactly while it is half open; an open one is at the threshold.
WellFormed(r) == /\ r.state = "half_open" <=> r.window \in Windows
                 /\ r.state = "open" => r.failures = Threshold

\* Slots cover the probes in flight, and the spoiled one.
SlotsCover(r) ==
    r.state = "half_open" => /\ InFlight(token, r.window) <= r.inflight
                             /\ spoiled => InFlight(token, r.window) < r.inflight

\* What the lock's holder may have made of the committed row.
ViewsAgree ==
    /\ lock = NoOne => work = row
    /\ work.state = "absent" => row.state = "absent"
    /\ work.state = "half_open" => row.state = "half_open" /\ work.window = row.window

\* A probe is a caller in its call; any other caller in its call holds a closed row.
CallersAgree ==
    \A c \in Callers :
        /\ token[c] # NoWindow => pc[c] = "call"
        /\ pc[c] = "call" /\ token[c] = NoWindow => lock = c /\ work.state = "closed"

\* A closing that is not committed yet.
ClosingIsClean ==
    row.state = "half_open" /\ work.state = "closed" =>
        ~spoiled /\ InFlight(token, row.window) = 0

ProbeInv ==
    /\ TypeOK
    /\ WellFormed(row) /\ WellFormed(work)
    /\ SlotsCover(row) /\ SlotsCover(work)
    /\ ViewsAgree
    /\ CallersAgree
    /\ ClosingIsClean

-----------------------------------------------------------------------------
(* Types. *)

(* Every step keeps the types: one case per action.                         *)
LEMMA TypeStep == TypeOK /\ [Next]_vars => TypeOK'
<1>. SUFFICES ASSUME TypeOK, [Next]_vars PROVE TypeOK'
  OBVIOUS
<1>. USE PolicyAssumption, CallerAssumption DEF TypeOK
<1>. USE DEF Phases, GoTo, Carry
<1>0. AbsentRow \in Rows /\ NewState \in Rows
  BY DEF AbsentRow, NewState, Rows, States
<1>1. ASSUME NEW c \in Callers, FindNoRow(c) PROVE TypeOK'
  BY <1>1 DEF FindNoRow
<1>2. ASSUME NEW c \in Callers, Insert(c) PROVE TypeOK'
  BY <1>0, <1>2 DEF Insert, Write, Rollback
<1>3. ASSUME NEW c \in Callers, CallClosed(c) PROVE TypeOK'
  BY <1>3 DEF CallClosed, Write
<1>4. ASSUME NEW c \in Callers, ProbeFirst(c) PROVE TypeOK'
  <2>1. \A w \in Windows : HalfOpened(w) \in Rows
    <3>1. 0 \in 0..(Recovery + MaxLag) /\ 1 \in 0..MaxProbes
      OBVIOUS
    <3>. QED  BY <3>1 DEF HalfOpened, Rows, States
  <2>. QED  BY <1>4, <2>1 DEF ProbeFirst, Commit
<1>5. ASSUME NEW c \in Callers, ProbeMore(c) PROVE TypeOK'
  <2>1. [work EXCEPT !.inflight = @ + 1] \in Rows /\ work.window \in Windows \cup {NoWindow}
    BY <1>5 DEF ProbeMore, QuotaLeft, Rows
  <2>. QED  BY <1>5, <2>1 DEF ProbeMore, Commit
<1>6. ASSUME NEW c \in Callers, Rejected(c) PROVE TypeOK'
  BY <1>6 DEF Rejected, Write
<1>7. ASSUME NEW c \in Callers, RecordSuccess(c) PROVE TypeOK'
  <2>1. AfterSuccess(c) \in Rows
    BY <1>0 DEF AfterSuccess, Rows
  <2>. QED  BY <1>7, <2>1 DEF RecordSuccess, Write
<1>8. ASSUME NEW c \in Callers, RecordFailure(c) PROVE TypeOK'
  <2>1. ASSUME NEW lag \in 0..MaxLag PROVE AfterFailure(c, lag) \in Rows
    <3>1. CASE Opens
      <4>1. lag \in 0..(Recovery + MaxLag) /\ 0 \in 0..MaxProbes /\ Threshold \in 0..Threshold
        OBVIOUS
      <4>. QED  BY <3>1, <4>1 DEF AfterFailure, Rows, States
    <3>2. CASE ~Opens
      <4>1. work.failures + 1 \in 0..Threshold /\ 0 \in 0..MaxProbes
        BY <3>2 DEF Opens, Rows
      <4>. QED  BY <3>2, <4>1 DEF AfterFailure, Rows, States
    <3>. QED  BY <3>1, <3>2
  <2>2. recent' \in 0..Threshold /\ spoiled' \in BOOLEAN
    BY <1>8 DEF RecordFailure, Spoil
  <2>. QED  BY <1>8, <2>1, <2>2 DEF RecordFailure, Write
<1>9. ASSUME NEW c \in Callers, CallUncounted(c) PROVE TypeOK'
  BY <1>9 DEF CallUncounted, Spoil
<1>10. ASSUME NEW c \in Callers, End(c) PROVE TypeOK'
  BY <1>10 DEF End, Commit, Rollback
<1>11. ASSUME NEW c \in Callers, Abort(c) PROVE TypeOK'
  BY <1>11 DEF Abort, Rollback, Spoil
<1>12. CASE Tick
  <2>1. \A r \in Rows : Older(r) \in Rows
    BY DEF Older, Rows
  <2>. QED  BY <1>12, <2>1 DEF Tick
<1>13. CASE UNCHANGED vars
  BY <1>13 DEF vars
<1>. QED
  BY <1>1, <1>2, <1>3, <1>4, <1>5, <1>6, <1>7, <1>8, <1>9, <1>10, <1>11, <1>12, <1>13
     DEF Next, BeforeCall, Returns

(* Initially every variable has its type.                                   *)
LEMMA TypeInit == Init => TypeOK
<1>1. AbsentRow \in Rows /\ 0 \in 0..Threshold
  BY PolicyAssumption DEF AbsentRow, Rows, States
<1>. QED  BY <1>1 DEF Init, TypeOK, Phases

(* TypeOK: rows, tokens and phases keep their types under any policy.       *)
THEOREM TypeCorrect == Spec => []TypeOK
BY TypeInit, TypeStep, PTL DEF Spec

-----------------------------------------------------------------------------
(* The invariant is inductive. *)

(* Initially nothing is in flight.                                          *)
LEMMA ProbeInvInit == Init => ProbeInv
BY TypeInit, PolicyAssumption, CallerAssumption
   DEF Init, ProbeInv, WellFormed, SlotsCover, ViewsAgree, CallersAgree, ClosingIsClean, AbsentRow

(* Every step keeps it: one case per action, and under it the conjuncts that *)
(* the action can disturb.                                                  *)
LEMMA ProbeInvStep == ProbeInv /\ [Next]_vars => ProbeInv'
<1>. SUFFICES ASSUME ProbeInv, [Next]_vars, TypeOK' PROVE ProbeInv'
  BY TypeStep DEF ProbeInv
<1>. DEFINE Others(c) == [token EXCEPT ![c] = NoWindow]
<1>. USE PolicyAssumption, CallerAssumption
<1>. USE DEF ProbeInv, TypeOK, WellFormed, SlotsCover, ViewsAgree, CallersAgree, ClosingIsClean,
             GoTo, Carry, Free
<1>0. token \in Tokens /\ row \in Rows /\ work \in Rows
  BY DEF Tokens
<1>a. \A w : InFlight(token, w) \in Nat
  BY CountType
<1>b. \A c \in Callers, w \in Windows :
         InFlight(Others(c), w) = IF token[c] = w THEN InFlight(token, w) - 1 ELSE InFlight(token, w)
  BY <1>0, DropProbe
<1>c. \A c \in Callers : token[c] = NoWindow => Others(c) = token
  BY <1>0 DEF Tokens
<1>e. \A c \in Callers : \A w : InFlight(Others(c), w) \in Nat
  BY CountType
<1>d. ASSUME NEW c \in Callers, token' = Others(c), Spoil(c), row' = row
      PROVE  /\ SlotsCover(row)'
             /\ work.state = "half_open" /\ work' = work => SlotsCover(work)'
             /\ row.state = "half_open" /\ work.state = "closed" =>
                    ~spoiled' /\ InFlight(token', row.window) = 0
  <2>1. spoiled' <=> spoiled \/ (token[c] = row.window /\ token[c] # NoWindow)
    BY <1>0, <1>d DEF Spoil, Rows
  <2>2. row.state = "half_open" =>
            InFlight(token', row.window) = IF token[c] = row.window
                                           THEN InFlight(token, row.window) - 1
                                           ELSE InFlight(token, row.window)
    BY <1>b, <1>d
  <2>3. row.inflight \in Int /\ work.inflight \in Int
    BY <1>0 DEF Rows
  <2>a. InFlight(token, row.window) \in Nat
    BY <1>a
  <2>b. InFlight(token', row.window) \in Nat
    BY <1>e, <1>d
  <2>4. SlotsCover(row)'
    BY <1>d, <2>1, <2>2, <2>3, <2>a, <2>b
  <2>5. work.state = "half_open" /\ work' = work => SlotsCover(work)'
    BY <1>d, <2>1, <2>2, <2>3, <2>a, <2>b
  <2>6. row.state = "half_open" /\ work.state = "closed" =>
            ~spoiled' /\ InFlight(token', row.window) = 0
    BY <2>1, <2>2, <2>3, <2>a, <2>b
  <2>. QED  BY <2>4, <2>5, <2>6
<1>1. ASSUME NEW c \in Callers, FindNoRow(c) PROVE ProbeInv'
  <2>1. token' = token
    BY <1>1, <1>c DEF FindNoRow
  <2>. QED  BY <1>1, <2>1 DEF FindNoRow
<1>2. ASSUME NEW c \in Callers, Insert(c) PROVE ProbeInv'
  BY <1>2 DEF Insert, Write, Rollback, NewState, AbsentRow
<1>3. ASSUME NEW c \in Callers, CallClosed(c) PROVE ProbeInv'
  <2>1. token' = token
    BY <1>3, <1>c DEF CallClosed, MayCall
  <2>2. /\ work.state = "closed" /\ UNCHANGED <<row, work, spoiled>>
        /\ lock \in {NoOne, c} /\ lock' = c /\ pc' = [pc EXCEPT ![c] = "call"] /\ token[c] = NoWindow
    BY <1>3 DEF CallClosed, Write, MayCall
  <2>3. CallersAgree' /\ ViewsAgree'
    BY <2>1, <2>2
  <2>4. SlotsCover(row)' /\ SlotsCover(work)' /\ ClosingIsClean' /\ WellFormed(row)' /\ WellFormed(work)'
    BY <2>1, <2>2
  <2>. QED  BY <2>3, <2>4
<1>4. ASSUME NEW c \in Callers, ProbeFirst(c) PROVE ProbeInv'
  <2>1. PICK w \in Windows : FreshWindow(w) /\ Commit(HalfOpened(w)) /\ Carry(c, w)
    BY <1>4 DEF ProbeFirst
  <2>2. InFlight(token', w) = 1
    <3>1. InFlight(token, w) = 0
      <4>1. \A d \in Callers : token[d] # w
        BY <2>1 DEF FreshWindow
      <4>. QED  BY <4>1, CountType
    <3>2. token' = [token EXCEPT ![c] = w] /\ token[c] # w
      BY <2>1 DEF FreshWindow
    <3>3. InFlight([token EXCEPT ![c] = w], w) = InFlight(token, w) + 1
      BY <1>0, <3>2, AddProbe
    <3>. QED  BY <3>1, <3>2, <3>3
  <2>3. /\ row' = work' /\ lock' = NoOne /\ row'.state = "half_open" /\ row'.window = w
        /\ row'.inflight = 1
    BY <1>0, <2>1 DEF Commit, HalfOpened, Rows
  <2>4. /\ spoiled' = FALSE /\ token' = [token EXCEPT ![c] = w] /\ pc' = [pc EXCEPT ![c] = "call"]
        /\ lock \in {NoOne, c} /\ work.state = "open"
    BY <1>4, <2>1 DEF ProbeFirst, MayCall
  <2>5. CallersAgree'
    BY <2>3, <2>4
  <2>6. SlotsCover(row)' /\ SlotsCover(work)' /\ ClosingIsClean'
    BY <2>2, <2>3, <2>4
  <2>7. WellFormed(row)' /\ WellFormed(work)' /\ ViewsAgree'
    BY <2>3
  <2>. QED  BY <2>5, <2>6, <2>7
<1>5. ASSUME NEW c \in Callers, ProbeMore(c) PROVE ProbeInv'
  <2>1. token[c] = NoWindow /\ work.window \in Windows
    BY <1>5 DEF ProbeMore, MayCall
  <2>2. InFlight(token', work.window) = InFlight(token, work.window) + 1
    <3>1. token' = [token EXCEPT ![c] = work.window] /\ token[c] # work.window
      BY <1>5, <2>1 DEF ProbeMore
    <3>2. \A w \in Windows : token[c] # w => InFlight([token EXCEPT ![c] = w], w) = InFlight(token, w) + 1
      BY <1>0, AddProbe
    <3>. QED  BY <2>1, <3>1, <3>2
  <2>3. /\ row' = work' /\ lock' = NoOne /\ row'.state = "half_open" /\ row'.window = work.window
        /\ row'.inflight = work.inflight + 1 /\ work.inflight \in Int
    BY <1>0, <1>5 DEF ProbeMore, Commit, Rows
  <2>4. /\ spoiled' = spoiled /\ token' = [token EXCEPT ![c] = work.window]
        /\ pc' = [pc EXCEPT ![c] = "call"] /\ lock \in {NoOne, c} /\ work.state = "half_open"
    BY <1>5 DEF ProbeMore, MayCall
  <2>5. CallersAgree'
    BY <2>1, <2>3, <2>4
  <2>6. SlotsCover(row)' /\ SlotsCover(work)' /\ ClosingIsClean'
    <3>1. InFlight(token, work.window) \in Nat
      BY <1>a
    <3>. QED  BY <2>2, <2>3, <2>4, <3>1
  <2>7. WellFormed(row)' /\ WellFormed(work)' /\ ViewsAgree'
    BY <2>1, <2>3
  <2>. QED  BY <2>5, <2>6, <2>7
<1>6. ASSUME NEW c \in Callers, Rejected(c) PROVE ProbeInv'
  <2>1. token' = token
    BY <1>6, <1>c DEF Rejected, MayCall
  <2>. QED  BY <1>6, <2>1 DEF Rejected, Write, MayCall
<1>7. ASSUME NEW c \in Callers, RecordSuccess(c) PROVE ProbeInv'
  <2>1. /\ token' = Others(c) /\ work' = AfterSuccess(c) /\ lock' = c
        /\ pc' = [pc EXCEPT ![c] = "ok"] /\ row' = row /\ spoiled' = spoiled
        /\ lock \in {NoOne, c} /\ pc[c] = "call"
    BY <1>7 DEF RecordSuccess, Write
  <2>2. row.inflight \in Int /\ work.inflight \in Int
    BY <1>0 DEF Rows
  <2>a. InFlight(token, row.window) \in Nat /\ InFlight(token, work.window) \in Nat
    BY <1>a
  <2>b. InFlight(token', row.window) \in Nat /\ InFlight(token', work.window) \in Nat
    BY <1>e, <2>1
  <2>3. /\ row.state = "half_open" => InFlight(token', row.window) <= InFlight(token, row.window)
        /\ work.state = "half_open" => InFlight(token', work.window) <= InFlight(token, work.window)
    <3>1. \A w \in Windows : InFlight(Others(c), w) <= InFlight(token, w)
      <4>. TAKE w \in Windows
      <4>1. InFlight(token, w) \in Nat
        BY <1>a
      <4>2. InFlight(Others(c), w) = IF token[c] = w THEN InFlight(token, w) - 1
                                                     ELSE InFlight(token, w)
        BY <1>b
      <4>. QED  BY <4>1, <4>2
    <3>2. InFlight(token', row.window) = InFlight(Others(c), row.window)
          /\ InFlight(token', work.window) = InFlight(Others(c), work.window)
      BY <2>1
    <3>. QED  BY <3>1, <3>2
  <2>4. SlotsCover(row)'
    BY <2>1, <2>2, <2>3, <2>a, <2>b
  <2>5. CASE work.state = "half_open" /\ ProbeMatches(c)
    <3>1. token[c] = work.window /\ work.window \in Windows
      BY <2>1, <2>5 DEF ProbeMatches
    <3>2. InFlight(token', work.window) = InFlight(token, work.window) - 1
      BY <1>b, <2>1, <3>1
    <3>3. CASE work.inflight <= 1
      <4>1. InFlight(token', work.window) = 0 /\ ~spoiled
        BY <2>2, <2>5, <2>a, <2>b, <3>2, <3>3
      <4>2. work' = NewState
        BY <2>1, <2>5, <3>3 DEF AfterSuccess
      <4>. QED  BY <2>1, <2>4, <2>5, <4>1, <4>2 DEF NewState, AbsentRow
    <3>4. CASE ~(work.inflight <= 1)
      <4>1. work' = [work EXCEPT !.inflight = @ - 1]
        BY <2>1, <2>5, <3>4 DEF AfterSuccess
      <4>2. work'.state = "half_open" /\ work'.window = work.window
            /\ work'.inflight = work.inflight - 1
        BY <1>0, <2>5, <4>1 DEF Rows
      <4>3. SlotsCover(work)'
        BY <2>1, <2>2, <2>5, <2>a, <2>b, <3>2, <4>2
      <4>. QED  BY <2>1, <2>4, <2>5, <4>2, <4>3
    <3>. QED  BY <3>3, <3>4
  <2>6. CASE ~(work.state = "half_open" /\ ProbeMatches(c))
    <3>1. /\ work'.state = work.state /\ work'.window = work.window
          /\ work'.inflight = work.inflight
          /\ work'.state = "open" => work'.failures = work.failures
      BY <1>0, <2>1, <2>6 DEF AfterSuccess, Rows
    <3>2. SlotsCover(work)'
      BY <2>1, <2>2, <2>3, <2>a, <2>b, <3>1
    <3>3. ClosingIsClean'
      BY <2>1, <2>2, <2>3, <2>a, <2>b, <3>1
    <3>. QED  BY <2>1, <2>4, <3>1, <3>2, <3>3
  <2>. QED  BY <2>5, <2>6
<1>8. ASSUME NEW c \in Callers, RecordFailure(c) PROVE ProbeInv'
  <2>1. PICK lag \in 0..MaxLag : Write(c, AfterFailure(c, lag))
    BY <1>8 DEF RecordFailure
  <2>2. /\ token' = Others(c) /\ work' = AfterFailure(c, lag) /\ lock' = c
        /\ \E phase \in {"rejected", "failed"} : pc' = [pc EXCEPT ![c] = phase]
        /\ row' = row /\ Spoil(c) /\ lock \in {NoOne, c} /\ pc[c] = "call"
    BY <1>8, <2>1 DEF RecordFailure, Write
  <2>3. SlotsCover(row)'
    BY <1>d, <2>2
  <2>4. CASE work.state = "half_open" /\ ~ProbeMatches(c)
    <3>1. work' = work
      BY <2>2, <2>4 DEF AfterFailure
    <3>. QED  BY <1>d, <2>2, <2>3, <2>4, <3>1
  <2>5. CASE ~(work.state = "half_open" /\ ~ProbeMatches(c)) /\ Opens
    <3>1. work'.state = "open" /\ work'.failures = Threshold /\ work'.window = NoWindow
      BY <2>2, <2>5 DEF AfterFailure
    <3>. QED  BY <2>2, <2>3, <3>1
  <2>6. CASE ~(work.state = "half_open" /\ ~ProbeMatches(c)) /\ ~Opens
    <3>1. work.state \in {"closed", "absent"}
      BY <1>0, <2>6 DEF Opens, Rows, States
    <3>2. work'.state = "closed" /\ work'.window = work.window
      BY <1>0, <2>2, <2>6 DEF AfterFailure, Rows
    <3>3. ClosingIsClean'
      BY <1>d, <2>2, <3>1, <3>2
    <3>. QED  BY <2>2, <2>3, <3>1, <3>2, <3>3
  <2>. QED  BY <2>4, <2>5, <2>6
<1>9. ASSUME NEW c \in Callers, CallUncounted(c) PROVE ProbeInv'
  <2>1. /\ token' = Others(c) /\ UNCHANGED <<row, work, lock>> /\ Spoil(c)
        /\ pc' = [pc EXCEPT ![c] = "failed"]
    BY <1>9 DEF CallUncounted
  <2>2. SlotsCover(row)' /\ SlotsCover(work)' /\ ClosingIsClean'
    BY <1>d, <2>1
  <2>. QED  BY <2>1, <2>2
<1>10. ASSUME NEW c \in Callers, End(c) PROVE ProbeInv'
  BY <1>10 DEF End, Commit, Rollback
<1>11. ASSUME NEW c \in Callers, Abort(c) PROVE ProbeInv'
  <2>1. /\ token' = Others(c) /\ row' = row /\ Spoil(c)
        /\ pc' = [pc EXCEPT ![c] = "idle"]
        /\ \/ work' = row /\ lock = c /\ lock' = NoOne
           \/ work' = work /\ lock # c /\ lock' = lock
    BY <1>11 DEF Abort, Rollback
  <2>2. SlotsCover(row)'
    BY <1>d, <2>1
  <2>3. SlotsCover(work)' /\ ClosingIsClean'
    BY <1>d, <2>1, <2>2
  <2>. QED  BY <2>1, <2>2, <2>3
<1>12. CASE Tick
  <2>1. \A r \in Rows : /\ Older(r).state = r.state /\ Older(r).window = r.window
                        /\ Older(r).inflight = r.inflight /\ Older(r).failures = r.failures
    BY DEF Older, Rows
  <2>. QED  BY <1>0, <1>12, <2>1 DEF Tick
<1>13. CASE UNCHANGED vars
  BY <1>13 DEF vars
<1>. QED
  BY <1>1, <1>2, <1>3, <1>4, <1>5, <1>6, <1>7, <1>8, <1>9, <1>10, <1>11, <1>12, <1>13
     DEF Next, BeforeCall, Returns

-----------------------------------------------------------------------------
(* What follows from it. *)

(* ProbeInv holds in every reachable state.                                 *)
THEOREM ProbeInvHolds == Spec => []ProbeInv
BY ProbeInvInit, ProbeInvStep, PTL DEF Spec

(* ProbesAccounted: a recovery window never has more probes in flight than  *)
(* slots taken, whatever commits, rolls back or is lost.                    *)
THEOREM SlotsCoverProbes == Spec => []ProbesAccounted
<1>1. ProbeInv => ProbesAccounted
  BY DEF ProbeInv, SlotsCover, ProbesAccounted, ProbesOf, InFlight
<1>. QED  BY <1>1, ProbeInvHolds, PTL

(* AllProbesSucceedBeforeClosing: a circuit is closed by a window all of     *)
(* whose probes came back and succeeded, and by nothing else.               *)
THEOREM ClosedByItsProbes == Spec => AllProbesSucceedBeforeClosing
<1>. DEFINE Closes == row.state = "half_open" /\ row'.state = "closed"
            Clean == ~spoiled /\ \A c \in Callers : token'[c] # row.window
<1>1. ASSUME ProbeInv, Next, Closes PROVE Clean
  <2>1. PICK c \in Callers : End(c) /\ lock = c /\ Commit(work)
    <3>1. \A r \in Rows : Older(r).state = r.state
      BY DEF Older, Rows
    <3>2. \A w \in Windows : HalfOpened(w).state # "closed"
      BY <1>1 DEF HalfOpened, ProbeInv, TypeOK, Rows
    <3>3. work.state = "half_open" => [work EXCEPT !.inflight = @ + 1].state = "half_open"
      BY <1>1 DEF ProbeInv, TypeOK, Rows
    <3>4. row \in Rows /\ row' # row
      BY <1>1 DEF ProbeInv, TypeOK
    <3>5. ~Tick
      BY <1>1, <3>1, <3>4 DEF Tick
    <3>6. \A d \in Callers : ~BeforeCall(d)
      BY <1>1, <3>2, <3>3, <3>4
         DEF BeforeCall, FindNoRow, Insert, CallClosed, ProbeFirst, ProbeMore, Rejected,
             Commit, Write, Rollback
    <3>7. \A d \in Callers : ~Returns(d) /\ ~Abort(d)
      BY <3>4 DEF Returns, RecordSuccess, RecordFailure, CallUncounted, Abort, Write, Rollback
    <3>. QED
      BY <1>1, <3>4, <3>5, <3>6, <3>7 DEF Next, End, Rollback
  <2>2. work.state = "closed" /\ token' = token
    BY <1>1, <2>1 DEF Commit, End
  <2>3. ~spoiled /\ InFlight(token, row.window) = 0
    BY <1>1, <2>2 DEF ProbeInv, ClosingIsClean
  <2>4. \A d \in Callers : token[d] # row.window
    BY <2>3, CountType
  <2>. QED  BY <2>2, <2>3, <2>4
<1>2. ProbeInv /\ [Next]_vars => [Closes => Clean]_vars
  BY <1>1
<1>. QED  BY <1>2, ProbeInvHolds, PTL DEF Spec, AllProbesSucceedBeforeClosing

(* StaleSuccessIsIgnored: a success that comes after its window was decided *)
(* changes neither the circuit nor its failure count.                       *)
THEOREM LateSuccessChangesNothing == Spec => StaleSuccessIsIgnored
<1>1. ASSUME TypeOK, Next, NEW c \in Callers, pc[c] = "call", pc'[c] = "ok",
             token[c] \notin {NoWindow, work.window}
      PROVE  work' = work
  <2>1. RecordSuccess(c)
    BY <1>1 DEF TypeOK, GoTo, Next, BeforeCall, Returns, FindNoRow, Insert, CallClosed, ProbeFirst,
                ProbeMore, Rejected, RecordSuccess, RecordFailure, CallUncounted, End, Abort, Tick
  <2>. QED  BY <1>1, <2>1 DEF RecordSuccess, Write, AfterSuccess, ProbeMatches
<1>2. TypeOK /\ [Next]_vars =>
        [\A c \in Callers :
           pc[c] = "call" /\ pc'[c] = "ok" /\ token[c] \notin {NoWindow, work.window}
              => work' = work]_vars
  BY <1>1
<1>. QED  BY <1>2, TypeCorrect, PTL DEF Spec, StaleSuccessIsIgnored
-----------------------------------------------------------------------------
(* Failures open the circuit.                                              *)

\* The failures a closed circuit has counted include the streak of failures, in the
\* committed row and in what the holder of the row made of it.
StreakInv ==
    /\ work.state = "closed" => recent <= work.failures /\ work.failures < Threshold
    /\ work.state = "absent" => recent = 0
    /\ row.state = "closed" => streak <= row.failures /\ row.failures < Threshold
    /\ row.state = "absent" => streak = 0 /\ \A c \in Callers : token[c] = NoWindow
    /\ lock = NoOne => streak = recent
    /\ \A c \in Callers : pc[c] = "insert" => lock # c

(* Every step keeps it: one case per action.                                *)
LEMMA StreakStep == ProbeInv /\ StreakInv /\ [Next]_vars => StreakInv'
<1>. SUFFICES ASSUME ProbeInv, StreakInv, [Next]_vars PROVE StreakInv'
  OBVIOUS
<1>0. /\ row \in Rows /\ work \in Rows /\ pc \in [Callers -> Phases] /\ token \in Tokens
      /\ streak \in Nat /\ recent \in Nat /\ Threshold \in Nat \ {0} /\ NoOne \notin Callers
  BY PolicyAssumption, CallerAssumption DEF ProbeInv, TypeOK, Tokens
<1>a. /\ work.state = "absent" => row.state = "absent"
      /\ work.state = "open" => work.failures = Threshold
      /\ \A c \in Callers : pc[c] = "call" /\ token[c] = NoWindow => work.state = "closed"
      /\ lock = NoOne => work = row
  BY DEF ProbeInv, ViewsAgree, WellFormed, CallersAgree
<1>b. \A c \in Callers : pc[c] = "call" => work.state # "absent"
  BY <1>a DEF StreakInv
\* The holder's view comes back from the committed row, or replaces it.
<1>c. ASSUME NEW c \in Callers, Rollback(c), pc' = [pc EXCEPT ![c] = "idle"],
             token' = token \/ token' = [token EXCEPT ![c] = NoWindow]
      PROVE  StreakInv'
  <2>1. /\ row' = row /\ streak' = streak
        /\ \/ lock = c /\ lock' = NoOne /\ work' = row /\ recent' = streak
           \/ lock # c /\ UNCHANGED <<lock, work, recent>>
    BY <1>c DEF Rollback
  <2>2. \A d \in Callers : /\ pc'[d] = "insert" => pc[d] = "insert"
                           /\ token[d] = NoWindow => token'[d] = NoWindow
    BY <1>0, <1>c DEF Tokens
  <2>. QED  BY <1>0, <2>1, <2>2 DEF StreakInv
<1>1. ASSUME NEW c \in Callers, FindNoRow(c) PROVE StreakInv'
  BY <1>0, <1>1 DEF FindNoRow, GoTo, Carry, StreakInv, Tokens
<1>2. ASSUME NEW c \in Callers, Insert(c) PROVE StreakInv'
  <2>1. /\ lock = NoOne
        /\ pc' = [pc EXCEPT ![c] = IF work.state = "absent" THEN "call" ELSE "idle"]
        /\ token' = token
    BY <1>2 DEF Insert, Free, GoTo, StreakInv
  <2>2. CASE work.state = "absent"
    <3>1. work' = NewState /\ lock' = c /\ UNCHANGED <<row, streak, recent>>
      BY <1>2, <2>2 DEF Insert, Write
    <3>2. NewState.state = "closed" /\ NewState.failures = 0
      BY DEF NewState, AbsentRow
    <3>. QED  BY <1>0, <2>1, <2>2, <3>1, <3>2 DEF StreakInv
  <2>3. CASE work.state # "absent"
    BY <1>2, <1>c, <2>1, <2>3 DEF Insert
  <2>. QED  BY <2>2, <2>3
<1>3. ASSUME NEW c \in Callers, CallClosed(c) \/ Rejected(c) PROVE StreakInv'
  <2>1. /\ UNCHANGED <<row, work, streak, recent>> /\ lock' = c
        /\ token' = [token EXCEPT ![c] = NoWindow]
        /\ \E phase \in {"call", "rejected"} : pc' = [pc EXCEPT ![c] = phase]
    BY <1>3 DEF CallClosed, Rejected, Write, GoTo, Carry
  <2>. QED  BY <1>0, <2>1 DEF StreakInv, Tokens
<1>4. ASSUME NEW c \in Callers, ProbeFirst(c) \/ ProbeMore(c) PROVE StreakInv'
  <2>1. /\ row'.state = "half_open" /\ work'.state = "half_open" /\ lock' = NoOne
        /\ pc' = [pc EXCEPT ![c] = "call"] /\ streak' = recent'
    BY <1>0, <1>4 DEF ProbeFirst, ProbeMore, Commit, HalfOpened, Rows, GoTo
  <2>. QED  BY <1>0, <2>1 DEF StreakInv
<1>5. ASSUME NEW c \in Callers, RecordSuccess(c) PROVE StreakInv'
  <2>1. /\ work' = AfterSuccess(c) /\ lock' = c /\ row' = row /\ streak' = streak /\ recent' = 0
        /\ pc' = [pc EXCEPT ![c] = "ok"] /\ token' = [token EXCEPT ![c] = NoWindow]
        /\ pc[c] = "call"
    BY <1>5 DEF RecordSuccess, Write, GoTo, Carry
  <2>2. work'.state = "closed" => 0 <= work'.failures /\ work'.failures < Threshold
    <3>1. CASE AfterSuccess(c) = work
      BY <1>0, <2>1, <3>1 DEF StreakInv, Rows
    <3>2. CASE AfterSuccess(c) = NewState
      BY <1>0, <2>1, <3>2 DEF NewState, AbsentRow
    <3>3. CASE AfterSuccess(c) = [work EXCEPT !.failures = 0]
      BY <1>0, <2>1, <3>3 DEF Rows
    <3>4. CASE /\ work.state = "half_open"
               /\ AfterSuccess(c) = [work EXCEPT !.inflight = @ - 1]
      BY <1>0, <2>1, <3>4 DEF Rows
    <3>. QED  BY <3>1, <3>2, <3>3, <3>4 DEF AfterSuccess
  <2>. QED  BY <1>0, <2>1, <2>2 DEF StreakInv, Tokens
<1>6. ASSUME NEW c \in Callers, RecordFailure(c) PROVE StreakInv'
  <2>1. PICK lag \in 0..MaxLag : work' = AfterFailure(c, lag)
    BY <1>6 DEF RecordFailure, Write
  <2>2. /\ lock' = c /\ row' = row /\ streak' = streak /\ pc[c] = "call"
        /\ \E phase \in {"rejected", "failed"} : pc' = [pc EXCEPT ![c] = phase]
        /\ token' = [token EXCEPT ![c] = NoWindow]
    BY <1>6 DEF RecordFailure, Write, GoTo, Carry
  <2>b. recent' \in Nat /\ recent' <= recent + 1
    <3>1. recent' = IF recent < Threshold THEN recent + 1 ELSE recent
      BY <1>6 DEF RecordFailure
    <3>. QED  BY <1>0, <3>1
  <2>3. work.state # "absent"
    BY <1>b, <2>2
  <2>4. CASE work.state = "half_open" /\ ~ProbeMatches(c)
    <3>1. work' = work
      BY <2>1, <2>4 DEF AfterFailure
    <3>. QED  BY <1>0, <2>2, <2>4, <3>1 DEF StreakInv, Tokens
  <2>5. CASE ~(work.state = "half_open" /\ ~ProbeMatches(c)) /\ Opens
    <3>1. work'.state = "open"
      BY <2>1, <2>5 DEF AfterFailure
    <3>. QED  BY <1>0, <2>2, <3>1 DEF StreakInv, Tokens
  <2>6. CASE ~(work.state = "half_open" /\ ~ProbeMatches(c)) /\ ~Opens
    <3>1. work.failures \in Nat
      BY <1>0, PolicyAssumption DEF Rows
    <3>2. work.state = "closed" /\ work.failures + 1 < Threshold
      BY <1>0, <1>a, <2>3, <2>6, <3>1 DEF Opens, Rows, States
    <3>3. work'.state = "closed" /\ work'.failures = work.failures + 1
      BY <1>0, <2>1, <2>6 DEF AfterFailure, Rows
    <3>4. recent <= work.failures
      BY <3>2 DEF StreakInv
    <3>5. recent' <= work'.failures /\ work'.failures < Threshold
      BY <1>0, <2>b, <3>1, <3>2, <3>3, <3>4
    <3>. QED  BY <1>0, <2>2, <3>3, <3>5 DEF StreakInv, Tokens
  <2>. QED  BY <2>4, <2>5, <2>6
<1>7. ASSUME NEW c \in Callers, CallUncounted(c) PROVE StreakInv'
  BY <1>0, <1>7 DEF CallUncounted, GoTo, Carry, StreakInv, Tokens
<1>8. ASSUME NEW c \in Callers, End(c) PROVE StreakInv'
  <2>1. CASE Rollback(c)
    BY <1>8, <1>c, <2>1 DEF End, GoTo
  <2>2. CASE Commit(work)
    <3>1. /\ row' = work /\ work' = work /\ lock' = NoOne /\ streak' = recent /\ recent' = recent
          /\ token' = token /\ pc' = [pc EXCEPT ![c] = "idle"]
      BY <1>8, <2>2 DEF End, Commit, GoTo
    <3>2. work.state = "absent" => \A d \in Callers : token[d] = NoWindow
      BY <1>a DEF StreakInv
    <3>3. \A d \in Callers : d # NoOne
      BY <1>0
    <3>. QED  BY <3>1, <3>2, <3>3 DEF StreakInv
  <2>. QED  BY <1>8, <2>1, <2>2 DEF End
<1>9. ASSUME NEW c \in Callers, Abort(c) PROVE StreakInv'
  BY <1>9, <1>c DEF Abort, GoTo, Carry
<1>10. CASE Tick
  <2>1. \A r \in Rows : Older(r).state = r.state /\ Older(r).failures = r.failures
    BY DEF Older, Rows
  <2>. QED  BY <1>0, <1>10, <2>1 DEF Tick, StreakInv
<1>11. CASE UNCHANGED vars
  BY <1>11 DEF vars, StreakInv
<1>. QED
  BY <1>1, <1>2, <1>3, <1>4, <1>5, <1>6, <1>7, <1>8, <1>9, <1>10, <1>11
     DEF Next, BeforeCall, Returns

(* FailuresOpenTheCircuit: Threshold committed failures in a row leave no   *)
(* closed circuit behind, whether synchronous runs or durable frontiers     *)
(* made the calls, even if failures that do not count, lost runs, rolled    *)
(* back records and probes of old windows come in between.                  *)
THEOREM StreaksOpenTheCircuit == Spec => []FailuresOpenTheCircuit
<1>1. Init => StreakInv
  BY PolicyAssumption DEF Init, StreakInv, AbsentRow
<1>2. ProbeInv /\ StreakInv => FailuresOpenTheCircuit
  <2>. SUFFICES ASSUME ProbeInv, StreakInv, streak = Threshold, row.state = "closed"
                PROVE  FALSE
    BY DEF FailuresOpenTheCircuit
  <2>1. row.failures \in 0..Threshold
    BY DEF ProbeInv, TypeOK, Rows
  <2>. QED  BY <2>1, PolicyAssumption DEF StreakInv
<1>. QED  BY <1>1, <1>2, StreakStep, ProbeInvHolds, PTL DEF Spec
=============================================================================
