------------------------ MODULE ResumeLineage_proofs ------------------------
(***************************************************************************)
(* Proofs about ResumeLineage with the operator actions on top of it, for  *)
(* any definitions, any number of executions and any number of scanners.   *)
(*                                                                         *)
(* The argument: a step writes one row, and what an execution has done     *)
(* only grows. An execution that was resumed has ended, so whatever adds   *)
(* to its nodes overruns it; its one resume takes all of them over, and    *)
(* has none of its own before it has a frontier.                           *)
(***************************************************************************)
EXTENDS OperatorActions, FiniteSetTheorems, TLAPS

-----------------------------------------------------------------------------
(* Rows and how a step changes them. *)

Statuses == {"absent", "pending", "running"} \union Ended

\* A row of workflow_executions, whatever its nodes and edges are.
IsRow(x) ==
  x \in [status: Statuses,
         kind: {"fresh", "resume", "retry"},
         source: Execution \union {None},
         done: {x.done},
         taken: {x.taken},
         checkpoint: BOOLEAN,
         frontier: {x.frontier},
         framed: BOOLEAN,
         traced: BOOLEAN,
         cause: {x.cause},
         overrun: BOOLEAN]

\* The executions are the rows 1 to n, and only they are run or repaired.
Rows ==
  /\ ex = [e \in Execution |-> ex[e]]
  /\ \A e \in Execution : IsRow(ex[e])
  /\ \E n \in Execution : Created = 1 .. n
  /\ inline \subseteq Created
  /\ repairs \in [Scanner -> Execution \union {None}]

\* Without a frontier row nothing is recorded before the end.
Bare(x) ==
  ~ x.framed =>
    /\ x.frontier = {} /\ ~ x.traced
    /\ x.status \in Ended \/ (x.done = {} /\ x.taken = {})

\* What may become of the row x of an execution: its source stays, its frontier row
\* does not vanish, and its nodes and edges only grow, after its end by an overrun.
Grows(x, y) ==
  /\ IsRow(y)
  /\ y.status # "absent"
  /\ y.source = x.source
  /\ x.framed => y.framed
  /\ x.overrun => y.overrun
  /\ x.done \subseteq y.done /\ x.taken \subseteq y.taken
  /\ x.status \in Ended =>
       y.status \in Ended /\ (y.overrun \/ (y.done = x.done /\ y.taken = x.taken))
  /\ Bare(x) => Bare(y)

\* A step writes the row of one execution only.
Writes(e) ==
  /\ ex' = [x \in Execution |-> ex'[x]]
  /\ \A x \in Execution \ {e} : ex'[x] = ex[x]

\* A step changes the row of one execution, and gives it no frontier row.
Changes(e) == Writes(e) /\ e \in Created /\ Grows(ex[e], ex'[e]) /\ ex'[e].framed = ex[e].framed

(* A row that nothing has written to is a row. *)
LEMMA FreshIsRow ==
  /\ IsRow(Absent) /\ IsRow(Fresh)
  /\ \A e \in Execution : IsRow(Resume(e)) /\ IsRow([Fresh EXCEPT !.kind = "retry"])
BY DEF IsRow, Absent, Fresh, Resume, Statuses, Ended, None, Execution

(* Writing one row leaves the others. *)
LEMMA WritesOne ==
  ASSUME Rows, NEW e \in Execution, NEW y, ex' = [ex EXCEPT ![e] = y]
  PROVE  Writes(e) /\ ex'[e] = y
BY DEF Rows, Writes

(* A worker's run of a frontier, or its failure, changes the row of its execution. *)
LEMMA WorkerChanges ==
  ASSUME Rows, NEW e \in Execution, WorkerRuns(e) \/ WorkerFails(e)
  PROVE  Changes(e)
<1>1. /\ IsRow(ex[e]) /\ ex[e].status \in {"pending", "running"} /\ ex[e].frontier # {}
      /\ e \in Created
  BY DEF Rows, WorkerRuns, WorkerFails, Runnable, Created
<1>2. ASSUME NEW cause, ex' = [ex EXCEPT ![e] = Fails(e, cause)] PROVE Changes(e)
  <2>1. Grows(ex[e], Fails(e, cause)) /\ Fails(e, cause).framed = ex[e].framed
    BY <1>1 DEF Grows, Bare, IsRow, Fails, Statuses, Ended
  <2>. QED  BY <1>1, <1>2, <2>1, WritesOne DEF Changes
<1>3. ASSUME NEW done, NEW taken, NEW next, ex[e].done \subseteq done, ex[e].taken \subseteq taken,
             ex' = [ex EXCEPT ![e] =
                      [ex[e] EXCEPT !.status = IF next = {} THEN "completed" ELSE "running",
                                    !.done = done, !.taken = taken,
                                    !.checkpoint = TRUE, !.frontier = next]]
      PROVE  Changes(e)
  <2>. DEFINE y == [ex[e] EXCEPT !.status = IF next = {} THEN "completed" ELSE "running",
                                 !.done = done, !.taken = taken,
                                 !.checkpoint = TRUE, !.frontier = next]
  <2>1. Grows(ex[e], y) /\ y.framed = ex[e].framed
    BY <1>1, <1>3 DEF Grows, Bare, IsRow, Statuses, Ended
  <2>. QED  BY <1>1, <1>3, <2>1, WritesOne DEF Changes
<1>4. ASSUME RunLinear(e) PROVE Changes(e)
  <2>1. PICK done, next :
          /\ ex[e].done \subseteq done
          /\ ex' = [ex EXCEPT ![e] =
                      [ex[e] EXCEPT !.status = IF next = {} THEN "completed" ELSE "running",
                                    !.done = done, !.checkpoint = TRUE, !.frontier = next]]
    BY <1>4 DEF RunLinear
  <2>2. [ex[e] EXCEPT !.status = IF next = {} THEN "completed" ELSE "running",
                      !.done = done, !.checkpoint = TRUE, !.frontier = next]
        = [ex[e] EXCEPT !.status = IF next = {} THEN "completed" ELSE "running",
                        !.done = done, !.taken = ex[e].taken, !.checkpoint = TRUE, !.frontier = next]
    BY <1>1 DEF IsRow
  <2>. QED  BY <1>3, <2>1, <2>2
<1>5. ASSUME NEW n, NEW selected, RunNode(e, n, selected) PROVE Changes(e)
  <2>1. CASE PlanFails(definition, Done(e) \union {n})
    BY <1>2, <1>5, <2>1 DEF RunNode
  <2>2. CASE ~ PlanFails(definition, Done(e) \union {n})
    <3>. DEFINE done == ex[e].done \union {n}
                taken == ex[e].taken \union selected
                next == PlanFrontier(definition, Done(e) \union {n}, Taken(e) \union selected)
    <3>1. /\ ex[e].done \subseteq done /\ ex[e].taken \subseteq taken
          /\ ex' = [ex EXCEPT ![e] =
                      [ex[e] EXCEPT !.status = IF next = {} THEN "completed" ELSE "running",
                                    !.done = done, !.taken = taken,
                                    !.checkpoint = TRUE, !.frontier = next]]
      BY <1>5, <2>2 DEF RunNode
    <3>. HIDE DEF done, taken, next
    <3>. QED  BY <1>3, <3>1
  <2>. QED  BY <2>1, <2>2
<1>6. CASE WorkerRuns(e)
  BY <1>2, <1>4, <1>5, <1>6 DEF WorkerRuns, RunDag, RefuseFrontier
<1>7. CASE WorkerFails(e)
  BY <1>2, <1>7 DEF WorkerFails
<1>. QED  BY <1>6, <1>7

(* So do the start of an inline run and a cancel. *)
LEMMA RequestChanges ==
  ASSUME Rows, NEW e \in Execution, InlineStarts(e) \/ Cancel(e)
  PROVE  Changes(e)
<1>1. /\ IsRow(ex[e]) /\ ex[e].status \in {"pending", "running"} /\ e \in Created
  BY DEF Rows, InlineStarts, Cancel, Created
<1>2. PICK status \in {"running", "cancelled"} : ex' = [ex EXCEPT ![e] = [ex[e] EXCEPT !.status = status]]
  BY DEF InlineStarts, Cancel
<1>3. /\ Grows(ex[e], [ex[e] EXCEPT !.status = status])
      /\ [ex[e] EXCEPT !.status = status].framed = ex[e].framed
  BY <1>1 DEF Grows, Bare, IsRow, Statuses, Ended
<1>. QED  BY <1>1, <1>2, <1>3, WritesOne DEF Changes

\* A pending execution is running, and nothing else changes.
Starts(e) == ex[e].status = "pending" /\ ex' = [ex EXCEPT ![e] = [ex[e] EXCEPT !.status = "running"]]

\* The row of e when a run of it has added to its facts.
RunTo(e, done, taken, status, cause, overrun) ==
  [ex[e] EXCEPT !.done = ex[e].done \union done, !.taken = ex[e].taken \union taken,
                !.status = status, !.cause = cause, !.overrun = overrun]

(* A run of e that adds to its facts and ends it lets its row grow. *)
LEMMA RunGrows ==
  ASSUME Rows, NEW e \in Created, NEW done, NEW taken, NEW cause, NEW overrun \in BOOLEAN,
         NEW status \in {"completed", "failed"},
         ex[e].overrun \/ ex[e].status \in Ended => overrun
  PROVE  LET y == RunTo(e, done, taken, status, cause, overrun)
         IN Grows(ex[e], y) /\ y.framed = ex[e].framed /\ y.status = status
<1>1. IsRow(ex[e]) /\ e \in Execution /\ ex[e].status # "absent"
  BY DEF Rows, Created
<1>. DEFINE y == RunTo(e, done, taken, status, cause, overrun)
<1>2. IsRow(y)
  BY <1>1 DEF RunTo, IsRow, Statuses, Ended
<1>3. /\ y.status = status /\ (overrun => y.overrun)
      /\ y.done = ex[e].done \union done /\ y.taken = ex[e].taken \union taken
      /\ y.source = ex[e].source /\ y.framed = ex[e].framed
      /\ y.traced = ex[e].traced /\ y.frontier = ex[e].frontier
  BY <1>1 DEF RunTo, IsRow
<1>. HIDE DEF y
<1>4. Grows(ex[e], y)
  BY <1>1, <1>2, <1>3 DEF Grows, Bare, Ended
<1>. QED  BY <1>3, <1>4 DEF y

(* An inline run ends with or without a change of its row. *)
LEMMA InlineEndChanges ==
  ASSUME Rows, NEW e \in Execution, InlineEnds(e)
  PROVE  UNCHANGED ex \/ (Changes(e) /\ ex'[e].status \in Ended)
<1>1. IsRow(ex[e]) /\ e \in Created
  BY DEF Rows, InlineEnds
<1>2. CASE ex[e].frontier # {}
  BY <1>2 DEF InlineEnds
<1>3. CASE ex[e].frontier = {}
  <2>1. PICK p \in Stops(e) :
          ex' = [ex EXCEPT ![e] =
                   [Over(e, p) EXCEPT !.overrun = ex[e].overrun \/ ex[e].status \in Ended]]
    BY <1>3 DEF InlineEnds
  <2>. DEFINE status == IF p.cause = "none" THEN "completed" ELSE "failed"
              overrun == ex[e].overrun \/ ex[e].status \in Ended
  <2>2. [Over(e, p) EXCEPT !.overrun = overrun] = RunTo(e, p.done, p.taken, status, p.cause, overrun)
    BY DEF Over, Ran, RunTo
  <2>3. status \in {"completed", "failed"} /\ overrun \in BOOLEAN
    BY <1>1 DEF IsRow
  <2>4. ex[e].overrun \/ ex[e].status \in Ended => overrun
    OBVIOUS
  <2>. HIDE DEF status, overrun
  <2>5. ex' = [ex EXCEPT ![e] = RunTo(e, p.done, p.taken, status, p.cause, overrun)]
    BY <2>1, <2>2 DEF overrun
  <2>. DEFINE y == RunTo(e, p.done, p.taken, status, p.cause, overrun)
  <2>6. Grows(ex[e], y) /\ y.framed = ex[e].framed /\ y.status = status
    BY <1>1, <2>3, <2>4, RunGrows
  <2>. HIDE DEF y
  <2>7. Writes(e) /\ ex'[e] = y
    BY <2>5, WritesOne DEF y
  <2>. QED  BY <1>1, <2>3, <2>6, <2>7 DEF Changes, Ended
<1>. QED  BY <1>2, <1>3

(* An operator's run changes the row of its execution, which has ended, has nothing left to *)
(* run or is overrun then; the run of one with a frontier may only be seen to have started.  *)
LEMMA OperatorRunChanges ==
  ASSUME Rows, NEW k, NEW e \in Execution, OperatorRun(k, e) \/ OperatorOverruns(k, e)
  PROVE  Changes(e) /\ (ex'[e].status \in Ended \/ ex'[e].overrun \/ Starts(e))
<1>1. IsRow(ex[e]) /\ e \in Created /\ ex[e].status = "pending"
  BY DEF Rows, OperatorRun, OperatorOverruns, Available, Created
<1>2. CASE OperatorRun(k, e)
  <2>1. PICK p \in Stops(e) : ex' = [ex EXCEPT ![e] = Over(e, p)]
    BY <1>2 DEF OperatorRun
  <2>. DEFINE status == IF p.cause = "none" THEN "completed" ELSE "failed"
              overrun == ex[e].overrun
  <2>2. Over(e, p) = RunTo(e, p.done, p.taken, status, p.cause, overrun)
    BY <1>1 DEF Over, Ran, RunTo, IsRow
  <2>3. status \in {"completed", "failed"} /\ overrun \in BOOLEAN
    BY <1>1 DEF IsRow
  <2>4. ex[e].overrun \/ ex[e].status \in Ended => overrun
    BY <1>1 DEF Ended
  <2>. HIDE DEF status, overrun
  <2>5. ex' = [ex EXCEPT ![e] = RunTo(e, p.done, p.taken, status, p.cause, overrun)]
    BY <2>1, <2>2
  <2>. DEFINE y == RunTo(e, p.done, p.taken, status, p.cause, overrun)
  <2>6. Grows(ex[e], y) /\ y.framed = ex[e].framed /\ y.status = status
    BY <1>1, <2>3, <2>4, RunGrows
  <2>. HIDE DEF y
  <2>7. Writes(e) /\ ex'[e] = y
    BY <2>5, WritesOne DEF y
  <2>. QED  BY <1>1, <2>3, <2>6, <2>7 DEF Changes, Ended
<1>3. ASSUME Starts(e) PROVE Changes(e)
  <2>1. Grows(ex[e], [ex[e] EXCEPT !.status = "running"])
        /\ [ex[e] EXCEPT !.status = "running"].framed = ex[e].framed
    BY <1>1 DEF Grows, Bare, IsRow, Statuses, Ended
  <2>. QED  BY <1>1, <1>3, <2>1, WritesOne DEF Changes, Starts
<1>4. ASSUME NEW p \in Stops(e), ex[e].frontier # {},
             ex' = [ex EXCEPT ![e] = [Ran(e, p) EXCEPT !.status = "running",
                                                       !.overrun = ex[e].overrun \/ p.done # {}]]
      PROVE  Changes(e) /\ (ex'[e].overrun \/ Starts(e))
  <2>1. CASE p.done = {}
    <3>1. p.taken = {}
      BY <2>1 DEF Stops
    <3>2. [Ran(e, p) EXCEPT !.status = "running", !.overrun = ex[e].overrun \/ p.done # {}]
          = [ex[e] EXCEPT !.status = "running"]
      BY <1>1, <2>1, <3>1 DEF Ran, IsRow
    <3>. QED  BY <1>1, <1>3, <1>4, <3>2 DEF Starts
  <2>2. CASE p.done # {}
    <3>1. [Ran(e, p) EXCEPT !.status = "running", !.overrun = ex[e].overrun \/ p.done # {}]
          = RunTo(e, p.done, p.taken, "running", ex[e].cause, TRUE)
      BY <1>1, <2>2 DEF Ran, RunTo, IsRow
    <3>. DEFINE y == RunTo(e, p.done, p.taken, "running", ex[e].cause, TRUE)
    <3>2. IsRow(y)
      BY <1>1 DEF RunTo, IsRow, Statuses
    <3>3. /\ y.status = "running" /\ y.overrun
          /\ y.done = ex[e].done \union p.done /\ y.taken = ex[e].taken \union p.taken
          /\ y.source = ex[e].source /\ y.framed = ex[e].framed
          /\ y.traced = ex[e].traced /\ y.frontier = ex[e].frontier
      BY <1>1 DEF RunTo, IsRow
    <3>4. Writes(e) /\ ex'[e] = y
      BY <1>4, <3>1, WritesOne
    <3>. HIDE DEF y
    <3>5. Grows(ex[e], y)
      BY <1>1, <1>4, <3>2, <3>3 DEF Grows, Bare, Ended
    <3>. QED  BY <1>1, <3>3, <3>4, <3>5 DEF Changes
  <2>. QED  BY <2>1, <2>2
<1>5. CASE OperatorOverruns(k, e)
  <2>1. CASE ex' = [ex EXCEPT ![e].status = "running"]
    BY <1>1, <1>3, <2>1 DEF Starts
  <2>2. ex' = [ex EXCEPT ![e].status = "running"] \/
        \E p \in Stops(e) :
          ex' = [ex EXCEPT ![e] = [Ran(e, p) EXCEPT !.status = "running",
                                                    !.overrun = ex[e].overrun \/ p.done # {}]]
    BY <1>5 DEF OperatorOverruns
  <2>3. ex[e].frontier # {}
    BY <1>5 DEF OperatorOverruns
  <2>. QED  BY <1>4, <2>1, <2>2, <2>3
<1>. QED  BY <1>2, <1>5

(* While there is room, the next number is a new one and no number is left out. *)
LEMMA NextIsNew ==
  ASSUME Rows, Room
  PROVE  /\ Next1 \in Execution /\ Next1 \notin Created
         /\ Created \union {Next1} = 1 .. Next1
         /\ ex[Next1].status = "absent"
<1>1. PICK n \in Execution : Created = 1 .. n
  BY DEF Rows
<1>2. n \in Nat \ {0} /\ MaxExecutions \in Nat
  BY LineageAssumption DEF Execution
<1>3. Cardinality(Created) = n
  <2>1. Cardinality(1 .. n) = IF 1 > n THEN 0 ELSE n - 1 + 1
    BY <1>2, FS_Interval
  <2>. QED  BY <1>1, <1>2, <2>1
<1>4. Next1 = n + 1
  BY <1>3 DEF Next1
<1>5. Next1 \in Execution /\ Next1 \notin Created /\ Created \union {Next1} = 1 .. Next1
  BY <1>1, <1>2, <1>4 DEF Room, Execution
<1>. QED  BY <1>5 DEF Created

(* A resume with its frontier is a row, with the facts of its source. *)
LEMMA BootstrapIsRow ==
  ASSUME NEW e \in Execution, NEW r, IsRow(r)
  PROVE  LET y == Linked(Bootstrapped(r, e))
         IN /\ IsRow(y) /\ y.framed /\ y.traced
            /\ y.source = r.source /\ y.status = r.status /\ y.overrun = r.overrun
            /\ y.done = r.done \union ex[e].done /\ y.taken = r.taken \union ex[e].taken
            /\ y.frontier = Frontier(definition, ex[e].done, ex[e].taken)
BY DEF IsRow, Linked, Bootstrapped

\* A resume of a failure that has none is created, with its nodes and its frontier or
\* without a frontier row.
Resumes(e) ==
  /\ Resumable(e) /\ ResumesOf(e) = {}
  /\ \/ ex'[Next1] = Resume(e)
     \/ Bootstrappable(e) /\ ex'[Next1] = Linked(Bootstrapped(Resume(e), e))

(* Retries and resumes create an execution. *)
LEMMA RequestCreates ==
  ASSUME Rows, NEW e \in Execution,
         Retry(e) \/ ManualResume(e) \/ \E s \in Scanner : Recovers(s, e)
  PROVE  /\ Room /\ Writes(Next1) /\ UNCHANGED <<definition, inline, repairs>>
         /\ ex'[Next1] = [Fresh EXCEPT !.kind = "retry"] \/ Resumes(e)
<1>1. Room /\ Next1 \in Execution
  BY NextIsNew DEF Retry, ManualResume, Recovers
<1>2. CASE Retry(e)
  BY <1>1, <1>2, WritesOne DEF Retry
<1>3. CASE ManualResume(e)
  BY <1>1, <1>3, WritesOne DEF ManualResume, Resumes
<1>4. ASSUME NEW s \in Scanner, Recovers(s, e)
      PROVE  Writes(Next1) /\ Resumes(e) /\ UNCHANGED <<definition, inline, repairs>>
  <2>1. Writes(Next1) /\ ex'[Next1] = Linked(Bootstrapped(Resume(e), e))
    BY <1>1, <1>4, WritesOne DEF Recovers
  <2>. QED  BY <1>4, <2>1 DEF Recovers, Resumes, Eligible
<1>. QED  BY <1>1, <1>2, <1>3, <1>4

\* A repair gives a resume of e the facts and the frontier of its source.
Reframes(r, e) ==
  /\ Bootstrappable(e) /\ Writes(r)
  /\ Grows(ex[r], ex'[r])
  /\ ex'[r].framed /\ ex'[r].status = ex[r].status
  /\ ex'[r].done = ex[r].done \union ex[e].done
  /\ ex'[r].taken = ex[r].taken \union ex[e].taken
  /\ ex'[r].frontier = Frontier(definition, ex[e].done, ex[e].taken)

(* A repair ends the scanner's hold on the source, with a frontier or without. *)
LEMMA RepairReframes ==
  ASSUME Rows, NEW s \in Scanner, NEW e \in Execution, Repairs(s, e)
  PROVE  /\ repairs[s] = e /\ repairs' = [repairs EXCEPT ![s] = None]
         /\ UNCHANGED <<definition, inline>>
         /\ UNCHANGED ex \/ \E r \in ResumesOf(e) : Reframes(r, e)
<1>. DEFINE y(r) == [Linked(Bootstrapped(ex[r], e)) EXCEPT
                        !.overrun = Linked(Bootstrapped(ex[r], e)).overrun \/ ex[r].status \in Ended]
<1>1. ASSUME NEW r \in ResumesOf(e), Bootstrappable(e), ex' = [ex EXCEPT ![r] = y(r)]
      PROVE  Reframes(r, e)
  <2>1. r \in Execution /\ r \in Created /\ IsRow(ex[r]) /\ ex[r].status # "absent"
    BY DEF ResumesOf, Created, Rows
  <2>. DEFINE z == Linked(Bootstrapped(ex[r], e))
  <2>2. /\ IsRow(z) /\ z.framed /\ z.source = ex[r].source /\ z.status = ex[r].status
        /\ z.overrun = ex[r].overrun
        /\ z.done = ex[r].done \union ex[e].done /\ z.taken = ex[r].taken \union ex[e].taken
        /\ z.frontier = Frontier(definition, ex[e].done, ex[e].taken)
    BY <2>1, BootstrapIsRow
  <2>. HIDE DEF z
  <2>3. ASSUME NEW f, f = [z EXCEPT !.overrun = z.overrun \/ ex[r].status \in Ended]
        PROVE  /\ Grows(ex[r], f) /\ f.framed /\ f.status = ex[r].status
               /\ f.done = z.done /\ f.taken = z.taken /\ f.frontier = z.frontier
    BY <2>1, <2>2, <2>3 DEF Grows, Bare, IsRow
  <2>4. Writes(r) /\ ex'[r] = [z EXCEPT !.overrun = z.overrun \/ ex[r].status \in Ended]
    BY <1>1, <2>1, WritesOne DEF z
  <2>. QED  BY <1>1, <2>2, <2>3, <2>4 DEF Reframes
<1>. QED  BY <1>1 DEF Repairs

\* A change that leaves nothing for a worker to go on with, or overruns the execution.
Stopped(e) == ex'[e].status \in Ended \/ ex'[e].overrun \/ ex'[e].frontier = {}

(* What a step does: it leaves the executions, changes one, creates one or repairs one. *)
LEMMA StepCases ==
  ASSUME Rows, [OpNext]_opVars
  PROVE  /\ definition' = definition
         /\ \/ UNCHANGED ex
            \/ \E e \in Execution :
                 Changes(e) /\ (Stopped(e) \/ Starts(e) \/ WorkerRuns(e))
            \/ /\ Room /\ Writes(Next1) /\ UNCHANGED repairs
               /\ \/ ex'[Next1] = [Fresh EXCEPT !.kind = "retry"]
                  \/ \E e \in Execution : Resumes(e)
            \/ \E s \in Scanner, e \in Execution :
                 Repairs(s, e) /\ \E r \in ResumesOf(e) : Reframes(r, e)
         /\ \/ UNCHANGED repairs
            \/ \E s \in Scanner, e \in Execution : FindsIncomplete(s, e) \/ Repairs(s, e)
         /\ inline' \subseteq inline \union Created
<1>. DEFINE Cases == \/ UNCHANGED ex
                     \/ \E e \in Execution :
                          Changes(e) /\ (Stopped(e) \/ Starts(e) \/ WorkerRuns(e))
                     \/ /\ Room /\ Writes(Next1) /\ UNCHANGED repairs
                        /\ \/ ex'[Next1] = [Fresh EXCEPT !.kind = "retry"]
                           \/ \E e \in Execution : Resumes(e)
                     \/ \E s \in Scanner, e \in Execution :
                          Repairs(s, e) /\ \E r \in ResumesOf(e) : Reframes(r, e)
            Kept == definition' = definition /\ UNCHANGED repairs /\ inline' \subseteq inline \union Created
            Goal == /\ definition' = definition /\ Cases
                    /\ \/ UNCHANGED repairs
                       \/ \E s \in Scanner, e \in Execution : FindsIncomplete(s, e) \/ Repairs(s, e)
                    /\ inline' \subseteq inline \union Created
<1>1. ASSUME NEW e \in Execution, WorkerRuns(e) PROVE Goal
  BY <1>1, WorkerChanges DEF WorkerRuns
<1>2. ASSUME NEW e \in Execution, WorkerFails(e) PROVE Goal
  <2>1. Changes(e) /\ Kept
    BY <1>2, WorkerChanges DEF WorkerFails
  <2>2. IsRow(ex[e]) /\ ex'[e] = Fails(e, "node")
    BY <1>2, WritesOne DEF WorkerFails, Rows
  <2>3. Stopped(e)
    BY <2>2 DEF Stopped, Fails, IsRow
  <2>. QED  BY <2>1, <2>3
<1>3. ASSUME NEW e \in Execution, InlineStarts(e) PROVE Goal
  <2>1. e \in Created
    BY <1>3, RequestChanges DEF Changes
  <2>2. Starts(e)
    BY <1>3 DEF InlineStarts, Starts
  <2>. QED  BY <1>3, <2>1, <2>2, RequestChanges DEF InlineStarts
<1>4. ASSUME NEW e \in Execution, Cancel(e) PROVE Goal
  <2>1. Changes(e) /\ Kept
    BY <1>4, RequestChanges DEF Cancel
  <2>2. IsRow(ex[e]) /\ ex'[e] = [ex[e] EXCEPT !.status = "cancelled"]
    BY <1>4 DEF Cancel, Rows
  <2>3. Stopped(e)
    BY <2>2 DEF Stopped, IsRow, Ended
  <2>. QED  BY <2>1, <2>3
<1>5. ASSUME NEW e \in Execution, Retry(e) \/ ManualResume(e) \/ \E s \in Scanner : Recovers(s, e)
      PROVE  Goal
  BY <1>5, RequestCreates
<1>6. ASSUME NEW e \in Execution, InlineEnds(e) PROVE Goal
  BY <1>6, InlineEndChanges DEF InlineEnds, Stopped
<1>7. ASSUME NEW s \in Scanner, NEW e \in Execution, FindsIncomplete(s, e) PROVE Goal
  BY <1>7 DEF FindsIncomplete
<1>8. ASSUME NEW s \in Scanner, NEW e \in Execution, Repairs(s, e) PROVE Goal
  BY <1>8, RepairReframes
<1>9. ASSUME NEW e \in Execution, NEW k, OperatorRun(k, e) \/ OperatorOverruns(k, e) PROVE Goal
  BY <1>9, OperatorRunChanges DEF OperatorRun, OperatorOverruns, Stopped
<1>10. ASSUME UNCHANGED vars PROVE Goal
  BY <1>10 DEF vars
<1>11. ASSUME NEW e \in Execution, NEW k, OperatorRequest(k, e) PROVE Goal
  <2>1. \/ Retry(e) \/ ManualResume(e) \/ UNCHANGED vars \/ Cancel(e)
        \/ OperatorRun(k, e) \/ OperatorOverruns(k, e)
    BY <1>11 DEF OperatorRequest, OperatorRetry, OperatorResume, OperatorCancel
  <2>. QED  BY <1>4, <1>5, <1>9, <1>10, <2>1
<1>12. ASSUME Next PROVE Goal
  BY <1>1, <1>2, <1>3, <1>4, <1>5, <1>6, <1>7, <1>8, <1>12 DEF Next, ExecutionRequests
<1>. QED  BY <1>10, <1>11, <1>12 DEF OpNext, OperatorActs, opVars

-----------------------------------------------------------------------------
(* The invariant. *)

\* Who is resumed has ended, before it is resumed.
Sourced ==
  \A r \in Created : ex[r].source # None =>
    /\ ex[r].source \in Created /\ ex[r].source # r
    /\ ex[ex[r].source].status \in Ended

\* An execution is resumed by one other.
OneResume ==
  \A q, r \in Created : ex[q].source = ex[r].source /\ ex[q].source # None => q = r

Unframed == \A e \in Created : Bare(ex[e])

\* A scanner that repairs the resume of a source holds that source alone, and the
\* resume has no frontier yet.
RepairsHold ==
  /\ \A s \in Scanner : repairs[s] # None =>
       ResumesOf(repairs[s]) # {} /\ \A r \in ResumesOf(repairs[s]) : ~ ex[r].framed
  /\ \A s, t \in Scanner : repairs[s] = repairs[t] /\ repairs[s] # None => s = t

(* Initially there is one execution, without a source. *)
LEMMA FirstExecution == OpInit => Rows /\ Sourced /\ OneResume /\ Unframed /\ RepairsHold
<1>. SUFFICES ASSUME OpInit PROVE Rows /\ Sourced /\ OneResume /\ Unframed /\ RepairsHold
  OBVIOUS
<1>1. 1 \in Execution
  BY LineageAssumption DEF Execution
<1>2. PICK scheduled \in BOOLEAN :
        ex = [e \in Execution |->
               IF e # 1 THEN Absent
               ELSE [Fresh EXCEPT !.framed = scheduled,
                                  !.frontier = IF scheduled THEN definition.nodes ELSE {}]]
  BY DEF OpInit, Init
<1>3. /\ IsRow(ex[1]) /\ ex[1].status = "pending" /\ ex[1].source = None /\ Bare(ex[1])
  <2>1. ex[1] = [Fresh EXCEPT !.framed = scheduled,
                              !.frontier = IF scheduled THEN definition.nodes ELSE {}]
    BY <1>1, <1>2
  <2>2. \A next : IsRow([Fresh EXCEPT !.framed = scheduled, !.frontier = next])
    BY FreshIsRow DEF IsRow
  <2>3. /\ ex[1].status = "pending" /\ ex[1].source = None /\ ~ ex[1].traced
        /\ ex[1].framed = scheduled /\ ex[1].done = {} /\ ex[1].taken = {}
        /\ ex[1].frontier = IF scheduled THEN definition.nodes ELSE {}
    BY <2>1 DEF Fresh, Absent
  <2>4. IsRow(ex[1])
    BY <2>1, <2>2
  <2>5. ~ ex[1].framed => ex[1].frontier = {}
    BY <2>3
  <2>. QED  BY <2>3, <2>4, <2>5 DEF Bare
<1>4. \A e \in Execution \ {1} : IsRow(ex[e]) /\ ex[e].status = "absent"
  BY <1>2, FreshIsRow DEF Absent
<1>5. Created = 1 .. 1
  BY <1>1, <1>3, <1>4 DEF Created
<1>6. inline = {} /\ repairs = [s \in Scanner |-> None]
  BY DEF OpInit, Init
<1>7. Rows
  BY <1>1, <1>2, <1>3, <1>4, <1>5, <1>6 DEF Rows
<1>. QED  BY <1>3, <1>5, <1>6, <1>7 DEF Sourced, OneResume, Unframed, RepairsHold

(* A new execution is pending and bare; a resume has its source, which has failed. *)
LEMMA NewExecution ==
  ASSUME Rows, Room, Writes(Next1),
         ex'[Next1] = [Fresh EXCEPT !.kind = "retry"] \/ \E e \in Execution : Resumes(e)
  PROVE  /\ IsRow(ex'[Next1]) /\ Bare(ex'[Next1]) /\ ex'[Next1].status = "pending"
         /\ Created' = Created \union {Next1} /\ Next1 \notin Created /\ Next1 \in Execution
         /\ \/ /\ ex'[Next1].source = None /\ ~ ex'[Next1].framed /\ ex'[Next1].frontier = {}
            \/ \E e \in Execution :
                 /\ Resumes(e) /\ ex'[Next1].source = e
                 /\ e \in Created /\ ex[e].status = "failed" /\ ex'[e] = ex[e]
<1>1. /\ Next1 \in Execution /\ Next1 \notin Created /\ ex[Next1].status = "absent"
  BY NextIsNew
<1>3. ASSUME ex'[Next1] = [Fresh EXCEPT !.kind = "retry"]
      PROVE  /\ IsRow(ex'[Next1]) /\ Bare(ex'[Next1]) /\ ex'[Next1].status = "pending"
             /\ ex'[Next1].source = None /\ ~ ex'[Next1].framed /\ ex'[Next1].frontier = {}
  <2>. DEFINE retry == [Fresh EXCEPT !.kind = "retry"]
  <2>1. IsRow(retry)
    BY <1>1, FreshIsRow
  <2>2. /\ retry.status = "pending" /\ retry.source = None /\ ~ retry.framed
        /\ retry.frontier = {} /\ ~ retry.traced /\ retry.done = {} /\ retry.taken = {}
    BY DEF Fresh, Absent
  <2>. HIDE DEF retry
  <2>. QED  BY <1>3, <2>1, <2>2 DEF Bare, retry
<1>4. ASSUME NEW e \in Execution, Resumes(e)
      PROVE  /\ IsRow(ex'[Next1]) /\ Bare(ex'[Next1]) /\ ex'[Next1].status = "pending"
             /\ ex'[Next1].source = e
             /\ e \in Created /\ ex[e].status = "failed" /\ ex'[e] = ex[e]
  <2>1. e \in Created /\ ex[e].status = "failed" /\ ex'[e] = ex[e]
    BY <1>1, <1>4 DEF Resumes, Resumable, Created, Writes
  <2>2. IsRow(Resume(e)) /\ Resume(e).status = "pending" /\ Resume(e).source = e /\ Bare(Resume(e))
    BY FreshIsRow DEF Resume, Fresh, Absent, Bare
  <2>3. CASE ex'[Next1] = Resume(e)
    BY <2>1, <2>2, <2>3
  <2>4. CASE ex'[Next1] = Linked(Bootstrapped(Resume(e), e))
    BY <2>1, <2>2, <2>4, BootstrapIsRow DEF Bare
  <2>. QED  BY <1>4, <2>3, <2>4 DEF Resumes
<1>5. IsRow(ex'[Next1]) /\ Bare(ex'[Next1]) /\ ex'[Next1].status = "pending"
  BY <1>3, <1>4
<1>6. Created' = Created \union {Next1}
  BY <1>1, <1>5 DEF Created, Writes
<1>. QED  BY <1>1, <1>3, <1>4, <1>5, <1>6

(* Executions do not vanish, and one that there was changes as rows change. *)
LEMMA RowsMove ==
  ASSUME Rows, [OpNext]_opVars
  PROVE  /\ Created \subseteq Created'
         /\ \A x \in Created : ex'[x] = ex[x] \/ Grows(ex[x], ex'[x])
         /\ \A x \in Created' \ Created :
              /\ x = Next1 /\ Room /\ Writes(Next1) /\ UNCHANGED repairs
              /\ ex'[Next1] = [Fresh EXCEPT !.kind = "retry"] \/ \E e \in Execution : Resumes(e)
<1>. DEFINE Goal == /\ Created \subseteq Created'
                    /\ \A x \in Created : ex'[x] = ex[x] \/ Grows(ex[x], ex'[x])
                    /\ \A x \in Created' \ Created :
                         /\ x = Next1 /\ Room /\ Writes(Next1) /\ UNCHANGED repairs
                         /\ \/ ex'[Next1] = [Fresh EXCEPT !.kind = "retry"]
                            \/ \E e \in Execution : Resumes(e)
<1>1. CASE UNCHANGED ex
  BY <1>1 DEF Created
<1>2. ASSUME NEW e \in Created, Writes(e), Grows(ex[e], ex'[e]) PROVE Goal
  <2>1. Created' = Created
    BY <1>2 DEF Created, Writes, Grows
  <2>. QED  BY <1>2, <2>1 DEF Created, Writes
<1>3. CASE /\ Room /\ Writes(Next1) /\ UNCHANGED repairs
           /\ ex'[Next1] = [Fresh EXCEPT !.kind = "retry"] \/ \E e \in Execution : Resumes(e)
  BY <1>3, NewExecution DEF Created, Writes
<1>4. ASSUME NEW e \in Execution, NEW r \in ResumesOf(e), Reframes(r, e) PROVE Goal
  BY <1>2, <1>4 DEF Reframes, ResumesOf
<1>. QED  BY <1>1, <1>2, <1>3, <1>4, StepCases DEF Changes

(* Every step keeps the rows rows. *)
LEMMA RowsStep == Rows /\ [OpNext]_opVars => Rows'
<1>. SUFFICES ASSUME Rows, [OpNext]_opVars PROVE Rows'
  OBVIOUS
<1>1. \A x \in Execution : IsRow(ex'[x])
  <2>. SUFFICES ASSUME NEW x \in Execution PROVE IsRow(ex'[x])
    OBVIOUS
  <2>1. CASE x \in Created
    BY <2>1, RowsMove DEF Grows, Rows
  <2>2. CASE x \in Created' \ Created
    BY <2>2, RowsMove, NewExecution
  <2>3. CASE x \notin Created /\ x \notin Created'
    <3>1. ASSUME NEW e \in Execution, Writes(e), e \in Created' PROVE ex'[x] = ex[x]
      BY <2>3, <3>1 DEF Writes
    <3>2. ASSUME NEW e \in Execution, NEW r \in ResumesOf(e), Reframes(r, e) PROVE ex'[x] = ex[x]
      BY <2>3, <3>2 DEF Reframes, ResumesOf, Writes
    <3>3. ASSUME NEW e \in Execution, Changes(e) PROVE ex'[x] = ex[x]
      BY <2>3, <3>3 DEF Changes, Writes
    <3>4. ex'[x] = ex[x]
      BY <3>1, <3>2, <3>3, StepCases, NewExecution
    <3>. QED  BY <3>4 DEF Rows
  <2>. QED  BY <2>1, <2>2, <2>3
<1>2. ex' = [x \in Execution |-> ex'[x]]
  <2>1. UNCHANGED ex => ex' = [x \in Execution |-> ex'[x]]
    BY DEF Rows
  <2>2. \A e : Writes(e) => ex' = [x \in Execution |-> ex'[x]]
    BY DEF Writes
  <2>. QED  BY <2>1, <2>2, StepCases DEF Changes, Reframes
<1>3. \E n \in Execution : Created' = 1 .. n
  <2>1. CASE Created' = Created
    BY <2>1 DEF Rows
  <2>2. CASE Created' # Created
    <3>1. PICK x \in Created' \ Created : TRUE
      BY <2>2, RowsMove
    <3>. QED  BY <3>1, RowsMove, NewExecution, NextIsNew
  <2>. QED  BY <2>1, <2>2
<1>4. inline' \subseteq Created'
  BY StepCases, RowsMove DEF Rows
<1>5. repairs' \in [Scanner -> Execution \union {None}]
  <2>1. ASSUME NEW s \in Scanner, NEW e \in Execution, FindsIncomplete(s, e) \/ Repairs(s, e)
        PROVE  repairs' \in [Scanner -> Execution \union {None}]
    BY <2>1 DEF FindsIncomplete, Repairs, Rows
  <2>. QED  BY <2>1, StepCases DEF Rows
<1>. QED  BY <1>1, <1>2, <1>3, <1>4, <1>5 DEF Rows

(* Every step keeps that who is resumed has ended. *)
LEMMA SourcedStep == Rows /\ Sourced /\ [OpNext]_opVars => Sourced'
<1>. SUFFICES ASSUME Rows, Sourced, [OpNext]_opVars, NEW r \in Created', ex'[r].source # None
              PROVE  /\ ex'[r].source \in Created' /\ ex'[r].source # r
                     /\ ex'[ex'[r].source].status \in Ended
  BY DEF Sourced
<1>1. \A e \in Created : ex[e].status \in Ended => ex'[e].status \in Ended
  BY RowsMove DEF Grows
<1>2. CASE r \in Created
  <2>1. ex'[r].source = ex[r].source
    BY <1>2, RowsMove DEF Grows
  <2>. QED  BY <1>1, <1>2, <2>1, RowsMove DEF Sourced
<1>3. CASE r \notin Created
  <2>1. PICK e \in Execution : /\ ex'[r].source = e /\ e \in Created
                               /\ ex[e].status = "failed" /\ ex'[e] = ex[e]
    BY <1>3, RowsMove, NewExecution
  <2>. QED  BY <1>3, <2>1, RowsMove DEF Ended
<1>. QED  BY <1>2, <1>3

(* Every step keeps that an execution is resumed by one other: a resume is created only *)
(* under the key of a source that has none.                                            *)
LEMMA OneResumeStep == Rows /\ OneResume /\ [OpNext]_opVars => OneResume'
<1>. SUFFICES ASSUME Rows, OneResume, [OpNext]_opVars, NEW q \in Created', NEW r \in Created',
                     ex'[q].source = ex'[r].source, ex'[q].source # None
              PROVE  q = r
  BY DEF OneResume
<1>1. \A x \in Created : ex'[x].source = ex[x].source
  BY RowsMove DEF Grows
<1>2. ASSUME NEW x \in Created' \ Created, ex'[x].source # None, NEW y \in Created
      PROVE  ex[y].source # ex'[x].source
  <2>1. PICK e \in Execution : Resumes(e) /\ ex'[x].source = e
    BY <1>2, RowsMove, NewExecution
  <2>. QED  BY <2>1 DEF Resumes, ResumesOf
<1>3. \A x, y \in Created' \ Created : x = y
  BY RowsMove
<1>. QED  BY <1>1, <1>2, <1>3 DEF OneResume

(* Every step keeps that executions without a frontier row are bare. *)
LEMMA UnframedStep == Rows /\ Unframed /\ [OpNext]_opVars => Unframed'
<1>. SUFFICES ASSUME Rows, Unframed, [OpNext]_opVars, NEW e \in Created' PROVE Bare(ex'[e])
  BY DEF Unframed
<1>1. CASE e \in Created
  BY <1>1, RowsMove DEF Unframed, Grows
<1>2. CASE e \notin Created
  BY <1>2, RowsMove, NewExecution
<1>. QED  BY <1>1, <1>2

(* Every step keeps what a scanner that repairs relies on: nobody else gives the resume *)
(* a frontier.                                                                         *)
LEMMA RepairsHoldStep == Rows /\ OneResume /\ RepairsHold /\ [OpNext]_opVars => RepairsHold'
<1>. SUFFICES ASSUME Rows, OneResume, RepairsHold, [OpNext]_opVars PROVE RepairsHold'
  OBVIOUS
<1>0. repairs \in [Scanner -> Execution \union {None}]
  BY DEF Rows
\* While the source stays held, its resumes stay as they are.
<1>1. ASSUME NEW e \in Execution, ResumesOf(e) # {}, \A r \in ResumesOf(e) : ~ ex[r].framed,
             ~ \E s \in Scanner : Repairs(s, e)
      PROVE  ResumesOf(e)' # {} /\ \A r \in ResumesOf(e)' : ~ ex'[r].framed
  <2>1. \A x \in Created : ex'[x].source = ex[x].source
    BY RowsMove DEF Grows
  <2>2. ResumesOf(e)' # {}
    BY <1>1, <2>1, RowsMove DEF ResumesOf
  <2>3. ASSUME NEW r \in ResumesOf(e)' PROVE r \in ResumesOf(e)
    <3>1. r \in Created' /\ ex'[r].source = e /\ e # None
      BY DEF ResumesOf, Execution, None
    <3>2. CASE r \notin Created
      <4>1. PICK f \in Execution : Resumes(f) /\ ex'[r].source = f
        BY <3>1, <3>2, RowsMove, NewExecution
      <4>. QED  BY <1>1, <3>1, <4>1 DEF Resumes
    <3>. QED  BY <2>1, <3>1, <3>2 DEF ResumesOf
  <2>4. ASSUME NEW r \in ResumesOf(e), ex'[r].framed # ex[r].framed PROVE FALSE
    <3>1. r \in Created /\ ex[r].source = e
      BY DEF ResumesOf
    <3>2. ASSUME NEW f \in Execution, NEW q \in ResumesOf(f), Reframes(q, f), \E s \in Scanner : Repairs(s, f)
          PROVE  FALSE
      <4>1. q = r
        BY <2>4, <3>1, <3>2 DEF Reframes, Writes, Created
      <4>. QED  BY <1>1, <3>1, <3>2, <4>1 DEF ResumesOf
    <3>3. ASSUME NEW f \in Execution, Changes(f) PROVE FALSE
      BY <2>4, <3>1, <3>3 DEF Changes, Writes, Created
    <3>4. ASSUME Room, Writes(Next1) PROVE FALSE
      BY <2>4, <3>1, <3>4, NextIsNew DEF Writes, Created
    <3>. QED  BY <2>4, <3>2, <3>3, <3>4, StepCases
  <2>. QED  BY <1>1, <2>2, <2>3, <2>4
<1>2. CASE UNCHANGED repairs
  <2>1. \A s \in Scanner, e \in Execution : ~ Repairs(s, e)
    BY <1>0, <1>2 DEF Repairs, None, Execution
  <2>. QED  BY <1>0, <1>1, <1>2, <2>1 DEF RepairsHold
<1>3. ASSUME NEW s \in Scanner, NEW e \in Execution, FindsIncomplete(s, e) PROVE RepairsHold'
  <2>1. /\ ex' = ex /\ repairs' = [repairs EXCEPT ![s] = e]
        /\ \A t \in Scanner : repairs[t] # e
        /\ ResumesOf(e)' = ResumesOf(e)
    BY <1>3 DEF FindsIncomplete, Unlocked, ResumesOf, Created
  <2>2. \A r \in ResumesOf(e) : ~ ex[r].framed
    BY <1>3 DEF FindsIncomplete, OneResume, ResumesOf, None, Execution
  <2>3. ResumesOf(e) # {}
    BY <1>3 DEF FindsIncomplete
  <2>4. \A f \in Execution : ResumesOf(f)' = ResumesOf(f)
    BY <2>1 DEF ResumesOf, Created
  <2>. QED  BY <1>0, <2>1, <2>2, <2>3, <2>4 DEF RepairsHold
<1>4. ASSUME NEW s \in Scanner, NEW e \in Execution, Repairs(s, e) PROVE RepairsHold'
  <2>1. repairs[s] = e /\ repairs' = [repairs EXCEPT ![s] = None]
    BY <1>4 DEF Repairs
  <2>2. \A t \in Scanner, f \in Execution : repairs'[t] = f => f # e /\ repairs[t] = f
    BY <1>0, <2>1 DEF RepairsHold, None, Execution
  <2>3. \A t \in Scanner, f \in Execution : Repairs(t, f) => f = e
    BY <1>0, <2>1 DEF Repairs, None, Execution
  <2>4. \A t \in Scanner : repairs'[t] \in Execution \union {None}
    BY <1>0, <2>1
  <2>. QED  BY <1>1, <2>2, <2>3, <2>4 DEF RepairsHold
<1>. QED  BY <1>2, <1>3, <1>4, StepCases

-----------------------------------------------------------------------------
(* What is carried over, and the plan. *)

\* A resume with a frontier has every node and edge of its source.
Carries ==
  \A r \in Created : ex[r].source # None /\ ex[r].framed /\ ~ Overrun(r) =>
    /\ ex[ex[r].source].done \subseteq ex[r].done
    /\ ex[ex[r].source].taken \subseteq ex[r].taken

\* What the runtime loads besides the execution's own facts.
InheritedDone(e) == IF ex[e].source = None THEN {} ELSE ex[ex[e].source].done

InheritedTaken(e) == IF ex[e].source = None THEN {} ELSE ex[ex[e].source].taken

(* The facts of an execution are its own and its source's. *)
LEMMA Facts ==
  ASSUME NEW e
  PROVE  /\ Done(e) = ex[e].done \union InheritedDone(e)
         /\ Taken(e) = ex[e].taken \union InheritedTaken(e)
BY DEF Done, Taken, Sources, InheritedDone, InheritedTaken

(* Unless it overruns an execution, a step leaves what that execution inherits: its *)
(* source has ended.                                                                *)
LEMMA InheritanceKept ==
  ASSUME Rows, Sourced, [OpNext]_opVars, NEW e \in Created, ~ Overrun(e)'
  PROVE  /\ ~ Overrun(e) /\ ~ ex'[e].overrun
         /\ ex'[e].source = ex[e].source
         /\ InheritedDone(e)' = InheritedDone(e)
         /\ InheritedTaken(e)' = InheritedTaken(e)
<1>1. ex'[e].source = ex[e].source /\ (ex[e].overrun => ex'[e].overrun)
  BY RowsMove DEF Grows
<1>2. ~ ex'[e].overrun
  BY DEF Overrun, Sources
<1>3. CASE ex[e].source = None
  BY <1>1, <1>2, <1>3 DEF Overrun, Sources, InheritedDone, InheritedTaken
<1>4. CASE ex[e].source # None
  <2>. DEFINE s == ex[e].source
  <2>1. s \in Created /\ ex[s].status \in Ended
    BY <1>4 DEF Sourced
  <2>2. ~ ex'[s].overrun
    BY <1>1, <1>4 DEF Overrun, Sources
  <2>3. ~ ex[s].overrun /\ ex'[s].done = ex[s].done /\ ex'[s].taken = ex[s].taken
    BY <2>1, <2>2, RowsMove DEF Grows
  <2>. QED  BY <1>1, <1>2, <1>4, <2>3 DEF Overrun, Sources, InheritedDone, InheritedTaken
<1>. QED  BY <1>3, <1>4

(* Every step keeps what resumes carry over. *)
LEMMA CarriesStep == Rows /\ Sourced /\ Carries /\ [OpNext]_opVars => Carries'
<1>. SUFFICES ASSUME Rows, Sourced, Carries, [OpNext]_opVars, NEW r \in Created',
                     ex'[r].source # None, ex'[r].framed, ~ Overrun(r)'
              PROVE  /\ ex'[ex'[r].source].done \subseteq ex'[r].done
                     /\ ex'[ex'[r].source].taken \subseteq ex'[r].taken
  BY DEF Carries
<1>1. CASE r \in Created
  <2>. DEFINE s == ex[r].source
  <2>1. /\ ~ Overrun(r) /\ ex'[r].source = s /\ s # None
        /\ ex'[s].done = ex[s].done /\ ex'[s].taken = ex[s].taken
    BY <1>1, InheritanceKept DEF InheritedDone, InheritedTaken
  <2>2. ex[r].done \subseteq ex'[r].done /\ ex[r].taken \subseteq ex'[r].taken
    BY <1>1, RowsMove DEF Grows
  <2>3. CASE ex[r].framed
    BY <1>1, <2>1, <2>2, <2>3 DEF Carries
  <2>4. CASE ~ ex[r].framed
    <3>1. ASSUME NEW e \in Execution, Changes(e) PROVE FALSE
      BY <1>1, <2>4, <3>1 DEF Changes, Writes, Created
    <3>2. ASSUME Room, Writes(Next1) PROVE FALSE
      BY <1>1, <2>4, <3>2, NextIsNew DEF Writes, Created
    <3>3. PICK e \in Execution : \E q \in ResumesOf(e) : Reframes(q, e)
      BY <2>4, <3>1, <3>2, StepCases
    <3>4. PICK q \in ResumesOf(e) : Reframes(q, e)
      BY <3>3
    <3>5. q = r /\ e = s
      BY <1>1, <2>4, <3>4 DEF Reframes, Writes, Created, ResumesOf
    <3>. QED  BY <2>1, <3>4, <3>5 DEF Reframes
  <2>. QED  BY <2>3, <2>4
<1>2. CASE r \notin Created
  <2>1. PICK e \in Execution : r = Next1 /\ Resumes(e) /\ ex'[r].source = e /\ ex'[e] = ex[e]
    BY <1>2, RowsMove, NewExecution
  <2>2. ex'[r] # Resume(e)
    BY DEF Resume, Fresh, Absent
  <2>3. ex'[r] = Linked(Bootstrapped(Resume(e), e))
    BY <2>1, <2>2 DEF Resumes
  <2>4. ex'[r].done = Resume(e).done \union ex[e].done /\ ex'[r].taken = Resume(e).taken \union ex[e].taken
    BY <2>3, FreshIsRow, BootstrapIsRow
  <2>. QED  BY <2>1, <2>4
<1>. QED  BY <1>1, <1>2


(* The frontier a worker's run leaves is the plan of the facts it leaves. *)
LEMMA WorkerPlans ==
  ASSUME Rows, Sourced, [OpNext]_opVars, NEW e \in Created, WorkerRuns(e), ~ Overrun(e)', Runnable(e)'
  PROVE  /\ Plannable(definition, Done(e)')
         /\ ex'[e].frontier = Frontier(definition, Done(e)', Taken(e)')
<1>1. /\ Done(e) = ex[e].done \union InheritedDone(e)
      /\ Taken(e) = ex[e].taken \union InheritedTaken(e)
  BY Facts
<1>2. /\ Done(e)' = ex'[e].done \union InheritedDone(e)
      /\ Taken(e)' = ex'[e].taken \union InheritedTaken(e)
  <2>1. /\ Done(e)' = ex'[e].done \union InheritedDone(e)'
        /\ Taken(e)' = ex'[e].taken \union InheritedTaken(e)'
    BY DEF Done, Taken, Sources, InheritedDone, InheritedTaken
  <2>. QED  BY <2>1, InheritanceKept
<1>3. e \in Execution /\ IsRow(ex[e])
  BY DEF Rows, Created
<1>4. ASSUME NEW cause, ex' = [ex EXCEPT ![e] = Fails(e, cause)] PROVE FALSE
  <2>1. ex'[e] = Fails(e, cause)
    BY <1>3, <1>4, WritesOne
  <2>. QED  BY <1>3, <2>1 DEF Fails, Runnable, IsRow
<1>5. ASSUME NEW status, NEW done, NEW taken, NEW next,
             ex' = [ex EXCEPT ![e] = [ex[e] EXCEPT !.status = status, !.done = done, !.taken = taken,
                                                   !.checkpoint = TRUE, !.frontier = next]]
      PROVE  /\ ex'[e].done = done /\ ex'[e].taken = taken /\ ex'[e].frontier = next
  <2>1. ex'[e] = [ex[e] EXCEPT !.status = status, !.done = done, !.taken = taken,
                               !.checkpoint = TRUE, !.frontier = next]
    BY <1>3, <1>5, WritesOne
  <2>. QED  BY <1>3, <2>1 DEF IsRow
<1>6. CASE RunLinear(e)
  <2>1. PICK now, status :
          /\ Linear(definition)
          /\ ex' = [ex EXCEPT ![e] =
                      [ex[e] EXCEPT !.status = status,
                                    !.done = ex[e].done \union now,
                                    !.checkpoint = TRUE,
                                    !.frontier = NextLinear(definition, Done(e) \union now)]]
    BY <1>6 DEF RunLinear
  <2>2. [ex[e] EXCEPT !.status = status, !.done = ex[e].done \union now, !.checkpoint = TRUE,
                      !.frontier = NextLinear(definition, Done(e) \union now)]
        = [ex[e] EXCEPT !.status = status, !.done = ex[e].done \union now, !.taken = ex[e].taken,
                        !.checkpoint = TRUE,
                        !.frontier = NextLinear(definition, Done(e) \union now)]
    BY <1>3 DEF IsRow
  <2>. DEFINE done == ex[e].done \union now
              taken == ex[e].taken
              next == NextLinear(definition, Done(e) \union now)
  <2>3. ex' = [ex EXCEPT ![e] = [ex[e] EXCEPT !.status = status, !.done = done, !.taken = taken,
                                              !.checkpoint = TRUE, !.frontier = next]]
    BY <2>1, <2>2
  <2>. HIDE DEF done, taken, next
  <2>4. ex'[e].done = done /\ ex'[e].frontier = next
    BY <1>5, <2>3
  <2>5. Done(e)' = Done(e) \union now
    BY <1>1, <1>2, <2>4 DEF done
  <2>. QED  BY <2>1, <2>4, <2>5 DEF Plannable, Frontier, next
<1>7. ASSUME NEW n, NEW selected, ~ Linear(definition), RunNode(e, n, selected)
      PROVE  /\ Plannable(definition, Done(e)')
             /\ ex'[e].frontier = Frontier(definition, Done(e)', Taken(e)')
  <2>1. ~ PlanFails(definition, Done(e) \union {n})
    BY <1>4, <1>7 DEF RunNode
  <2>. DEFINE next == PlanFrontier(definition, Done(e) \union {n}, Taken(e) \union selected)
              status == IF next = {} THEN "completed" ELSE "running"
  <2>2. ex' = [ex EXCEPT ![e] =
                 [ex[e] EXCEPT !.status = status, !.done = ex[e].done \union {n},
                               !.taken = ex[e].taken \union selected,
                               !.checkpoint = TRUE, !.frontier = next]]
    BY <1>7, <2>1 DEF RunNode
  <2>. HIDE DEF next, status
  <2>3. /\ ex'[e].done = ex[e].done \union {n} /\ ex'[e].taken = ex[e].taken \union selected
        /\ ex'[e].frontier = next
    BY <1>5, <2>2
  <2>4. Done(e)' = Done(e) \union {n} /\ Taken(e)' = Taken(e) \union selected
    BY <1>1, <1>2, <2>3
  <2>. QED  BY <1>7, <2>1, <2>3, <2>4 DEF Plannable, Frontier, next
<1>8. RunLinear(e) \/ (~ Linear(definition) /\ \E n, selected : RunNode(e, n, selected))
  BY <1>4 DEF WorkerRuns, RunDag, RefuseFrontier
<1>. QED  BY <1>6, <1>7, <1>8

(* Every step keeps that frontiers are the plan of the facts of their execution. *)
LEMMA PlannedStep ==
  ASSUME Rows, Sourced, Unframed, RepairsHold, FrontiersFollowThePlan, [OpNext]_opVars
  PROVE  FrontiersFollowThePlan'
<1>. SUFFICES ASSUME NEW e \in Created', Runnable(e)', Done(e)' # {}, ~ Overrun(e)'
              PROVE  /\ Plannable(definition, Done(e)')
                     /\ ex'[e].frontier = Frontier(definition, Done(e)', Taken(e)')
  BY StepCases DEF FrontiersFollowThePlan
<1>1. /\ Done(e)' = ex'[e].done \union InheritedDone(e)'
      /\ Taken(e)' = ex'[e].taken \union InheritedTaken(e)'
  BY DEF Done, Taken, Sources, InheritedDone, InheritedTaken
<1>2. ex'[e].status \in {"pending", "running"} /\ ex'[e].frontier # {} /\ ~ ex'[e].overrun
  BY DEF Runnable, Overrun, Sources
<1>3. CASE e \in Created
  <2>1. /\ Done(e) = ex[e].done \union InheritedDone(e)
        /\ Taken(e) = ex[e].taken \union InheritedTaken(e)
    BY Facts
  <2>2. ~ Overrun(e) /\ InheritedDone(e)' = InheritedDone(e) /\ InheritedTaken(e)' = InheritedTaken(e)
    BY <1>3, InheritanceKept
  <2>3. ASSUME ex'[e].done = ex[e].done, ex'[e].taken = ex[e].taken,
               ex'[e].frontier = ex[e].frontier, ex[e].status \in {"pending", "running"}
        PROVE  /\ Plannable(definition, Done(e)')
               /\ ex'[e].frontier = Frontier(definition, Done(e)', Taken(e)')
    <3>1. Done(e)' = Done(e) /\ Taken(e)' = Taken(e) /\ Runnable(e)
      BY <1>1, <1>2, <2>1, <2>2, <2>3 DEF Runnable
    <3>. QED  BY <1>3, <2>2, <2>3, <3>1 DEF FrontiersFollowThePlan
  <2>4. CASE ex'[e] = ex[e]
    BY <1>2, <2>3, <2>4
  <2>5. CASE Starts(e)
    <3>1. e \in Execution /\ IsRow(ex[e]) /\ ex'[e] = [ex[e] EXCEPT !.status = "running"]
      BY <1>3, <2>5, WritesOne DEF Starts, Rows, Created
    <3>2. ex[e].status = "pending"
      BY <2>5 DEF Starts
    <3>. QED  BY <2>3, <3>1, <3>2 DEF IsRow
  <2>6. CASE WorkerRuns(e)
    BY <1>3, <2>6, WorkerPlans
  <2>7. ASSUME NEW s \in Scanner, NEW f \in Execution, Repairs(s, f), e \in ResumesOf(f), Reframes(e, f)
        PROVE  /\ Plannable(definition, Done(e)')
               /\ ex'[e].frontier = Frontier(definition, Done(e)', Taken(e)')
    <3>1. ~ ex[e].framed
      BY <2>7 DEF RepairsHold, Repairs, None, Execution
    <3>2. ex[e].done = {} /\ ex[e].taken = {}
      BY <1>2, <1>3, <2>7, <3>1 DEF Unframed, Bare, Reframes, Ended
    <3>3. InheritedDone(e) = ex[f].done /\ InheritedTaken(e) = ex[f].taken
      BY <2>7 DEF InheritedDone, InheritedTaken, ResumesOf, None, Execution
    <3>4. Done(e)' = ex[f].done /\ Taken(e)' = ex[f].taken
      BY <1>1, <2>2, <2>7, <3>2, <3>3 DEF Reframes
    <3>. QED  BY <2>7, <3>4 DEF Reframes, Bootstrappable
  <2>8. \/ ex'[e] = ex[e] \/ Starts(e) \/ WorkerRuns(e)
        \/ \E s \in Scanner, f \in Execution : Repairs(s, f) /\ e \in ResumesOf(f) /\ Reframes(e, f)
    <3>1. e \in Execution /\ (Room => e # Next1)
      BY <1>3, NextIsNew DEF Created
    <3>2. ~ Stopped(e)
      BY <1>2 DEF Stopped, Ended
    <3>3. \A x : Writes(x) => x = e \/ ex'[e] = ex[e]
      BY <3>1 DEF Writes
    <3>. QED  BY <3>1, <3>2, <3>3, StepCases DEF Changes, Reframes
  <2>. QED  BY <2>4, <2>5, <2>6, <2>7, <2>8
<1>4. CASE e \notin Created
  <2>1. PICK f \in Execution : e = Next1 /\ Resumes(f) /\ ex'[e].source = f /\ ex'[f] = ex[f]
    BY <1>2, <1>4, RowsMove, NewExecution
  <2>2. ex'[e] # Resume(f)
    BY <1>2 DEF Resume, Fresh, Absent
  <2>3. Bootstrappable(f) /\ ex'[e] = Linked(Bootstrapped(Resume(f), f))
    BY <2>1, <2>2 DEF Resumes
  <2>4. /\ ex'[e].done = Resume(f).done \union ex[f].done
        /\ ex'[e].taken = Resume(f).taken \union ex[f].taken
        /\ ex'[e].frontier = Frontier(definition, ex[f].done, ex[f].taken)
    BY <2>3, FreshIsRow, BootstrapIsRow
  <2>5. Resume(f).done = {} /\ Resume(f).taken = {}
    BY DEF Resume, Fresh, Absent
  <2>6. InheritedDone(e)' = ex[f].done /\ InheritedTaken(e)' = ex[f].taken
    BY <2>1 DEF InheritedDone, InheritedTaken, None, Execution
  <2>7. Done(e)' = ex[f].done /\ Taken(e)' = ex[f].taken
    BY <1>1, <2>4, <2>5, <2>6
  <2>. QED  BY <2>3, <2>4, <2>7 DEF Bootstrappable
<1>. QED  BY <1>3, <1>4

-----------------------------------------------------------------------------
\* The inductive invariant.
LineageInv ==
  /\ Rows /\ Sourced /\ OneResume /\ Unframed /\ RepairsHold
  /\ Carries /\ FrontiersFollowThePlan

(* The invariant holds in every reachable state. *)
THEOREM LineageHolds == OpSpec => []LineageInv
<1>1. OpInit => LineageInv
  <2>. SUFFICES ASSUME OpInit PROVE Carries /\ FrontiersFollowThePlan
    BY FirstExecution DEF LineageInv
  <2>1. PICK scheduled \in BOOLEAN :
          ex = [e \in Execution |->
                 IF e # 1 THEN Absent
                 ELSE [Fresh EXCEPT !.framed = scheduled,
                                    !.frontier = IF scheduled THEN definition.nodes ELSE {}]]
    BY DEF OpInit, Init
  <2>2. \A e \in Execution : ex[e].source = None /\ ex[e].done = {}
    BY <2>1 DEF Fresh, Absent
  <2>3. \A e \in Execution : Done(e) = {}
    BY <2>2, Facts DEF InheritedDone
  <2>. QED  BY <2>2, <2>3 DEF Carries, FrontiersFollowThePlan, Created
<1>2. LineageInv /\ [OpNext]_opVars => LineageInv'
  BY RowsStep, SourcedStep, OneResumeStep, UnframedStep, RepairsHoldStep, CarriesStep, PlannedStep
     DEF LineageInv
<1>. QED  BY <1>1, <1>2, PTL DEF OpSpec

(* Two scans, a request and an operator that resume the same failure make one resume, *)
(* whatever happens between the lookup of its key and its commit.                     *)
THEOREM FailuresResumeOnce == OpSpec => []OneResumePerFailure
<1>1. LineageInv => OneResumePerFailure
  <2>. SUFFICES ASSUME LineageInv, NEW e \in Execution PROVE Cardinality(ResumesOf(e)) <= 1
    BY DEF OneResumePerFailure
  <2>1. \A q, r \in ResumesOf(e) : q = r
    BY DEF LineageInv, OneResume, ResumesOf, None, Execution
  <2>2. CASE ResumesOf(e) = {}
    BY <2>2, FS_EmptySet
  <2>3. ASSUME NEW r \in ResumesOf(e) PROVE Cardinality(ResumesOf(e)) <= 1
    <3>1. ResumesOf(e) = {r}
      BY <2>1, <2>3
    <3>. QED  BY <3>1, FS_Singleton
  <2>. QED  BY <2>2, <2>3
<1>. QED  BY <1>1, LineageHolds, PTL

(* A resume with a frontier has every node its source completed, whoever created it and *)
(* whoever gave it its frontier.                                                        *)
THEOREM ResumesAreWhole == OpSpec => []ResumesCarryTheWork
<1>1. LineageInv => ResumesCarryTheWork
  BY DEF LineageInv, Carries, ResumesCarryTheWork
<1>. QED  BY <1>1, LineageHolds, PTL

(* The frontier a worker meets is the plan of the facts it loads. *)
THEOREM PlansAreCurrent == OpSpec => []FrontiersFollowThePlan
<1>1. LineageInv => FrontiersFollowThePlan
  BY DEF LineageInv
<1>. QED  BY <1>1, LineageHolds, PTL

(* An execution that has ended stays so, whoever still writes to it. *)
THEOREM EndedIsEnded == OpSpec => EndedExecutionsStay
<1>1. LineageInv /\ [OpNext]_opVars =>
        [\A e \in Execution : ex[e].status \in Ended => ex'[e].status \in Ended]_vars
  <2>. SUFFICES ASSUME LineageInv, [OpNext]_opVars, NEW e \in Execution, ex[e].status \in Ended
                PROVE  ex'[e].status \in Ended
    OBVIOUS
  <2>1. e \in Created
    BY DEF Created, Ended
  <2>. QED  BY <2>1, RowsMove DEF LineageInv, Grows
<1>. QED  BY <1>1, LineageHolds, PTL DEF OpSpec, EndedExecutionsStay
==============================================================================
