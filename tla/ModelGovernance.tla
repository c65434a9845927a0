--------------------------- MODULE ModelGovernance ---------------------------
(***************************************************************************)
(* An organization's model profiles (services/model/provider.py) and one   *)
(* workflow node that calls a model through them: the candidates resolved, *)
(* at most two of them called, every attempt traced and accounted in the   *)
(* node's own transaction (services/model/governance.py, routing.py,       *)
(* services/workflow/governance.py, services/usage_accounting/service.py). *)
(* Management requests read without a lock and may overlap each other and  *)
(* the call. The organization is active and its caller a member.           *)
(***************************************************************************)
EXTENDS Naturals, Sequences, FiniteSets, SequencesExt

CONSTANTS
    Profiles,       \* chat profiles, as numbers in the order candidates are sorted
    Providers,      \* model providers
    ProviderOf,     \* the provider each profile belongs to
    Managers,       \* management requests that overlap
    MaxEdits,       \* bound: how many management requests
    MaxRounds       \* the node's retry policy: max_attempts

ASSUME GovernanceBounds ==
    /\ Profiles \subseteq Nat /\ ProviderOf \in [Profiles -> Providers]
    /\ MaxEdits \in Nat /\ MaxRounds \in Nat

VARIABLES
    provider,       \* whether each provider exists
    profile,        \* the row of each profile
    manager,        \* the management request in each slot, with what it read
    edits,          \* management requests so far
    node,           \* the node: "idle", "running", "completed", "failed", "lost"
    modelCall,      \* its governed call: step, candidates left, how often tried
    calls,          \* how every call that reached a provider ended, in order
    usage           \* usage rows: <<which call, outcome>>, the node's own until it ends

modelVars == <<provider, profile, manager, edits, node, modelCall, calls, usage>>

NoProfile == [kind |-> "absent", default |-> FALSE]
DefaultProfile == [kind |-> "usable", default |-> TRUE]
\* A profile may be enabled with a pricing no call can be accounted by.
Kinds == {"usable", "unpriced", "disabled"}
ProfileExists(x) == profile[x].kind # "absent"
NoRequest == [op |-> "none"]
NotCalling == [step |-> "none", round |-> 0, todo |-> <<>>, tried |-> 0]

Siblings(x) == {y \in Profiles : ProviderOf[y] = ProviderOf[x]} \ {x}
Defaults(xs) == {x \in xs : profile[x].default}

\* Some defaults were made before.
ModelInit ==
    /\ provider = [p \in Providers |-> TRUE]
    /\ \E made \in SUBSET Profiles :
          /\ \A x \in made : Siblings(x) \cap made = {}
          /\ profile = [x \in Profiles |-> IF x \in made THEN DefaultProfile ELSE NoProfile]
    /\ manager = [r \in Managers |-> NoRequest]
    /\ edits = 0
    /\ node = "idle" /\ modelCall = NotCalling /\ calls = <<>> /\ usage = {}

-----------------------------------------------------------------------------
(* Management. *)
Edit == edits < MaxEdits /\ edits' = edits + 1

\* Creates or updates a profile without making it a default; a pricing that
\* cannot be read is accepted.
WriteProfile(x, kind, keep) ==
    /\ provider[ProviderOf[x]] /\ Edit
    /\ profile' = [profile EXCEPT ![x] = [kind |-> kind, default |-> keep /\ @.default]]
    /\ UNCHANGED <<provider, manager, node, modelCall, calls, usage>>

DeleteProfile(x) ==
    /\ ProfileExists(x) /\ Edit
    /\ profile' = [profile EXCEPT ![x] = NoProfile]
    /\ UNCHANGED <<provider, manager, node, modelCall, calls, usage>>

\* _clear_default reads the other defaults of the provider.
\* Mutant: a profile that is new has no one to clear.
ClearDefault_UpdateOnly(x) == IF ProfileExists(x) THEN Defaults(Siblings(x)) ELSE {}
ClearDefault(x) == Defaults(Siblings(x))
ReadDefaults(r, x) ==
    /\ manager[r] = NoRequest /\ provider[ProviderOf[x]] /\ Edit
    /\ manager' = [manager EXCEPT ![r] =
          [op |-> "default", profile |-> x, cleared |-> ClearDefault(x),
           copy |-> [exists |-> ProfileExists(x), default |-> profile[x].default,
                     others |-> Defaults(Siblings(x))]]]
    /\ UNCHANGED <<provider, profile, node, modelCall, calls, usage>>

\* The request fails when a row it would write is gone, or its new row is not new.
StaleRequest(m) ==
    \/ \E y \in m.cleared : ~ProfileExists(y)
    \/ m.copy.exists # ProfileExists(m.profile)
    \/ ~provider[ProviderOf[m.profile]]

MakeDefault(r) ==
    LET m == manager[r]
    IN /\ m.op = "default"
       /\ manager' = [manager EXCEPT ![r] = NoRequest]
       /\ profile' =
            IF StaleRequest(m) THEN profile
            ELSE [x \in Profiles |->
                    IF x \in m.cleared THEN [profile[x] EXCEPT !.default = FALSE]
                    ELSE IF x # m.profile \/ m.copy.default THEN profile[x]
                    ELSE IF ProfileExists(x) THEN [profile[x] EXCEPT !.default = TRUE]
                    ELSE DefaultProfile]
       /\ UNCHANGED <<provider, edits, node, modelCall, calls, usage>>

\* A provider is deleted when a count found no profile; its rows go with it.
CountProfiles(r, p) ==
    /\ manager[r] = NoRequest /\ provider[p] /\ Edit
    /\ \A x \in Profiles : ProviderOf[x] = p => ~ProfileExists(x)
    /\ manager' = [manager EXCEPT ![r] = [op |-> "delete", provider |-> p]]
    /\ UNCHANGED <<provider, profile, node, modelCall, calls, usage>>

DeleteProvider(r) ==
    /\ manager[r].op = "delete"
    /\ provider' = [provider EXCEPT ![manager[r].provider] = FALSE]
    /\ profile' = [x \in Profiles |->
                     IF ProviderOf[x] = manager[r].provider THEN NoProfile ELSE profile[x]]
    /\ manager' = [manager EXCEPT ![r] = NoRequest]
    /\ UNCHANGED <<edits, node, modelCall, calls, usage>>

-----------------------------------------------------------------------------
(* The governed call. *)

\* select_candidates: the profile asked for, or the defaults in order.
Candidates(asked) ==
    LET usable == {x \in Profiles : profile[x].kind \in {"usable", "unpriced"}}
    IN SetToSortSeq(IF asked # 0 THEN usable \cap {asked} ELSE Defaults(usable), <)

MaxAttempts == 2

\* The session keeps the row as it was resolved.
Candidate(x) == [profile |-> x, priced |-> profile[x].kind = "usable"]

\* The first try, or the next of the node's retry policy.
Resolve(asked) ==
    /\ \/ node = "idle"
       \/ node = "running" /\ modelCall.step = "failed" /\ modelCall.round < MaxRounds
    /\ node' = "running"
    /\ modelCall' = [step |-> IF Candidates(asked) = <<>> THEN "failed" ELSE "call",
                     round |-> modelCall.round + 1, tried |-> 0,
                     todo |-> [i \in DOMAIN Candidates(asked) |-> Candidate(Candidates(asked)[i])]]
    /\ UNCHANGED <<provider, profile, manager, edits, calls, usage>>

\* "eligible": no connection, a timeout, too many requests or a server error.
CallOutcomes == {"answer", "eligible", "fatal"}
Generate(outcome) ==
    /\ modelCall.step = "call"
    /\ calls' = Append(calls, outcome)
    /\ modelCall' = [modelCall EXCEPT !.step = "account", !.tried = @ + 1]
    /\ UNCHANGED <<provider, profile, manager, edits, node, usage>>

\* The trace finds the profile's row, and its pricing can be read.
Accountable == ProfileExists(Head(modelCall.todo).profile) /\ Head(modelCall.todo).priced

\* What follows an attempt that was accounted.
AfterAttempt(outcome) ==
    CASE outcome = "answer" -> "answered"
      [] outcome = "eligible" /\ modelCall.tried < MaxAttempts /\ Len(modelCall.todo) > 1 -> "call"
      [] OTHER -> "failed"

\* on_attempt. When accounting an answer fails, so does the attempt to account it
\* as failed: the error is no reason to fall back, and the answer is thrown away.
\* Mutant: an attempt that cannot be accounted is let through.
AccountAttempt_BestEffort ==
    LET outcome == calls[Len(calls)]
    IN /\ modelCall.step = "account"
       /\ usage' = IF Accountable THEN usage \cup {<<Len(calls), outcome>>} ELSE usage
       /\ modelCall' = [modelCall EXCEPT !.step = AfterAttempt(outcome), !.todo = Tail(@)]
       /\ UNCHANGED <<provider, profile, manager, edits, node, calls>>
AccountAttempt ==
    LET outcome == calls[Len(calls)]
    IN /\ modelCall.step = "account"
       /\ usage' = IF Accountable THEN usage \cup {<<Len(calls), outcome>>} ELSE usage
       /\ modelCall' = [modelCall EXCEPT !.step = IF Accountable THEN AfterAttempt(outcome) ELSE "failed",
                               !.todo = Tail(@)]
       /\ UNCHANGED <<provider, profile, manager, edits, node, calls>>

\* The node's timeout cancels the call where it waits: nothing is accounted.
NodeTimesOut ==
    /\ node = "running" /\ modelCall.step \in {"call", "account"}
    /\ modelCall' = [modelCall EXCEPT !.step = "failed"]
    /\ UNCHANGED <<provider, profile, manager, edits, node, calls, usage>>

\* The node's transaction commits, or takes its accounting with it.
NodeEnds(status) ==
    /\ node = "running"
    /\ \/ status = "completed" /\ modelCall.step = "answered"
       \/ status = "failed" /\ modelCall.step = "failed"
       \/ status = "lost"
    /\ node' = status
    /\ usage' = IF status = "lost" THEN {} ELSE usage
    /\ modelCall' = NotCalling
    /\ UNCHANGED <<provider, profile, manager, edits, calls>>

-----------------------------------------------------------------------------
\* What the router lets a manager do.
ManagerRequests ==
    \/ \E x \in Profiles, kind \in Kinds, keep \in BOOLEAN : WriteProfile(x, kind, keep)
    \/ \E x \in Profiles : DeleteProfile(x)
    \/ \E r \in Managers, x \in Profiles : ReadDefaults(r, x)
    \/ \E r \in Managers : MakeDefault(r) \/ DeleteProvider(r)
    \/ \E r \in Managers, p \in Providers : CountProfiles(r, p)

ModelNext ==
    \/ ManagerRequests
    \/ \E asked \in Profiles \cup {0} : Resolve(asked)
    \/ \E outcome \in CallOutcomes : Generate(outcome)
    \/ AccountAttempt
    \/ NodeTimesOut
    \/ \E status \in {"completed", "failed", "lost"} : NodeEnds(status)

ModelSpec == ModelInit /\ [][ModelNext]_modelVars

-----------------------------------------------------------------------------
(* One record for each governed provider attempt (docs/02-phases/PHASE_2_3.md:81),
   as far as the code keeps it: no usage row tells anything but what the
   provider did, and a completed node's answer is accounted, whatever managers
   do to the profile and its price while the call is out. *)
AnswersAreBilled ==
    /\ \A u \in usage : u[1] \in DOMAIN calls /\ calls[u[1]] = u[2]
    /\ node = "completed" => <<Len(calls), "answer">> \in usage

(* A provider gets a second default only by a request that read its defaults
   before another request wrote one (services/model/provider.py:228-237). *)
SecondDefaultsAreRaces ==
    [][\A x \in Profiles : \A y \in Siblings(x) :
          (~(profile[x].default /\ profile[y].default) /\ profile'[x].default /\ profile'[y].default)
             => \E r \in Managers : /\ manager[r].op = "default" /\ manager[r].profile \in {x, y}
                                    /\ manager[r].copy.others # Defaults(Siblings(manager[r].profile))]_modelVars
=============================================================================
