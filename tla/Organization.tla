---------------------------- MODULE Organization ----------------------------
(***************************************************************************)
(* Memberships of one organization (services/organization/service.py,      *)
(* called one to one by api/v1/organizations/router.py).  Every request    *)
(* reads the rows it decides on without a lock and writes in a later       *)
(* statement: reading and writing are two steps here.  Only the transfer   *)
(* of ownership locks the memberships - but keeps its first, unlocked copy *)
(* of the actor's row, which the session's identity map does not refresh.  *)
(***************************************************************************)
CONSTANTS
    Users,      \* the users of the tenant, all active
    Requests    \* request slots: how many requests overlap

VARIABLES
    org,        \* the organization's status, "none" before it is created
    role,       \* role column of each user's membership row
    status,     \* its status column; "none": no row
    request     \* what each open request has read and is about to write

vars == <<org, role, status, request>>

ROLES == {"owner", "admin", "member"}
MANAGEMENT_ROLES == {"owner", "admin"}
STATUSES == {"active", "suspended", "removed"}
Keep == "keep"                        \* a field the payload leaves out
Idle == [op |-> "idle"]

Owners == {u \in Users : role[u] = "owner" /\ status[u] = "active"}

\* Users whom require_management_access lets through.
Managers == {u \in Users : status[u] = "active" /\ role[u] \in MANAGEMENT_ROLES}

\* Updates only emit the columns that differ from the copy that was read.
Written(old, copy, new) == IF new \in {Keep, copy} THEN old ELSE new

Init == /\ org = "none"
        /\ role = [u \in Users |-> "member"]
        /\ status = [u \in Users |-> "none"]
        /\ request = [r \in Requests |-> Idle]

Open(r, op) == request[r] = Idle /\ request' = [request EXCEPT ![r] = op]
                                 /\ UNCHANGED <<org, role, status>>
Close(r) == request' = [request EXCEPT ![r] = Idle]

-----------------------------------------------------------------------------
(* Creating the organization: one per tenant by a unique constraint. *)
Create(u) == /\ org = "none"
             /\ org' = "active"
             /\ role' = [role EXCEPT ![u] = "owner"]
             /\ status' = [status EXCEPT ![u] = "active"]
             /\ UNCHANGED request

(* Suspending and reactivating it: no other operation but a transfer looks. *)
ReadUpdate(r) == \E a \in Managers, s \in {"active", "suspended"} :
                    Open(r, [op |-> "update", copy |-> org, new |-> s])
Update(r) == /\ request[r].op = "update"
             /\ org' = Written(org, request[r].copy, request[r].new)
             /\ Close(r) /\ UNCHANGED <<role, status>>

(* A new member is never an owner; the unique constraint refuses a second row. *)
ReadAdd(r) == \E a \in Managers, u \in Users, ro \in ROLES \ {"owner"} :
                 status[u] = "none" /\ Open(r, [op |-> "add", target |-> u, role |-> ro])
AddMember(r) ==
    /\ request[r].op = "add"
    /\ LET u == request[r].target IN
       IF status[u] = "none"
       THEN role' = [role EXCEPT ![u] = request[r].role] /\ status' = [status EXCEPT ![u] = "active"]
       ELSE UNCHANGED <<role, status>>
    /\ Close(r) /\ UNCHANGED org

(* _ensure_owner_remains: with several other owners the query itself fails. *)
OwnerRemains(u) == \E o \in Users : Owners \ {u} = {o}

MayChange(a, u, ro, st) ==
    /\ status[u] # "none"
    /\ role[u] = "owner" => role[a] = "owner"
    /\ role[u] = "owner" /\ (ro \in {"admin", "member"} \/ st \in {"suspended", "removed"}) => OwnerRemains(u)

ReadChange(r) ==
    \E a \in Managers, u \in Users, ro \in {Keep, "admin", "member"}, st \in STATUSES \cup {Keep} :
       /\ MayChange(a, u, ro, st)
       /\ Open(r, [op |-> "change", target |-> u, role |-> ro, status |-> st,
                   copy |-> [role |-> role[u], status |-> status[u]]])
UpdateMember(r) ==
    /\ request[r].op = "change"
    /\ LET q == request[r] IN
       /\ role' = [role EXCEPT ![q.target] = Written(@, q.copy.role, q.role)]
       /\ status' = [status EXCEPT ![q.target] = Written(@, q.copy.status, q.status)]
    /\ Close(r) /\ UNCHANGED org

(* DELETE of a member only sets its status. *)
ReadRemove(r) ==
    \E a \in Managers, u \in Users :
       /\ MayChange(a, u, Keep, "removed")
       /\ Open(r, [op |-> "remove", target |-> u, copy |-> status[u]])
RemoveMember(r) ==
    /\ request[r].op = "remove"
    /\ LET q == request[r] IN
       status' = [status EXCEPT ![q.target] = Written(@, q.copy, "removed")]
    /\ Close(r) /\ UNCHANGED <<org, role>>

(* The actor was an active owner of an active organization when it was read;
   under the lock all other rows are fresh, the actor's stays that copy. *)
ReadTransfer(r) ==
    \E a \in Owners, u \in Users :
       org = "active" /\ Open(r, [op |-> "transfer", actor |-> a, target |-> u])
SeenByTransfer(a) == (Owners \ {a}) \cup {a}
TransferOwner(r) ==
    /\ request[r].op = "transfer"
    /\ LET a == request[r].actor
           u == request[r].target
       IN IF u # a /\ status[u] = "active" /\ SeenByTransfer(a) = {a}
          THEN role' = [role EXCEPT ![a] = "admin", ![u] = "owner"]
          ELSE UNCHANGED role
    /\ Close(r) /\ UNCHANGED <<org, status>>

\* The router's requests: each is one call of the service in a session of its own.
OrganizationRequest(r) ==
    \/ ReadUpdate(r) \/ Update(r)
    \/ ReadAdd(r) \/ AddMember(r)
    \/ ReadChange(r) \/ UpdateMember(r)
    \/ ReadRemove(r) \/ RemoveMember(r)
    \/ ReadTransfer(r) \/ TransferOwner(r)

Next == \/ \E u \in Users : Create(u)
        \/ \E r \in Requests : OrganizationRequest(r)

Spec == Init /\ [][Next]_vars

-----------------------------------------------------------------------------
(* An organization is never left without an active owner: "the only owner
   cannot be removed or demoted, transfer the ownership first"
   (service.py:435). *)
AnOwnerRemains == org # "none" => Owners # {}
=============================================================================
