---------------------------- MODULE StreamWorkflow --------------------------
(***************************************************************************)
(* Approval requests for streams (api/services/streamWorkflowService.js    *)
(* and its routes).  A request is named by the millisecond it was made in: *)
(* two of one millisecond share the name and the later one replaces the    *)
(* earlier.                                                                *)
(***************************************************************************)
EXTENDS Naturals, Sequences, FiniteSets

CONSTANTS
    NoRequest,
    People,            \* addresses, listed as approvers or not
    Requirements,      \* requiredApprovals of a body: nothing checks it
    MaxTrail,          \* bound: entries of an audit trail
    FlowClock          \* bound: milliseconds

Request == [requiredApprovals: Requirements,
            status: {"pending", "approved", "rejected", "overridden"},
            auditTrail: Seq([actor: People, action: {"requested", "approved", "rejected", "overridden"}])]

ASSUME FlowAssumption == NoRequest \notin Request /\ Requirements \subseteq Nat /\ FlowClock \in Nat

VARIABLES
    approvals,         \* _requests: by the millisecond in the id
    flow_clock

flow_vars == <<approvals, flow_clock>>

\* Where an action stands in a trail.
Entries(trail, action) == {i \in 1..Len(trail) : trail[i].action = action}

Entry(actor, action) == [actor |-> actor, action |-> action]

createApprovalRequest(requestedBy, required) ==
    /\ approvals' = [approvals EXCEPT ![flow_clock] =
          [requiredApprovals |-> required, status |-> "pending",
           auditTrail |-> <<Entry(requestedBy, "requested")>>]]
    /\ UNCHANGED flow_clock

findRequest(id) == approvals[id] # NoRequest

IsPending(id) == findRequest(id) /\ approvals[id].status = "pending"

Logged(id, actor, action) == Append(approvals[id].auditTrail, Entry(actor, action))

\* Mutant: a decided request is approved again.
Open_anyStatus(id) == findRequest(id)

\* approve and reject return a decided request as it is.
Open(id) == IsPending(id)

\* Every approval counts, also a second one by the same address and one by an
\* address that is no approver.
approveApprovalRequest(id, approver) ==
    LET trail == Logged(id, approver, "approved")
    IN  /\ Open(id)
        /\ Len(trail) <= MaxTrail
        /\ approvals' = [approvals EXCEPT
              ![id].auditTrail = trail,
              ![id].status = IF Cardinality(Entries(trail, "approved")) >= approvals[id].requiredApprovals
                             THEN "approved" ELSE @]
        /\ UNCHANGED flow_clock

rejectApprovalRequest(id, approver) ==
    /\ Open(id)
    /\ Len(approvals[id].auditTrail) < MaxTrail
    /\ approvals' = [approvals EXCEPT ![id].auditTrail = Logged(id, approver, "rejected"),
                                      ![id].status = "rejected"]
    /\ UNCHANGED flow_clock

\* Whatever the status.
overrideApprovalRequest(id, actor) ==
    /\ findRequest(id)
    /\ Len(approvals[id].auditTrail) < MaxTrail
    /\ approvals' = [approvals EXCEPT ![id].auditTrail = Logged(id, actor, "overridden"),
                                      ![id].status = "overridden"]
    /\ UNCHANGED flow_clock

flowTick == flow_clock < FlowClock /\ flow_clock' = flow_clock + 1 /\ UNCHANGED approvals

FlowInit == approvals = [id \in 0..FlowClock |-> NoRequest] /\ flow_clock = 0

FlowNext ==
    \/ flowTick
    \/ \E p \in People, required \in Requirements : createApprovalRequest(p, required)
    \/ \E p \in People, id \in 0..FlowClock :
          approveApprovalRequest(id, p) \/ rejectApprovalRequest(id, p) \/ overrideApprovalRequest(id, p)

FlowSpec == FlowInit /\ [][FlowNext]_flow_vars

-----------------------------------------------------------------------------
\* The status of a request is what its audit trail says, however approvals,
\* rejections, overrides and requests of the same millisecond follow each other:
\* approved by as many as required and rejected by nobody, rejected before enough
\* approved, overridden if and only if somebody did.
StatusMatchesTrail ==
    \A id \in 0..FlowClock : findRequest(id) =>
        LET r == approvals[id]
            approved == Cardinality(Entries(r.auditTrail, "approved"))
            rejected == Cardinality(Entries(r.auditTrail, "rejected"))
        IN  /\ r.status = "approved" => approved >= r.requiredApprovals /\ approved > 0 /\ rejected = 0
            /\ r.status = "rejected" => rejected = 1 /\ (approved = 0 \/ approved < r.requiredApprovals)
            /\ r.status = "overridden" <=> Entries(r.auditTrail, "overridden") # {}
=============================================================================
