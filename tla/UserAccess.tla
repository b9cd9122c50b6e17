----------------------------- MODULE UserAccess -----------------------------
(***************************************************************************)
(* Platform accounts, access requests and their administration             *)
(* (auth/repository.py, auth/service.py, live/api_security.py and          *)
(* live/api_routes/admin.py) with authorization enforced.                  *)
(*                                                                         *)
(* An account and a request are unique by their e-mail, and neither is     *)
(* ever deleted, so the e-mail stands for their uuids. The middleware      *)
(* authorizes a request, then the handler writes, then it records the      *)
(* audit events: three transactions, with other requests between them.     *)
(* The trading mode, checked against the role only, is left out.           *)
(***************************************************************************)
EXTENDS Naturals, Sequences

CONSTANTS
    Emails,     \* e-mail addresses
    Subjects,   \* subjects of the identity provider
    Bootstrap,  \* config.bootstrap_admin_emails
    Callers,    \* administrators' requests in progress at once
    Roles,      \* roles an administrator gives; "admin" among them
    Statuses,   \* statuses an administrator gives; "active" among them
    Crashes     \* bound on crashes of the API process

ASSUME AccessAssumption ==
    /\ Bootstrap \subseteq Emails /\ Bootstrap # {}
    /\ "admin" \in Roles /\ "active" \in Statuses
    /\ Crashes \in Nat

VARIABLES
    account,  \* app_users by e-mail
    request,  \* app_user_requests by e-mail
    audit,    \* audit_events that tell of a created user, an approved request
    provider, \* the e-mail the identity provider vouches for, by subject
    up,       \* the API process runs
    task,     \* what each administrator's request has done
    crashes   \* crashes so far

database == <<account, request, audit>>
accessVars == <<database, provider, up, task, crashes>>

None == "none"
NoAccount == [subject |-> None, role |-> None, status |-> None]
NoRequest == [subject |-> None, status |-> None]
Registered(e) == account[e] # NoAccount

Rest == [op |-> "idle"]
Assign(t, w) == task' = [task EXCEPT ![t] = w]

\* require_permission(user, "admin.users.manage").
IsAdmin(e) == account[e].role = "admin" /\ account[e].status = "active"
------------------------------------------------------------------------------
\* Mutant: the account of the e-mail is taken whoever it is bound to.
MayBindAnyone(e) == Registered(e)

\* The account of the identity's e-mail is free for its subject.
MayBind(e) == Registered(e) /\ account[e].subject = None

\* resolve_identity: the account bound to the subject; else the account of
\* the e-mail, which is bound now.
Bound(s) == {e \in Emails : account[e].subject = s}
Resolved(s) ==
    IF Bound(s) # {} THEN Bound(s)
    ELSE {provider[s]} \cap {e \in Emails : MayBind(e)}

\* authorize_api_requests for a route of the administrators: the binding
\* stays even when the permission is refused.
Authorize(t, s) ==
    /\ up /\ task[t] = Rest
    /\ \E e \in Resolved(s) :
          /\ account' = [account EXCEPT ![e].subject = s]
          /\ IF IsAdmin(e) THEN Assign(t, [op |-> "admin", actor |-> e])
             ELSE UNCHANGED task
    /\ UNCHANGED <<request, audit, provider, up, crashes>>

\* The handler has committed; append_audit_event follows, once per event.
Audited(t, events) == Assign(t, [op |-> "audit", events |-> events])

\* The events of an account that answers a request.
ApprovalEvents(e) == <<<<"created", e>>, <<"approved", e>>>>

\* create_user: also approves the pending request of that e-mail. The
\* handler's ValueError for a registered e-mail changes nothing.
CreateUser(t, e, r, st) ==
    /\ task[t].op = "admin"
    /\ IF Registered(e)
       THEN Assign(t, Rest) /\ UNCHANGED <<account, request>>
       ELSE /\ account' = [account EXCEPT ![e] =
                 [subject |-> None, role |-> r, status |-> st]]
            /\ IF request[e].status = "pending"
               THEN /\ request' = [request EXCEPT ![e].status = "approved"]
                    /\ Audited(t, ApprovalEvents(e))
               ELSE Audited(t, <<<<"created", e>>>>) /\ UNCHANGED request
    /\ UNCHANGED <<audit, provider, up, crashes>>

\* Mutant: an administrator may also demote itself.
UpdateRefusedNever(actor, e, r, st) == ~Registered(e)

\* update_admin_user refuses to disable or demote the caller's own account.
UpdateRefused(actor, e, r, st) ==
    \/ e = actor /\ ~(r = "admin" /\ st = "active")
    \/ ~Registered(e)

UpdateUser(t, e, r, st) ==
    /\ task[t].op = "admin"
    /\ account' = IF UpdateRefused(task[t].actor, e, r, st) THEN account
                  ELSE [account EXCEPT ![e].role = r, ![e].status = st]
    /\ Assign(t, Rest)
    /\ UNCHANGED <<request, audit, provider, up, crashes>>

\* The INSERT of an approval fails on a registered e-mail and on a subject
\* that another account is bound to; the request stays pending.
InsertFails(e) == Registered(e) \/ Bound(request[e].subject) # {}

\* approve_access_request.
Approve(t, e) ==
    /\ task[t].op = "admin" /\ request[e] # NoRequest
    /\ IF request[e].status # "pending" \/ InsertFails(e)
       THEN Assign(t, Rest) /\ UNCHANGED <<account, request>>
       ELSE /\ account' = [account EXCEPT ![e] =
                 [subject |-> request[e].subject, role |-> "researcher",
                  status |-> "active"]]
            /\ request' = [request EXCEPT ![e].status = "approved"]
            /\ Audited(t, ApprovalEvents(e))
    /\ UNCHANGED <<audit, provider, up, crashes>>

\* reject_access_request.
Reject(t, e) ==
    /\ task[t].op = "admin" /\ request[e] # NoRequest
    /\ request' = IF request[e].status = "pending"
                  THEN [request EXCEPT ![e].status = "rejected"] ELSE request
    /\ Assign(t, Rest)
    /\ UNCHANGED <<account, audit, provider, up, crashes>>

\* append_audit_event: one event, one transaction.
AppendAudit(t) ==
    LET events == task[t].events
    IN  /\ task[t].op = "audit"
        /\ audit' = audit \cup {Head(events)}
        /\ Assign(t, IF Len(events) = 1 THEN Rest
                     ELSE [op |-> "audit", events |-> Tail(events)])
        /\ UNCHANGED <<account, request, provider, up, crashes>>

\* submit_access_request: any identity may ask, again after a rejection too.
Submit(s) ==
    LET e == provider[s]
    IN  /\ up /\ ~Registered(e)
        /\ request' = [request EXCEPT ![e] =
               [subject |-> s, status |-> "pending"]]
        /\ UNCHANGED <<account, audit, provider, up, task, crashes>>

\* External: the provider vouches for another e-mail of the subject.
ChangeEmail(s, e) ==
    /\ provider' = [provider EXCEPT ![s] = e]
    /\ UNCHANGED <<database, up, task, crashes>>

\* bootstrap_admins when the API starts. A bootstrap e-mail registered with
\* another role makes it raise; a suspended administrator stays suspended.
Start ==
    /\ ~up
    /\ \A e \in Bootstrap : Registered(e) => account[e].role = "admin"
    /\ account' = [e \in Emails |->
           IF e \in Bootstrap /\ ~Registered(e)
           THEN [subject |-> None, role |-> "admin", status |-> "active"]
           ELSE account[e]]
    /\ up' = TRUE
    /\ UNCHANGED <<request, audit, provider, task, crashes>>

\* The process dies, and its requests with it.
Crash ==
    /\ up /\ crashes < Crashes
    /\ crashes' = crashes + 1
    /\ up' = FALSE
    /\ task' = [t \in Callers |-> Rest]
    /\ UNCHANGED <<database, provider>>

AccessInit ==
    /\ account = [e \in Emails |-> NoAccount]
    /\ request = [e \in Emails |-> NoRequest]
    /\ audit = {}
    /\ provider \in [Subjects -> Emails]
    /\ up = FALSE
    /\ task = [t \in Callers |-> Rest]
    /\ crashes = 0

AccessNext ==
    \/ \E t \in Callers :
          \/ \E s \in Subjects : Authorize(t, s)
          \/ \E e \in Emails, r \in Roles, st \in Statuses :
                CreateUser(t, e, r, st) \/ UpdateUser(t, e, r, st)
          \/ \E e \in Emails : Approve(t, e) \/ Reject(t, e)
          \/ AppendAudit(t)
    \/ \E s \in Subjects : Submit(s) \/ \E e \in Emails : ChangeEmail(s, e)
    \/ Start \/ Crash

AccessSpec == AccessInit /\ [][AccessNext]_accessVars
------------------------------------------------------------------------------
(* Properties *)

\* Two accounts are never bound to the same subject, whichever way each came
\* by its binding: the approval of a request or the first visit.
OneAccountPerSubject ==
    \A e, f \in Emails :
        account[e].subject = account[f].subject /\ account[e].subject # None
            => e = f

\* An account stays with the subject it was bound to: whoever is given its
\* e-mail address later does not get the account.
SubjectFixed ==
    [][\A e \in Emails : account[e].subject # None =>
          account'[e].subject = account[e].subject]_accessVars

HasAdmin == \E e \in Emails : IsAdmin(e)

StaleRequest ==
    \E t \in Callers : /\ task[t].op = "admin" /\ task'[t] # task[t]
                       /\ ~IsAdmin(task[t].actor)

KeepsAdmin == HasAdmin /\ ~HasAdmin' => StaleRequest

\* The platform loses its last active administrator only to a request whose
\* own caller had lost that authority after the middleware checked it: two
\* administrators who demote each other at the same time.
AdminLostOnlyByStale == [][KeepsAdmin]_accessVars
=============================================================================
