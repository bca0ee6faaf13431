------------------------------- MODULE Audit -------------------------------
(***************************************************************************)
(* The audit trail of internal/audit.  Notify starts one goroutine for     *)
(* each subscriber and returns; nobody waits for them.  They run with the  *)
(* context of the HTTP request that was audited: the HTTP subscriber is    *)
(* stopped by its end, the file subscriber does not look at it.            *)
(* An event is <<r, k>>: request r and the index k of the audited item,    *)
(* 0 for the event that lists a whole batch.                               *)
(***************************************************************************)
EXTENDS Integers

CONSTANTS
    Subs,           \* subscribers in use: a subset of {"file", "http"}
    AuditMayFail    \* whether a write or a POST to the audit log may fail

ASSUME AuditAssumption ==
    /\ Subs \subseteq {"file", "http"}
    /\ AuditMayFail \in BOOLEAN

VARIABLES
    pending,        \* <<event, sub>>: goroutines that have not ended
    sent,           \* <<event, sub>> the subscriber recorded
    lost            \* <<event, sub>> whose error was printed and forgotten

auditVars == <<pending, sent, lost>>

AuditInit == pending = {} /\ sent = {} /\ lost = {}

\* Observer.Notify: one goroutine per subscriber.
Notify(r, k) ==
    /\ pending' = pending \cup {<<<<r, k>>, sub>> : sub \in Subs}
    /\ UNCHANGED <<sent, lost>>

DeliverMutant(t) ==
    /\ t \in pending
    /\ sent' = sent
    /\ pending' = pending \ {t}
    /\ lost' = lost \cup {t}

\* FileSub.Send appends a line under its mutex; HTTPSub.Send gets an answer.
Deliver(t) ==
    /\ t \in pending
    /\ sent' = sent \cup {t}
    /\ pending' = pending \ {t}
    /\ UNCHANGED lost

\* The subscriber returns an error: the handler of the request has returned
\* and its context is cancelled, or the write or the POST failed.
Drop(t, cancelled) ==
    /\ t \in pending
    /\ AuditMayFail \/ (t[2] = "http" /\ cancelled)
    /\ lost' = lost \cup {t}
    /\ pending' = pending \ {t}
    /\ UNCHANGED sent

\* The process ends with its goroutines.
AuditKilled == pending' = {} /\ UNCHANGED <<sent, lost>>
=============================================================================
