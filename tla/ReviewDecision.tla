--------------------------- MODULE ReviewDecision ---------------------------
(***************************************************************************)
(* The human review of one investigation: pages that prepare, confirm,     *)
(* retry and look up a decision (ReviewPanel.tsx) and the API handlers     *)
(* that serialize on the investigation row (put_review, get_review), over  *)
(* a network that loses requests and answers.  There is one configured     *)
(* reviewer (auth.py); a decision stands for decision and comment.         *)
(***************************************************************************)
EXTENDS Naturals, FiniteSets

CONSTANTS
  Page,       \* browser tabs with the investigation open
  Decision,   \* contents of a review
  Handler,    \* API threads
  MaxFaults,  \* bound: failed calls and handlers that die
  NULL

ASSUME ReviewAssumption ==
  /\ MaxFaults \in Nat
  /\ NULL \notin Page \cup Decision

VARIABLES
  status,   \* of the investigation
  review,   \* its review, or NULL
  logged,   \* its INVESTIGATION_REVIEWED audit events
  panel,    \* page -> the state of its review panel
  net,      \* requests on their way to the API
  replies,  \* answers on their way to a page
  handler,  \* handler -> where it is and what it read
  faults

db   == <<status, review, logged>>
vars == <<db, panel, net, replies, handler, faults>>

Kinds == {"PUT", "GET"}
Requests == [from: Page \cup {NULL}, kind: Kinds, decision: Decision \cup {NULL}]

IdleHandler == [pc |-> "IDLE", req |-> NULL, existing |-> NULL, seen |-> "RUNNING"]

(* seen: the status the page last fetched; waits: its calls in flight.     *)
FreshPanel == [seen |-> "RUNNING", prepared |-> NULL, waits |-> {}, shown |-> NULL,
               conflict |-> FALSE]

Init ==
  /\ status = "RUNNING" /\ review = NULL /\ logged = 0
  /\ panel = [p \in Page |-> FreshPanel]
  /\ net = {} /\ replies = {}
  /\ handler = [h \in Handler |-> IdleHandler]
  /\ faults = 0

-----------------------------------------------------------------------------
(* The page.                                                               *)

Set(p, new) == panel' = [panel EXCEPT ![p] = new]
Request(p, kind, d) == [from |-> p, kind |-> kind, decision |-> d]

(* The investigation query of the page polls, or refetches on focus.       *)
Refetch(p) ==
  /\ panel[p].seen # status
  /\ Set(p, [panel[p] EXCEPT !.seen = status])
  /\ UNCHANGED <<db, net, replies, handler, faults>>

(* What the panel offers: the form, the confirmation, or the look-up.      *)
Form(s)         == s.shown = NULL /\ s.seen = "AWAITING_REVIEW" /\ s.prepared = NULL
Confirmation(s) == s.shown = NULL /\ s.seen = "AWAITING_REVIEW" /\ s.prepared # NULL
LookUp(s)       == s.shown = NULL /\ s.seen = "COMPLETED"

Prepare(p, d) ==
  /\ Form(panel[p])
  /\ Set(p, [panel[p] EXCEPT !.prepared = d, !.conflict = FALSE])
  /\ UNCHANGED <<db, net, replies, handler, faults>>

Back(p) ==
  /\ Confirmation(panel[p]) /\ panel[p].waits = {}
  /\ Set(p, [panel[p] EXCEPT !.prepared = NULL])
  /\ UNCHANGED <<db, net, replies, handler, faults>>

(* Submit, and retry with the exact same request.                          *)
Confirm(p) ==
  /\ Confirmation(panel[p]) /\ panel[p].waits = {}
  /\ Set(p, [panel[p] EXCEPT !.waits = {"PUT"}])
  /\ net' = net \cup {Request(p, "PUT", panel[p].prepared)}
  /\ UNCHANGED <<db, replies, handler, faults>>

LoadExisting(p) ==
  /\ LookUp(panel[p]) /\ "GET" \notin panel[p].waits
  /\ Set(p, [panel[p] EXCEPT !.waits = @ \cup {"GET"}, !.conflict = FALSE])
  /\ net' = net \cup {Request(p, "GET", NULL)}
  /\ UNCHANGED <<db, replies, handler, faults>>

(* Mutant: the existing review is not fetched.                             *)
OnConflictStop(p, s) ==
  /\ Set(p, [s EXCEPT !.waits = @ \ {"PUT"}, !.conflict = TRUE])
  /\ UNCHANGED net

(* submitMutation's onError for a 409: show the review that is there.      *)
OnConflict(p, s) ==
  /\ Set(p, [s EXCEPT !.waits = {"GET"}, !.conflict = TRUE])
  /\ net' = net \cup {Request(p, "GET", NULL)}

TakeReply(p, r) ==
  LET s == panel[p] IN
  /\ r.to = p
  /\ \/ /\ r.kind = "PUT" /\ r.code = "OK"
        /\ Set(p, [s EXCEPT !.shown = r.review, !.prepared = NULL, !.conflict = FALSE,
                            !.waits = @ \ {"PUT"}])
        /\ UNCHANGED net
     \/ r.kind = "PUT" /\ r.code = "CONFLICT" /\ OnConflict(p, s)
     \/ /\ r.kind = "GET"
        /\ Set(p, [s EXCEPT !.shown = r.review, !.waits = @ \ {"GET"}])
        /\ UNCHANGED net
  /\ replies' = replies \ {r}
  /\ UNCHANGED <<db, handler, faults>>

(* Nobody listens to calls of these kinds of page p any more; the requests *)
(* may still arrive and be carried out.                                    *)
Orphan(req, p, kinds) ==
  IF req.from = p /\ req.kind \in kinds THEN [req EXCEPT !.from = NULL] ELSE req
HangUp(p, kinds) ==
  /\ net' = {Orphan(m, p, kinds) : m \in net}
  /\ replies' = {r \in replies : r.to # p \/ r.kind \notin kinds}
  /\ handler' = [h \in Handler |->
       IF handler[h].pc = "IDLE" THEN handler[h]
       ELSE [handler[h] EXCEPT !.req = Orphan(@, p, kinds)]]

(* No answer, 401 or 503: what was prepared stays as it is.                *)
CallFails(p, kind) ==
  /\ kind \in panel[p].waits /\ faults < MaxFaults
  /\ HangUp(p, {kind})
  /\ Set(p, [panel[p] EXCEPT !.waits = @ \ {kind}])
  /\ faults' = faults + 1
  /\ UNCHANGED db

(* The user reloads the page: its state and its cache are gone.            *)
Reload(p) ==
  /\ panel[p] # FreshPanel
  /\ HangUp(p, Kinds)
  /\ Set(p, FreshPanel)
  /\ UNCHANGED <<db, faults>>

(* The reviewer puts a decision with a script, at any moment.              *)
Script(d) ==
  /\ net' = net \cup {Request(NULL, "PUT", d)}
  /\ UNCHANGED <<db, panel, replies, handler, faults>>

Vanish(m) ==
  /\ m.from = NULL
  /\ net' = net \ {m}
  /\ UNCHANGED <<db, panel, replies, handler, faults>>

-----------------------------------------------------------------------------
(* The API.                                                                *)

Receive(h, m) ==
  /\ handler[h].pc = "IDLE"
  /\ handler' = [handler EXCEPT ![h] = [IdleHandler EXCEPT !.pc = "CALLED", !.req = m]]
  /\ net' = net \ {m}
  /\ UNCHANGED <<db, panel, replies, faults>>

(* Mutant: SELECT without FOR UPDATE.                                      *)
RowNeverLocked == FALSE

RowLocked == \E h \in Handler : handler[h].pc \in {"LOCKED", "READ"}

LockInvestigation(h) ==
  /\ handler[h].pc = "CALLED" /\ handler[h].req.kind = "PUT" /\ ~RowLocked
  /\ handler' = [handler EXCEPT ![h].pc = "LOCKED", ![h].seen = status]
  /\ UNCHANGED <<db, panel, net, replies, faults>>

ReadReview(h) ==
  /\ handler[h].pc = "LOCKED"
  /\ handler' = [handler EXCEPT ![h].pc = "READ", ![h].existing = review]
  /\ UNCHANGED <<db, panel, net, replies, faults>>

(* Mutants: any review is a conflict; another review is replaced.          *)
VerdictNoRetry(s) ==
  CASE s.existing # NULL -> "CONFLICT"
    [] s.existing = NULL -> IF s.seen = "AWAITING_REVIEW" THEN "DECIDE" ELSE "CONFLICT"
VerdictReplaces(s) ==
  CASE s.existing = s.req.decision -> "SAME"
    [] s.existing # s.req.decision -> IF s.seen = "RUNNING" THEN "CONFLICT" ELSE "DECIDE"

Verdict(s) ==
  CASE s.existing = s.req.decision                             -> "SAME"
    [] s.existing \notin {NULL, s.req.decision}                -> "CONFLICT"
    [] s.existing = NULL /\ s.seen # "AWAITING_REVIEW"         -> "CONFLICT"
    [] s.existing = NULL /\ s.seen = "AWAITING_REVIEW"         -> "DECIDE"

Reply(h, code, r) ==
  /\ handler' = [handler EXCEPT ![h] = IdleHandler]
  /\ LET req == handler[h].req IN
     replies' = IF req.from = NULL THEN replies
                ELSE replies \cup {[to |-> req.from, kind |-> req.kind,
                                    code |-> code, review |-> r]}

Decide(h) ==
  /\ handler[h].pc = "READ" /\ Verdict(handler[h]) = "DECIDE"
  /\ review' = handler[h].req.decision
  /\ status' = "COMPLETED"
  /\ logged' = logged + 1
  /\ Reply(h, "OK", review')
  /\ UNCHANGED <<panel, net, faults>>

AnswerSame(h) ==
  /\ handler[h].pc = "READ" /\ Verdict(handler[h]) = "SAME"
  /\ Reply(h, "OK", handler[h].existing)
  /\ UNCHANGED <<db, panel, net, faults>>

AnswerConflict(h) ==
  /\ handler[h].pc = "READ" /\ Verdict(handler[h]) = "CONFLICT"
  /\ Reply(h, "CONFLICT", NULL)
  /\ UNCHANGED <<db, panel, net, faults>>

(* get_review takes no lock; a page asks only when there is a review.      *)
GetReview(h) ==
  /\ handler[h].pc = "CALLED" /\ handler[h].req.kind = "GET"
  /\ Reply(h, IF review = NULL THEN "NONE" ELSE "OK", review)
  /\ UNCHANGED <<db, panel, net, faults>>

(* The API process or its database connection dies: rollback, no answer.   *)
Die(h) ==
  LET req == handler[h].req IN
  /\ handler[h].pc # "IDLE" /\ faults < MaxFaults
  /\ handler' = [handler EXCEPT ![h] = IdleHandler]
  /\ faults' = faults + 1
  /\ panel' = IF req.from = NULL THEN panel
              ELSE [panel EXCEPT ![req.from].waits = @ \ {req.kind}]
  /\ UNCHANGED <<db, net, replies>>

(* complete_claim: the report is there and awaits its review.  Its UPDATE  *)
(* of the investigation waits for the row lock of a handler.               *)
DeliverReport ==
  /\ status = "RUNNING" /\ ~RowLocked
  /\ status' = "AWAITING_REVIEW"
  /\ UNCHANGED <<review, logged, panel, net, replies, handler, faults>>

HandlerStep(h) == \/ LockInvestigation(h) \/ ReadReview(h) \/ Decide(h)
                  \/ AnswerSame(h) \/ AnswerConflict(h) \/ GetReview(h)

Next ==
  \/ \E p \in Page : \/ \E d \in Decision : Prepare(p, d)
                     \/ Refetch(p) \/ Back(p) \/ Confirm(p) \/ LoadExisting(p) \/ Reload(p)
                     \/ \E r \in replies : TakeReply(p, r)
                     \/ \E kind \in Kinds : CallFails(p, kind)
  \/ \E d \in Decision : Script(d)
  \/ \E m \in net : Vanish(m) \/ \E h \in Handler : Receive(h, m)
  \/ \E h \in Handler : HandlerStep(h) \/ Die(h)
  \/ DeliverReport

Spec == Init /\ [][Next]_vars

(* The API takes up what a page waits for and answers it, answers travel,  *)
(* and the reviewer keeps pressing the button the panel offers.            *)
Fairness ==
  /\ \A h \in Handler : SF_vars(HandlerStep(h))
  /\ \A p \in Page :
       /\ SF_vars(\E m \in net : m.from = p /\ \E h \in Handler : Receive(h, m))
       /\ WF_vars(\E r \in replies : TakeReply(p, r))
       /\ SF_vars(Confirm(p) \/ LoadExisting(p))

FairSpec == Spec /\ Fairness

-----------------------------------------------------------------------------
Statuses == {"RUNNING", "AWAITING_REVIEW", "COMPLETED"}

(* Every variable keeps its type.                                          *)
TypeOK ==
  /\ status \in Statuses
  /\ review \in Decision \cup {NULL}
  /\ logged \in 0..1
  /\ panel \in [Page -> [seen: Statuses, prepared: Decision \cup {NULL},
                         waits: SUBSET Kinds, shown: Decision \cup {NULL},
                         conflict: BOOLEAN]]
  /\ net \subseteq Requests
  /\ replies \subseteq [to: Page, kind: Kinds, code: {"OK", "CONFLICT", "NONE"},
                        review: Decision \cup {NULL}]
  /\ handler \in [Handler -> [pc: {"IDLE", "CALLED", "LOCKED", "READ"},
                             req: Requests \cup {NULL},
                             existing: Decision \cup {NULL}, seen: Statuses]]
  /\ faults \in 0..MaxFaults

(* However many decisions race, one is stored and audited once, and a      *)
(* reader sees a completed investigation exactly when there is a review.   *)
OneDecision == /\ status = "COMPLETED" <=> review # NULL
               /\ logged = IF review = NULL THEN 0 ELSE 1

(* What a page shows, or is about to be told, is the decision on record;   *)
(* a stale page never presents its own attempt as the outcome.             *)
ShownIsRecord ==
  /\ \A p \in Page : panel[p].shown # NULL => panel[p].shown = review
  /\ \A r \in replies : r.code = "OK" => r.review = review /\ review # NULL

(* "Another review already exists ... no replacement was made" is told     *)
(* only to a reviewer whose own decision is not the one on record, however *)
(* often it was retried after a lost answer.                               *)
ConflictTold ==
  \A p \in Page : panel[p].conflict /\ panel[p].shown # NULL
                  => panel[p].prepared \notin {NULL, panel[p].shown}

(* Who prepared a decision and keeps confirming gets to see the review on  *)
(* record, whoever made it and whatever failed on the way.                 *)
DecisionLearned ==
  \A p \in Page, d \in Decision :
    panel[p].prepared = d /\ panel[p].shown = NULL
      ~> panel[p].shown # NULL \/ panel[p].prepared # d
=============================================================================
