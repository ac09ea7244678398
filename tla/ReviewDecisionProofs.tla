------------------------ MODULE ReviewDecisionProofs ------------------------
(* One decision per investigation, and pages that show nothing else, for   *)
(* any pages, decisions, handlers and faults.                              *)
EXTENDS ReviewDecision, TLAPS

InRow(h) == handler[h].pc \in {"LOCKED", "READ"}

(* Requests to put carry a decision; a handler in the row is alone there,  *)
(* and what it has read of the row is what the row says.                   *)
Shape ==
  /\ \A m \in net : m.kind = "PUT" => m.decision \in Decision
  /\ \A h \in Handler :
       /\ handler[h].pc # "IDLE" =>
            /\ handler[h].req \in Requests
            /\ handler[h].req.kind = "PUT" => handler[h].req.decision \in Decision
       /\ InRow(h) => handler[h].req.kind = "PUT" /\ handler[h].seen = status
       /\ handler[h].pc = "READ" => handler[h].existing = review
  /\ \A g, h \in Handler : InRow(g) /\ InRow(h) => g = h
  /\ \A r \in replies : r.code # "OK" => r.review = NULL

ReviewInv == TypeOK /\ Shape /\ OneDecision /\ ShownIsRecord

-----------------------------------------------------------------------------
LEMMA InitInv == Init => ReviewInv
<1> SUFFICES ASSUME Init PROVE ReviewInv
  OBVIOUS
<1>1. TypeOK
  BY ReviewAssumption DEF Init, TypeOK, FreshPanel, IdleHandler, Statuses
<1>2. Shape
  BY DEF Init, Shape, InRow, IdleHandler
<1>3. OneDecision /\ ShownIsRecord
  BY DEF Init, OneDecision, ShownIsRecord, FreshPanel
<1> QED BY <1>1, <1>2, <1>3 DEF ReviewInv

HandlerStates == [pc: {"IDLE", "CALLED", "LOCKED", "READ"}, req: Requests \cup {NULL},
                  existing: Decision \cup {NULL}, seen: Statuses]
PanelStates == [seen: Statuses, prepared: Decision \cup {NULL}, waits: SUBSET Kinds,
                shown: Decision \cup {NULL}, conflict: BOOLEAN]
ReplyStates == [to: Page, kind: Kinds, code: {"OK", "CONFLICT", "NONE"}, review: Decision \cup {NULL}]

(* A step of a page alone: it may send one more request and take a reply.  *)
LEMMA PageStep ==
  ASSUME ReviewInv, NEW p \in Page, NEW new \in PanelStates, Set(p, new),
         new.shown # NULL => new.shown = review,
         \A m \in net' : m \in net \/ (m \in Requests /\ (m.kind = "PUT" => m.decision \in Decision)),
         replies' \subseteq replies,
         UNCHANGED <<db, handler, faults>>
  PROVE  ReviewInv'
<1>1. /\ panel' \in [Page -> PanelStates] /\ panel'[p] = new
      /\ \A q \in Page : q # p => panel'[q] = panel[q]
  BY DEF ReviewInv, TypeOK, Set, PanelStates
<1>2. net' \subseteq Requests /\ \A m \in net' : m.kind = "PUT" => m.decision \in Decision
  BY DEF ReviewInv, TypeOK, Shape
<1>3. TypeOK'
  BY <1>1, <1>2 DEF ReviewInv, TypeOK, db, PanelStates
<1>4. Shape'
  BY <1>2 DEF ReviewInv, Shape, InRow, db
<1>5. OneDecision' /\ ShownIsRecord'
  BY <1>1 DEF ReviewInv, OneDecision, ShownIsRecord, db
<1> QED BY <1>3, <1>4, <1>5 DEF ReviewInv

(* The orphan of a request is a request with the same content.             *)
LEMMA OrphanKeeps ==
  ASSUME NEW p \in Page, NEW kinds, NEW m \in Requests
  PROVE  /\ Orphan(m, p, kinds) \in Requests
         /\ Orphan(m, p, kinds).kind = m.kind /\ Orphan(m, p, kinds).decision = m.decision
  BY DEF Orphan, Requests

(* Giving up calls changes who listens, and nothing else.                  *)
LEMMA HangUpKeeps ==
  ASSUME ReviewInv, NEW p \in Page, NEW kinds, HangUp(p, kinds), NEW new \in PanelStates, Set(p, new),
         new.shown # NULL => new.shown = review,
         faults' \in 0..MaxFaults, UNCHANGED db
  PROVE  ReviewInv'
<1>1. /\ panel' \in [Page -> PanelStates] /\ panel'[p] = new
      /\ \A q \in Page : q # p => panel'[q] = panel[q]
  BY DEF ReviewInv, TypeOK, Set, PanelStates
<1>2. net' \subseteq Requests /\ \A m \in net' : m.kind = "PUT" => m.decision \in Decision
  BY OrphanKeeps DEF ReviewInv, TypeOK, Shape, HangUp
<1>3. \A h \in Handler : handler[h].pc # "IDLE" => Orphan(handler[h].req, p, kinds) \in Requests
  BY OrphanKeeps DEF ReviewInv, Shape
<1>4. handler' \in [Handler -> HandlerStates]
  BY <1>3 DEF HangUp, ReviewInv, TypeOK, HandlerStates
<1>5. \A h \in Handler : /\ handler'[h].pc = handler[h].pc /\ handler'[h].seen = handler[h].seen
                         /\ handler'[h].existing = handler[h].existing
                         /\ handler[h].pc # "IDLE" => handler'[h].req = Orphan(handler[h].req, p, kinds)
  BY DEF HangUp, ReviewInv, TypeOK
<1>6. TypeOK'
  BY <1>1, <1>2, <1>4 DEF ReviewInv, TypeOK, db, HangUp, PanelStates, HandlerStates
<1>7. \A h \in Handler : handler[h].pc # "IDLE" =>
        /\ handler'[h].req \in Requests /\ handler'[h].req.kind = handler[h].req.kind
        /\ handler'[h].req.decision = handler[h].req.decision
  BY <1>5, OrphanKeeps DEF ReviewInv, Shape
<1>8. Shape'
  <2>1. \A h \in Handler : InRow(h)' <=> InRow(h)
    BY <1>5 DEF InRow
  <2>2. \A h \in Handler : InRow(h) => handler[h].pc # "IDLE"
    BY DEF InRow
  <2>3. \A h \in Handler :
       /\ handler'[h].pc # "IDLE" =>
            /\ handler'[h].req \in Requests
            /\ handler'[h].req.kind = "PUT" => handler'[h].req.decision \in Decision
       /\ InRow(h) => handler'[h].req.kind = "PUT" /\ handler'[h].seen = status
       /\ handler'[h].pc = "READ" => handler'[h].existing = review
    BY <1>5, <1>7, <2>2 DEF ReviewInv, Shape
  <2>4. \A r \in replies' : r \in replies
    BY DEF HangUp
  <2> QED BY <1>2, <2>1, <2>3, <2>4 DEF ReviewInv, Shape, db
<1>9. OneDecision' /\ ShownIsRecord'
  BY <1>1 DEF ReviewInv, OneDecision, ShownIsRecord, HangUp, db
<1> QED BY <1>6, <1>8, <1>9 DEF ReviewInv

-----------------------------------------------------------------------------
(* What a handler may be: it keeps to Shape.                               *)
Fits(s) ==
  /\ s.pc # "IDLE" => /\ s.req \in Requests
                      /\ s.req.kind = "PUT" => s.req.decision \in Decision
  /\ s.pc \in {"LOCKED", "READ"} => s.req.kind = "PUT" /\ s.seen = status
  /\ s.pc = "READ" => s.existing = review

(* An answer tells the record, or tells nothing.                           *)
Truthful(r) ==
  /\ r \in ReplyStates
  /\ IF r.code = "OK" THEN r.review = review /\ review # NULL ELSE r.review = NULL

(* A step of a handler that leaves the tables alone.                       *)
LEMMA HandlerMoves ==
  ASSUME ReviewInv, NEW h \in Handler, NEW new \in HandlerStates,
         handler' = [handler EXCEPT ![h] = new], Fits(new),
         new.pc \in {"LOCKED", "READ"} => \A g \in Handler : InRow(g) => g = h,
         panel' \in [Page -> PanelStates], \A p \in Page : panel'[p].shown = panel[p].shown,
         net' \subseteq net, faults' \in 0..MaxFaults,
         \A r \in replies' : r \in replies \/ Truthful(r),
         UNCHANGED db
  PROVE  ReviewInv'
<1>1. /\ handler' \in [Handler -> HandlerStates] /\ handler'[h] = new
      /\ \A g \in Handler : g # h => handler'[g] = handler[g]
  BY DEF ReviewInv, TypeOK, HandlerStates
<1>2. replies' \subseteq ReplyStates
  BY DEF ReviewInv, TypeOK, ReplyStates, Truthful
<1>3. TypeOK'
  BY <1>1, <1>2 DEF ReviewInv, TypeOK, db, PanelStates, HandlerStates, ReplyStates
<1>4. \A g \in Handler : g # h => (InRow(g)' <=> InRow(g))
  BY <1>1 DEF InRow
<1>5. InRow(h)' <=> new.pc \in {"LOCKED", "READ"}
  BY <1>1 DEF InRow
<1>6. Shape'
  <2>1. \A m \in net' : m.kind = "PUT" => m.decision \in Decision
    BY DEF ReviewInv, Shape
  <2>2. \A g \in Handler :
          /\ handler'[g].pc # "IDLE" =>
               /\ handler'[g].req \in Requests
               /\ handler'[g].req.kind = "PUT" => handler'[g].req.decision \in Decision
          /\ InRow(g)' => handler'[g].req.kind = "PUT" /\ handler'[g].seen = status
          /\ handler'[g].pc = "READ" => handler'[g].existing = review
    BY <1>1, <1>4, <1>5 DEF ReviewInv, Shape, Fits
  <2>3. \A f, g \in Handler : InRow(f)' /\ InRow(g)' => f = g
    BY <1>4, <1>5 DEF ReviewInv, Shape
  <2>4. \A r \in replies' : r.code # "OK" => r.review = NULL
    BY DEF ReviewInv, Shape, Truthful
  <2> QED BY <2>1, <2>2, <2>3, <2>4 DEF Shape, db
<1>7. OneDecision'
  BY DEF ReviewInv, OneDecision, db
<1>8. ShownIsRecord'
  BY DEF ReviewInv, ShownIsRecord, Truthful, db
<1> QED BY <1>3, <1>6, <1>7, <1>8 DEF ReviewInv

(* The state and the request of a handler at work.                         *)
LEMMA HandlerFits ==
  ASSUME ReviewInv, NEW h \in Handler
  PROVE  handler[h] \in HandlerStates /\ Fits(handler[h])
  BY DEF ReviewInv, TypeOK, HandlerStates, Shape, Fits, InRow

LEMMA IdleFits == IdleHandler \in HandlerStates /\ Fits(IdleHandler)
  BY DEF IdleHandler, HandlerStates, Fits, Statuses

LEMMA PanelFits ==
  ASSUME ReviewInv, NEW p \in Page
  PROVE  panel[p] \in PanelStates /\ (panel[p].shown # NULL => panel[p].shown = review)
  BY DEF ReviewInv, TypeOK, PanelStates, ShownIsRecord

-----------------------------------------------------------------------------
(* The steps of a page.                                                    *)
LEMMA PageSteps ==
  ASSUME ReviewInv, NEW p \in Page
  PROVE  /\ \A d \in Decision : Prepare(p, d) => ReviewInv'
         /\ Refetch(p) \/ Back(p) \/ Confirm(p) \/ LoadExisting(p) => ReviewInv'
<1> DEFINE s == panel[p]
<1>1. s \in PanelStates /\ (s.shown # NULL => s.shown = review) /\ status \in Statuses
  BY PanelFits DEF ReviewInv, TypeOK
<1>2. ASSUME NEW d \in Decision, Prepare(p, d) PROVE ReviewInv'
  <2> DEFINE new == [s EXCEPT !.prepared = d, !.conflict = FALSE]
  <2>1. new \in PanelStates /\ new.shown = s.shown
    BY <1>1 DEF PanelStates
  <2>2. Set(p, new) /\ net' = net /\ replies' = replies /\ UNCHANGED <<db, handler, faults>>
    BY <1>2 DEF Prepare
  <2> HIDE DEF s, new
  <2> QED BY <1>1, <2>1, <2>2, PageStep
<1>3. ASSUME Refetch(p) PROVE ReviewInv'
  <2> DEFINE new == [s EXCEPT !.seen = status]
  <2>1. new \in PanelStates /\ new.shown = s.shown
    BY <1>1 DEF PanelStates
  <2>2. Set(p, new) /\ net' = net /\ replies' = replies /\ UNCHANGED <<db, handler, faults>>
    BY <1>3 DEF Refetch
  <2> HIDE DEF s, new
  <2> QED BY <1>1, <2>1, <2>2, PageStep
<1>4. ASSUME Back(p) PROVE ReviewInv'
  <2> DEFINE new == [s EXCEPT !.prepared = NULL]
  <2>1. new \in PanelStates /\ new.shown = s.shown
    BY <1>1 DEF PanelStates
  <2>2. Set(p, new) /\ net' = net /\ replies' = replies /\ UNCHANGED <<db, handler, faults>>
    BY <1>4 DEF Back
  <2> HIDE DEF s, new
  <2> QED BY <1>1, <2>1, <2>2, PageStep
<1>5. ASSUME Confirm(p) PROVE ReviewInv'
  <2> DEFINE new == [s EXCEPT !.waits = {"PUT"}]
             put == Request(p, "PUT", s.prepared)
  <2>1. new \in PanelStates /\ new.shown = s.shown
    BY <1>1 DEF PanelStates, Kinds
  <2>2. put \in Requests /\ put.decision \in Decision
    BY <1>1, <1>5 DEF Confirm, Confirmation, Request, Requests, PanelStates, Kinds
  <2>3. Set(p, new) /\ net' = net \cup {put} /\ replies' = replies
        /\ UNCHANGED <<db, handler, faults>>
    BY <1>5 DEF Confirm
  <2> HIDE DEF s, new, put
  <2>4. \A m \in net' : m \in net \/ (m \in Requests /\ (m.kind = "PUT" => m.decision \in Decision))
    BY <2>2, <2>3
  <2> QED BY <1>1, <2>1, <2>3, <2>4, PageStep
<1>6. ASSUME LoadExisting(p) PROVE ReviewInv'
  <2> DEFINE new == [s EXCEPT !.waits = @ \cup {"GET"}, !.conflict = FALSE]
             get == Request(p, "GET", NULL)
  <2>1. new \in PanelStates /\ new.shown = s.shown
    BY <1>1 DEF PanelStates, Kinds
  <2>2. get \in Requests /\ get.kind = "GET"
    BY DEF Request, Requests, Kinds
  <2>3. Set(p, new) /\ net' = net \cup {get} /\ replies' = replies
        /\ UNCHANGED <<db, handler, faults>>
    BY <1>6 DEF LoadExisting
  <2> HIDE DEF s, new, get
  <2>4. \A m \in net' : m \in net \/ (m \in Requests /\ (m.kind = "PUT" => m.decision \in Decision))
    BY <2>2, <2>3
  <2> QED BY <1>1, <2>1, <2>3, <2>4, PageStep
<1> QED BY <1>2, <1>3, <1>4, <1>5, <1>6

(* An answer is shown only if it tells the record.                         *)
LEMMA ReplyTaken ==
  ASSUME ReviewInv, NEW p \in Page, NEW r \in replies, TakeReply(p, r)
  PROVE  ReviewInv'
<1> DEFINE s == panel[p]
<1>1. s \in PanelStates /\ (s.shown # NULL => s.shown = review)
  BY PanelFits
<1>2. r \in ReplyStates /\ (r.review # NULL => r.review = review)
  BY DEF ReviewInv, TypeOK, ReplyStates, ShownIsRecord, Shape
<1>3. replies' \subseteq replies /\ UNCHANGED <<db, handler, faults>>
  BY DEF TakeReply
<1>4. CASE r.kind = "PUT" /\ r.code = "OK"
  <2> DEFINE new == [s EXCEPT !.shown = r.review, !.prepared = NULL, !.conflict = FALSE,
                              !.waits = @ \ {"PUT"}]
  <2>1. new \in PanelStates /\ new.shown = r.review
    BY <1>1, <1>2 DEF PanelStates, ReplyStates
  <2>2. Set(p, new) /\ net' = net
    BY <1>4 DEF TakeReply
  <2> HIDE DEF s, new
  <2> QED BY <1>2, <1>3, <2>1, <2>2, PageStep
<1>5. CASE r.kind = "GET"
  <2> DEFINE new == [s EXCEPT !.shown = r.review, !.waits = @ \ {"GET"}]
  <2>1. new \in PanelStates /\ new.shown = r.review
    BY <1>1, <1>2 DEF PanelStates, ReplyStates
  <2>2. Set(p, new) /\ net' = net
    BY <1>5 DEF TakeReply
  <2> HIDE DEF s, new
  <2> QED BY <1>2, <1>3, <2>1, <2>2, PageStep
<1>6. CASE r.kind = "PUT" /\ r.code = "CONFLICT" /\ OnConflict(p, s)
  <2> DEFINE new == [s EXCEPT !.waits = {"GET"}, !.conflict = TRUE]
             get == Request(p, "GET", NULL)
  <2>1. new \in PanelStates /\ new.shown = s.shown
    BY <1>1 DEF PanelStates, Kinds
  <2>2. get \in Requests /\ get.kind = "GET"
    BY DEF Request, Requests, Kinds
  <2>3. Set(p, new) /\ net' = net \cup {get}
    BY <1>6 DEF OnConflict
  <2> HIDE DEF s, new, get
  <2>4. \A m \in net' : m \in net \/ (m \in Requests /\ (m.kind = "PUT" => m.decision \in Decision))
    BY <2>2, <2>3
  <2> QED BY <1>1, <1>3, <2>1, <2>3, <2>4, PageStep
<1> QED BY <1>4, <1>5, <1>6 DEF TakeReply

(* Failed calls and reloaded pages.                                        *)
LEMMA CallsGivenUp ==
  ASSUME ReviewInv, NEW p \in Page
  PROVE  /\ \A kind \in Kinds : CallFails(p, kind) => ReviewInv'
         /\ Reload(p) => ReviewInv'
<1> DEFINE s == panel[p]
<1>1. s \in PanelStates /\ (s.shown # NULL => s.shown = review)
  BY PanelFits
<1>2. ASSUME NEW kind \in Kinds, CallFails(p, kind) PROVE ReviewInv'
  <2> DEFINE new == [s EXCEPT !.waits = @ \ {kind}]
  <2>1. new \in PanelStates /\ new.shown = s.shown
    BY <1>1 DEF PanelStates
  <2>2. Set(p, new) /\ HangUp(p, {kind}) /\ UNCHANGED db
    BY <1>2 DEF CallFails
  <2>3. faults' \in 0..MaxFaults
    BY <1>2, ReviewAssumption DEF CallFails, ReviewInv, TypeOK
  <2> HIDE DEF s, new
  <2> QED BY <1>1, <2>1, <2>2, <2>3, HangUpKeeps
<1>3. ASSUME Reload(p) PROVE ReviewInv'
  <2>1. FreshPanel \in PanelStates /\ FreshPanel.shown = NULL
    BY DEF FreshPanel, PanelStates, Statuses
  <2>2. Set(p, FreshPanel) /\ HangUp(p, Kinds) /\ UNCHANGED db
    BY <1>3 DEF Reload
  <2>3. faults' \in 0..MaxFaults
    BY <1>3 DEF Reload, ReviewInv, TypeOK
  <2> QED BY <2>1, <2>2, <2>3, HangUpKeeps
<1> QED BY <1>2, <1>3

-----------------------------------------------------------------------------
(* The steps of a handler.                                                 *)
LEMMA Taken ==
  ASSUME ReviewInv, NEW h \in Handler, NEW m \in net, Receive(h, m)
  PROVE  ReviewInv'
<1> DEFINE new == [IdleHandler EXCEPT !.pc = "CALLED", !.req = m]
<1>1. m \in Requests /\ (m.kind = "PUT" => m.decision \in Decision)
  BY DEF ReviewInv, TypeOK, Shape
<1>2. new \in HandlerStates /\ new.pc = "CALLED" /\ new.req = m
  BY <1>1, IdleFits DEF HandlerStates, IdleHandler
<1>3. Fits(new)
  BY <1>1, <1>2 DEF Fits
<1>4. /\ handler' = [handler EXCEPT ![h] = new] /\ net' \subseteq net
      /\ UNCHANGED <<db, panel, replies, faults>>
  BY DEF Receive
<1> HIDE DEF new
<1> QED BY <1>2, <1>3, <1>4, HandlerMoves DEF ReviewInv, TypeOK, PanelStates

(* The row is locked by one handler, which then reads what the row says.   *)
LEMMA RowSteps ==
  ASSUME ReviewInv, NEW h \in Handler, LockInvestigation(h) \/ ReadReview(h)
  PROVE  ReviewInv'
<1> DEFINE s == handler[h]
<1>1. s \in HandlerStates /\ Fits(s)
  BY HandlerFits
<1>2. UNCHANGED <<db, panel, net, replies, faults>>
  BY DEF LockInvestigation, ReadReview
<1>3. panel' \in [Page -> PanelStates] /\ faults' \in 0..MaxFaults
      /\ status \in Statuses /\ review \in Decision \cup {NULL}
  BY <1>2 DEF ReviewInv, TypeOK, PanelStates
<1>4. CASE LockInvestigation(h)
  <2> DEFINE new == [s EXCEPT !.pc = "LOCKED", !.seen = status]
  <2>1. new \in HandlerStates /\ new.pc = "LOCKED" /\ new.seen = status /\ new.req = s.req
    BY <1>1, <1>3 DEF HandlerStates
  <2>2. s.pc = "CALLED" /\ s.req.kind = "PUT" /\ \A g \in Handler : ~InRow(g)
    BY <1>4 DEF LockInvestigation, RowLocked, InRow
  <2>3. Fits(new)
    BY <1>1, <2>1, <2>2 DEF Fits
  <2>4. handler' = [handler EXCEPT ![h] = new]
    BY <1>4 DEF LockInvestigation
  <2> HIDE DEF s, new
  <2> QED BY <1>2, <1>3, <2>1, <2>2, <2>3, <2>4, HandlerMoves
<1>5. CASE ReadReview(h)
  <2> DEFINE new == [s EXCEPT !.pc = "READ", !.existing = review]
  <2>1. /\ new \in HandlerStates /\ new.pc = "READ" /\ new.existing = review
        /\ new.seen = s.seen /\ new.req = s.req
    BY <1>1, <1>3 DEF HandlerStates
  <2>2. s.pc = "LOCKED" /\ InRow(h)
    BY <1>5 DEF ReadReview, InRow
  <2>3. Fits(new)
    BY <1>1, <2>1, <2>2 DEF Fits
  <2>4. handler' = [handler EXCEPT ![h] = new] /\ \A g \in Handler : InRow(g) => g = h
    BY <1>5, <2>2 DEF ReadReview, ReviewInv, Shape
  <2> HIDE DEF s, new
  <2> QED BY <1>2, <1>3, <2>1, <2>3, <2>4, HandlerMoves
<1> QED BY <1>4, <1>5

(* An answer goes to the page that asked, if it still listens.             *)
LEMMA Answered ==
  ASSUME ReviewInv, NEW h \in Handler, NEW code, NEW rev, Reply(h, code, rev),
         handler[h].pc # "IDLE", code \in {"OK", "CONFLICT", "NONE"},
         rev \in Decision \cup {NULL},
         IF code = "OK" THEN rev = review /\ review # NULL ELSE rev = NULL,
         UNCHANGED <<db, panel, net, faults>>
  PROVE  ReviewInv'
<1> DEFINE req == handler[h].req
           ans == [to |-> req.from, kind |-> req.kind, code |-> code, review |-> rev]
<1>1. req \in Requests
  BY DEF ReviewInv, Shape
<1>2. req.from # NULL => Truthful(ans)
  BY <1>1 DEF Truthful, ReplyStates, Requests
<1>3. \A r \in replies' : r \in replies \/ Truthful(r)
  BY <1>2 DEF Reply
<1>4. handler' = [handler EXCEPT ![h] = IdleHandler] /\ IdleHandler.pc = "IDLE"
  BY DEF Reply, IdleHandler
<1>5. panel' \in [Page -> PanelStates] /\ faults' \in 0..MaxFaults
  BY DEF ReviewInv, TypeOK, PanelStates
<1> QED BY <1>3, <1>4, <1>5, IdleFits, HandlerMoves

LEMMA AnswerSteps ==
  ASSUME ReviewInv, NEW h \in Handler, AnswerSame(h) \/ AnswerConflict(h) \/ GetReview(h)
  PROVE  ReviewInv'
<1> DEFINE s == handler[h]
<1>1. s \in HandlerStates /\ Fits(s) /\ review \in Decision \cup {NULL}
  BY HandlerFits DEF ReviewInv, TypeOK
<1>2. UNCHANGED <<db, panel, net, faults>> /\ s.pc # "IDLE"
  BY DEF AnswerSame, AnswerConflict, GetReview
<1>3. CASE AnswerSame(h)
  <2>1. s.pc = "READ" /\ Verdict(s) = "SAME" /\ Reply(h, "OK", s.existing)
    BY <1>3 DEF AnswerSame
  <2>2. s.existing = review /\ s.req.decision \in Decision
    BY <1>1, <2>1 DEF Fits
  <2>3. s.existing = s.req.decision
    BY <2>1 DEF Verdict
  <2>4. review # NULL
    BY <2>2, <2>3, ReviewAssumption
  <2> QED BY <1>1, <1>2, <2>1, <2>2, <2>4, Answered
<1>4. CASE AnswerConflict(h)
  BY <1>2, <1>4, Answered DEF AnswerConflict
<1>5. CASE GetReview(h)
  BY <1>1, <1>2, <1>5, Answered DEF GetReview
<1> QED BY <1>3, <1>4, <1>5

(* A decision is made when there is no review, and then nothing is shown   *)
(* or on its way that could contradict it.                                 *)
LEMMA Decided ==
  ASSUME ReviewInv, NEW h \in Handler, Decide(h)
  PROVE  ReviewInv'
<1> DEFINE s == handler[h]
<1>1. s \in HandlerStates /\ Fits(s)
  BY HandlerFits
<1>2. s.pc = "READ" /\ s.req \in Requests /\ s.req.kind = "PUT" /\ s.req.decision \in Decision
      /\ s.existing = review /\ s.seen = status /\ InRow(h)
  BY <1>1 DEF Decide, Fits, InRow
<1>3. review = NULL /\ logged = 0
  <2>1. Verdict(s) = "DECIDE"
    BY DEF Decide
  <2>2. s.existing = NULL
    BY <2>1, <1>2, ReviewAssumption DEF Verdict
  <2> QED BY <1>2, <2>2 DEF ReviewInv, OneDecision
<1>4. /\ review' = s.req.decision /\ review' \in Decision /\ review' # NULL
      /\ status' = "COMPLETED" /\ logged' = 1 /\ UNCHANGED <<panel, net, faults>>
  BY <1>2, <1>3, ReviewAssumption DEF Decide
<1> DEFINE ans == [to |-> s.req.from, kind |-> s.req.kind, code |-> "OK", review |-> review']
<1>5. /\ handler' = [handler EXCEPT ![h] = IdleHandler]
      /\ replies' = IF s.req.from = NULL THEN replies ELSE replies \cup {ans}
  BY DEF Decide, Reply
<1>6. /\ handler' \in [Handler -> HandlerStates] /\ handler'[h] = IdleHandler
      /\ \A g \in Handler : g # h => handler'[g] = handler[g]
  BY <1>5, IdleFits DEF ReviewInv, TypeOK, HandlerStates
<1>7. s.req.from # NULL => ans \in ReplyStates
  BY <1>2, <1>4 DEF ReplyStates, Requests
<1>8. replies' \subseteq ReplyStates
  BY <1>5, <1>7 DEF ReviewInv, TypeOK, ReplyStates
<1>9. TypeOK'
  BY <1>4, <1>6, <1>8 DEF ReviewInv, TypeOK, Statuses, HandlerStates, ReplyStates
<1>10. \A g \in Handler : ~InRow(g)'
  BY <1>2, <1>6 DEF ReviewInv, Shape, InRow, IdleHandler
<1>11. Shape'
  <2>1. \A g \in Handler : handler'[g].pc # "IDLE" =>
          /\ handler'[g].req \in Requests
          /\ handler'[g].req.kind = "PUT" => handler'[g].req.decision \in Decision
    BY <1>6 DEF ReviewInv, Shape, IdleHandler
  <2>2. \A g \in Handler : handler'[g].pc # "READ"
    BY <1>10 DEF InRow
  <2>3. \A r \in replies' : r.code # "OK" => r.review = NULL
    BY <1>5 DEF ReviewInv, Shape
  <2> QED BY <1>4, <1>10, <2>1, <2>2, <2>3 DEF ReviewInv, Shape
<1>12. OneDecision'
  BY <1>4 DEF OneDecision
<1>13. ShownIsRecord'
  <2>1. \A p \in Page : panel'[p].shown = NULL
    BY <1>3, <1>4 DEF ReviewInv, ShownIsRecord
  <2>2. \A r \in replies' : r.code = "OK" => r.review = review'
    BY <1>3, <1>5 DEF ReviewInv, ShownIsRecord
  <2> QED BY <1>4, <2>1, <2>2 DEF ShownIsRecord
<1> QED BY <1>9, <1>11, <1>12, <1>13 DEF ReviewInv

LEMMA Died ==
  ASSUME ReviewInv, NEW h \in Handler, Die(h)
  PROVE  ReviewInv'
<1> DEFINE req == handler[h].req
           cut == [panel EXCEPT ![req.from].waits = @ \ {req.kind}]
<1>1. req \in Requests
  BY DEF ReviewInv, Shape, Die
<1>2. req.from # NULL =>
        cut \in [Page -> PanelStates] /\ \A p \in Page : cut[p].shown = panel[p].shown
  <2> SUFFICES ASSUME req.from # NULL
               PROVE  cut \in [Page -> PanelStates] /\ \A p \in Page : cut[p].shown = panel[p].shown
    OBVIOUS
  <2>1. req.from \in Page
    BY <1>1 DEF Requests
  <2>2. [panel[req.from] EXCEPT !.waits = @ \ {req.kind}] \in PanelStates
    BY <2>1 DEF ReviewInv, TypeOK, PanelStates
  <2> QED BY <2>1, <2>2 DEF ReviewInv, TypeOK, PanelStates
<1>3. panel' = IF req.from = NULL THEN panel ELSE cut
  BY DEF Die
<1>4. panel \in [Page -> PanelStates]
  BY DEF ReviewInv, TypeOK, PanelStates
<1> HIDE DEF cut
<1>5. panel' \in [Page -> PanelStates] /\ \A p \in Page : panel'[p].shown = panel[p].shown
  BY <1>2, <1>3, <1>4
<1>6. /\ handler' = [handler EXCEPT ![h] = IdleHandler] /\ IdleHandler.pc = "IDLE"
      /\ faults' \in 0..MaxFaults /\ UNCHANGED <<db, net, replies>>
  BY ReviewAssumption DEF Die, IdleHandler, ReviewInv, TypeOK
<1> QED BY <1>5, <1>6, IdleFits, HandlerMoves

-----------------------------------------------------------------------------
(* The steps of others: scripts, the network and the worker.               *)
LEMMA NetSteps ==
  ASSUME ReviewInv, (\E d \in Decision : Script(d)) \/ (\E m \in net : Vanish(m))
  PROVE  ReviewInv'
<1>1. UNCHANGED <<db, panel, replies, handler, faults>>
  BY DEF Script, Vanish
<1>2. \A d \in Decision : /\ Request(NULL, "PUT", d) \in Requests
                          /\ Request(NULL, "PUT", d).decision = d
  BY DEF Request, Requests, Kinds
<1>3. \A m \in net' : m \in Requests /\ (m.kind = "PUT" => m.decision \in Decision)
  BY <1>2 DEF Script, Vanish, ReviewInv, TypeOK, Shape
<1>4. TypeOK' /\ Shape'
  BY <1>1, <1>3 DEF ReviewInv, TypeOK, Shape, InRow, db
<1> QED BY <1>1, <1>4 DEF ReviewInv, OneDecision, ShownIsRecord, db

LEMMA Delivered ==
  ASSUME ReviewInv, DeliverReport
  PROVE  ReviewInv'
<1>1. \A h \in Handler : ~InRow(h)
  BY DEF DeliverReport, RowLocked, InRow
<1>2. review = NULL
  BY DEF DeliverReport, ReviewInv, OneDecision
<1>3. TypeOK'
  BY DEF DeliverReport, ReviewInv, TypeOK, Statuses
<1>4. Shape'
  BY <1>1 DEF DeliverReport, ReviewInv, Shape, InRow
<1>5. OneDecision' /\ ShownIsRecord'
  BY <1>2 DEF DeliverReport, ReviewInv, OneDecision, ShownIsRecord
<1> QED BY <1>3, <1>4, <1>5 DEF ReviewInv

LEMMA ReviewStep == ReviewInv /\ [Next]_vars => ReviewInv'
<1> SUFFICES ASSUME ReviewInv, [Next]_vars PROVE ReviewInv'
  OBVIOUS
<1>1. CASE UNCHANGED vars
  BY <1>1 DEF vars, db, ReviewInv, TypeOK, Shape, InRow, OneDecision, ShownIsRecord
<1>2. ASSUME NEW p \in Page,
             \/ \E d \in Decision : Prepare(p, d)
             \/ Refetch(p) \/ Back(p) \/ Confirm(p) \/ LoadExisting(p) \/ Reload(p)
             \/ \E r \in replies : TakeReply(p, r)
             \/ \E kind \in Kinds : CallFails(p, kind)
      PROVE  ReviewInv'
  BY <1>2, PageSteps, ReplyTaken, CallsGivenUp
<1>3. CASE \E d \in Decision : Script(d)
  BY <1>3, NetSteps
<1>4. CASE \E m \in net : Vanish(m) \/ \E h \in Handler : Receive(h, m)
  BY <1>4, NetSteps, Taken
<1>5. CASE \E h \in Handler : HandlerStep(h) \/ Die(h)
  BY <1>5, RowSteps, AnswerSteps, Decided, Died DEF HandlerStep
<1>6. CASE DeliverReport
  BY <1>6, Delivered
<1> QED BY <1>1, <1>2, <1>3, <1>4, <1>5, <1>6 DEF Next

(* The inductive invariant of the review holds in every reachable state.   *)
THEOREM ReviewInvariant == Spec => []ReviewInv
<1> QED BY InitInv, ReviewStep, PTL DEF Spec

(* Types are kept: put_review logs a decision at most once.                *)
THEOREM TypesKept == Spec => []TypeOK
<1>1. ReviewInv => TypeOK
  BY DEF ReviewInv
<1> QED BY <1>1, ReviewInvariant, PTL

(* put_review: one decision, audited once, exactly when completed.         *)
THEOREM DecisionIsOne == Spec => []OneDecision
<1>1. ReviewInv => OneDecision
  BY DEF ReviewInv
<1> QED BY <1>1, ReviewInvariant, PTL

(* ReviewPanel: what a page shows or will be told is the review on record. *)
THEOREM PagesTruthful == Spec => []ShownIsRecord
<1>1. ReviewInv => ShownIsRecord
  BY DEF ReviewInv
<1> QED BY <1>1, ReviewInvariant, PTL

-----------------------------------------------------------------------------
(* Why a conflict that is told is a conflict.                              *)
(*                                                                         *)
(* The calls of kind k a page p has out: on the way to the API, in its     *)
(* hands, or on the way back.                                              *)
Of(m, p, k) == m.from = p /\ m.kind = k
Serves(h, p, k) == handler[h].pc # "IDLE" /\ Of(handler[h].req, p, k)
Answers(r, p, k) == r.to = p /\ r.kind = k

Out(p, k) == \/ \E m \in net : Of(m, p, k)
             \/ \E h \in Handler : Serves(h, p, k)
             \/ \E r \in replies : Answers(r, p, k)

Single(p, k) ==
  /\ \A m, n \in net : Of(m, p, k) /\ Of(n, p, k) => m = n
  /\ \A g, h \in Handler : Serves(g, p, k) /\ Serves(h, p, k) => g = h
  /\ \A q, r \in replies : Answers(q, p, k) /\ Answers(r, p, k) => q = r
  /\ \A m \in net, h \in Handler : ~(Of(m, p, k) /\ Serves(h, p, k))
  /\ \A m \in net, r \in replies : ~(Of(m, p, k) /\ Answers(r, p, k))
  /\ \A h \in Handler, r \in replies : ~(Serves(h, p, k) /\ Answers(r, p, k))

(* What a put says, and what its refusal means.                            *)
Carries(p) ==
  /\ \A m \in net : Of(m, p, "PUT") => m.decision = panel[p].prepared
  /\ \A h \in Handler : Serves(h, p, "PUT") => handler[h].req.decision = panel[p].prepared
  /\ \A r \in replies : Answers(r, p, "PUT") /\ r.code = "CONFLICT"
                        => review # NULL /\ review # panel[p].prepared

(* A page has one put out at most, of what it has prepared, and was told   *)
(* that the investigation awaits review before it put.                     *)
PutFits(p) ==
  LET s == panel[p] IN
  /\ "PUT" \in s.waits => s.prepared # NULL /\ s.seen # "RUNNING"
  /\ Out(p, "PUT") => "PUT" \in s.waits
  /\ Single(p, "PUT")
  /\ Carries(p)

(* It has one get out at most until it knows that there is a review.       *)
GetFits(p) ==
  LET s == panel[p] IN
  s.seen # "COMPLETED" => /\ "GET" \in s.waits => "PUT" \notin s.waits
                          /\ Out(p, "GET") => "GET" \in s.waits
                          /\ Single(p, "GET")

SeenFits(p) == /\ panel[p].seen = "COMPLETED" => status = "COMPLETED"
               /\ panel[p].seen = "AWAITING_REVIEW" => status # "RUNNING"

(* A conflict that is told is about the decision still prepared, or about  *)
(* one given up before anything could be shown.                            *)
ConflictFits(p) ==
  LET s == panel[p] IN
  s.conflict => IF s.prepared = NULL THEN s.shown = NULL /\ ~Out(p, "GET")
                ELSE review # NULL /\ review # s.prepared

PageFits(p) == PutFits(p) /\ GetFits(p) /\ SeenFits(p) /\ ConflictFits(p)

ConflictInv == \A p \in Page : PageFits(p)

-----------------------------------------------------------------------------
LEMMA InitConflict == Init => ConflictInv
  BY DEF Init, ConflictInv, PageFits, PutFits, GetFits, SeenFits, ConflictFits, Carries, Single, Out,
         Of, Serves, Answers, FreshPanel, IdleHandler

(* Nothing out is one at most, and says nothing wrong.                     *)
LEMMA NoneOut ==
  ASSUME NEW p \in Page
  PROVE  /\ \A k \in Kinds : ~Out(p, k) => Single(p, k)
         /\ ~Out(p, "PUT") => Carries(p)
  BY DEF Out, Single, Carries

(* Calls of a page that are given up or answered, and none that is new.    *)
Shrinks(p, k) ==
  /\ \A m \in net' : Of(m, p, k) => m \in net
  /\ \A h \in Handler : Serves(h, p, k)' => Serves(h, p, k) /\ handler'[h].req = handler[h].req
  /\ \A r \in replies' : Answers(r, p, k) => r \in replies

LEMMA Shrunk ==
  ASSUME NEW p \in Page, NEW k \in Kinds, Shrinks(p, k)
  PROVE  /\ Out(p, k)' => Out(p, k)
         /\ Single(p, k) => Single(p, k)'
<1>1. Out(p, k)' => Out(p, k)
  BY DEF Shrinks, Out
<1>2. Single(p, k) => Single(p, k)'
  BY DEF Shrinks, Single
<1> QED BY <1>1, <1>2

(* What was decided stays decided.                                         *)
Keeps == /\ status = "COMPLETED" => status' = "COMPLETED"
         /\ status # "RUNNING" => status' # "RUNNING"
         /\ review # NULL => review' = review

LEMMA ShrunkCarries ==
  ASSUME NEW p \in Page, Shrinks(p, "PUT"), Carries(p), Keeps, panel'[p].prepared = panel[p].prepared
  PROVE  Carries(p)'
<1>1. \A m \in net' : Of(m, p, "PUT") => m.decision = panel'[p].prepared
  BY DEF Shrinks, Carries
<1>2. \A h \in Handler : Serves(h, p, "PUT")' => handler'[h].req.decision = panel'[p].prepared
  BY DEF Shrinks, Carries
<1>3. \A r \in replies' : Answers(r, p, "PUT") /\ r.code = "CONFLICT"
                          => review' # NULL /\ review' # panel'[p].prepared
  BY DEF Shrinks, Carries, Keeps
<1> QED BY <1>1, <1>2, <1>3 DEF Carries

(* A page that is left alone.                                              *)
LEMMA LeftAlone ==
  ASSUME NEW p \in Page, PageFits(p), Keeps, panel'[p] = panel[p],
         \A k \in Kinds : /\ Out(p, k)' => Out(p, k)
                          /\ Single(p, k) => Single(p, k)',
         Carries(p)'
  PROVE  PageFits(p)'
<1>1. "PUT" \in Kinds /\ "GET" \in Kinds
  BY DEF Kinds
<1>2. PutFits(p)'
  BY <1>1 DEF PageFits, PutFits
<1>3. GetFits(p)'
  BY <1>1 DEF PageFits, GetFits
<1>4. SeenFits(p)' /\ ConflictFits(p)'
  BY <1>1 DEF PageFits, SeenFits, ConflictFits, Keeps
<1> QED BY <1>2, <1>3, <1>4 DEF PageFits

LEMMA Untouched ==
  ASSUME NEW p \in Page, PageFits(p), Keeps, panel'[p] = panel[p], \A k \in Kinds : Shrinks(p, k)
  PROVE  PageFits(p)'
<1>1. Carries(p) /\ "PUT" \in Kinds
  BY DEF PageFits, PutFits, Kinds
<1>2. Carries(p)'
  BY <1>1, ShrunkCarries
<1> QED BY <1>2, Shrunk, LeftAlone

LEMMA Quiet ==
  ASSUME NEW p \in Page, NEW k \in Kinds, \A m \in net' : Of(m, p, k) => m \in net,
         replies' \subseteq replies, UNCHANGED handler
  PROVE  Shrinks(p, k)
  BY DEF Shrinks, Serves

(* A call is made when none is out.                                        *)
LEMMA Called ==
  ASSUME NEW p \in Page, NEW k \in Kinds, NEW m, Of(m, p, k), ~Out(p, k),
         net' = net \cup {m}, replies' \subseteq replies, UNCHANGED handler
  PROVE  /\ Single(p, k)'
         /\ k = "PUT" /\ m.decision = panel'[p].prepared => Carries(p)'
<1>1. /\ \A n \in net' : Of(n, p, k) => n = m
      /\ \A h \in Handler : ~Serves(h, p, k)'
      /\ \A r \in replies' : ~Answers(r, p, k)
  BY DEF Out, Serves
<1> QED BY <1>1 DEF Single, Carries

(* A step of page p, which leaves the calls of the others alone.           *)
LEMMA OnePage ==
  ASSUME ReviewInv, ConflictInv, NEW p \in Page, NEW new, Set(p, new), Keeps,
         \A q \in Page, k \in Kinds : q # p => Shrinks(q, k),
         PageFits(p)'
  PROVE  ConflictInv'
<1>1. \A q \in Page : q # p => panel'[q] = panel[q]
  BY DEF ReviewInv, TypeOK, Set
<1>2. \A q \in Page : q # p => PageFits(q)'
  BY <1>1, Untouched DEF ConflictInv
<1> QED BY <1>2 DEF ConflictInv

LEMMA Stays == ASSUME UNCHANGED db PROVE Keeps
  BY DEF db, Keeps

(* Preparing, looking again and going back.                                *)
LEMMA ConflictPrepare ==
  ASSUME ReviewInv, ConflictInv, NEW p \in Page,
         Refetch(p) \/ (\E d \in Decision : Prepare(p, d)) \/ Back(p)
  PROVE  ConflictInv'
<1>1. UNCHANGED <<db, net, replies, handler>>
  BY DEF Refetch, Prepare, Back
<1>2. \A q \in Page, k \in Kinds : Shrinks(q, k)
  BY <1>1, Quiet
<1>3. \A k \in Kinds : (Out(p, k)' => Out(p, k)) /\ (Single(p, k) => Single(p, k)')
  BY <1>2, Shrunk
<1>4. "PUT" \in Kinds /\ "GET" \in Kinds
  BY DEF Kinds
<1>5. PageFits(p) /\ panel[p] \in PanelStates /\ Keeps
  BY <1>1, PanelFits, Stays DEF ConflictInv
<1>6. status' = status /\ review' = review /\ status \in Statuses
  BY <1>1 DEF db, ReviewInv, TypeOK
<1> DEFINE s == panel[p]
<1>7. ASSUME Refetch(p) PROVE ConflictInv'
  <2> DEFINE new == [s EXCEPT !.seen = status]
  <2>1. Set(p, new) /\ panel'[p] = new
    BY <1>7 DEF Refetch, Set, ReviewInv, TypeOK
  <2>2. /\ new.seen = status /\ new.prepared = s.prepared /\ new.waits = s.waits
        /\ new.shown = s.shown /\ new.conflict = s.conflict
    BY <1>5 DEF PanelStates
  <2> HIDE DEF new
  <2>3. Carries(p)'
    BY <1>2, <1>4, <1>5, <2>1, <2>2, ShrunkCarries DEF PageFits, PutFits
  <2>4. s.seen \in Statuses /\ (s.seen # "RUNNING" => status # "RUNNING")
        /\ (status # "COMPLETED" => s.seen # "COMPLETED")
    BY <1>5 DEF PageFits, SeenFits, PanelStates, Statuses
  <2>5. PutFits(p)'
    BY <1>3, <1>4, <1>5, <2>1, <2>2, <2>3, <2>4 DEF PageFits, PutFits
  <2>6. GetFits(p)'
    BY <1>3, <1>4, <1>5, <2>1, <2>2, <2>4 DEF PageFits, GetFits
  <2>7. SeenFits(p)' /\ ConflictFits(p)'
    BY <1>3, <1>4, <1>5, <1>6, <2>1, <2>2 DEF PageFits, SeenFits, ConflictFits
  <2> QED BY <1>2, <1>5, <2>1, <2>5, <2>6, <2>7, OnePage DEF PageFits
<1>8. ASSUME NEW d \in Decision, Prepare(p, d) PROVE ConflictInv'
  <2> DEFINE new == [s EXCEPT !.prepared = d, !.conflict = FALSE]
  <2>1. Set(p, new) /\ panel'[p] = new /\ s.prepared = NULL
    BY <1>8 DEF Prepare, Form, Set, ReviewInv, TypeOK
  <2>2. /\ new.seen = s.seen /\ new.waits = s.waits /\ new.conflict = FALSE
    BY <1>5 DEF PanelStates
  <2> HIDE DEF new
  <2>3. "PUT" \notin s.waits /\ ~Out(p, "PUT")'
    BY <1>3, <1>4, <1>5, <2>1 DEF PageFits, PutFits
  <2>4. PutFits(p)'
    BY <1>3, <1>4, <1>5, <2>1, <2>2, <2>3 DEF PageFits, PutFits, Carries, Out
  <2>5. GetFits(p)' /\ SeenFits(p)' /\ ConflictFits(p)'
    BY <1>3, <1>4, <1>5, <1>6, <2>1, <2>2 DEF PageFits, GetFits, SeenFits, ConflictFits
  <2> QED BY <1>2, <1>5, <2>1, <2>4, <2>5, OnePage DEF PageFits
<1>9. ASSUME Back(p) PROVE ConflictInv'
  <2> DEFINE new == [s EXCEPT !.prepared = NULL]
  <2>1. Set(p, new) /\ panel'[p] = new /\ s.waits = {} /\ s.shown = NULL /\ s.seen = "AWAITING_REVIEW"
    BY <1>9 DEF Back, Confirmation, Set, ReviewInv, TypeOK
  <2>2. /\ new.seen = s.seen /\ new.waits = s.waits /\ new.conflict = s.conflict /\ new.prepared = NULL
        /\ new.shown = s.shown
    BY <1>5 DEF PanelStates
  <2> HIDE DEF new
  <2>3. ~Out(p, "PUT")' /\ ~Out(p, "GET")'
    BY <1>3, <1>4, <1>5, <2>1 DEF PageFits, PutFits, GetFits
  <2>4. PutFits(p)'
    BY <1>3, <1>4, <1>5, <2>1, <2>2, <2>3 DEF PageFits, PutFits, Carries, Out
  <2>5. GetFits(p)' /\ SeenFits(p)' /\ ConflictFits(p)'
    BY <1>3, <1>4, <1>5, <1>6, <2>1, <2>2, <2>3 DEF PageFits, GetFits, SeenFits, ConflictFits
  <2> QED BY <1>2, <1>5, <2>1, <2>4, <2>5, OnePage DEF PageFits
<1> QED BY <1>7, <1>8, <1>9

(* A put and a get are sent when there is none.                            *)
LEMMA ConflictCall ==
  ASSUME ReviewInv, ConflictInv, NEW p \in Page, Confirm(p) \/ LoadExisting(p)
  PROVE  ConflictInv'
<1> DEFINE s == panel[p]
<1>1. PageFits(p) /\ s \in PanelStates /\ Keeps /\ status' = status /\ review' = review
      /\ UNCHANGED handler /\ replies' = replies
  BY PanelFits, Stays DEF ConflictInv, Confirm, LoadExisting, db
<1>2. "PUT" \in Kinds /\ "GET" \in Kinds
  BY DEF Kinds
<1>3. ASSUME Confirm(p) PROVE ConflictInv'
  <2> DEFINE new == [s EXCEPT !.waits = {"PUT"}]
             put == Request(p, "PUT", s.prepared)
  <2>1. /\ Set(p, new) /\ panel'[p] = new /\ net' = net \cup {put}
        /\ s.prepared # NULL /\ s.waits = {} /\ s.seen = "AWAITING_REVIEW"
    BY <1>3 DEF Confirm, Confirmation, Set, ReviewInv, TypeOK
  <2>2. /\ new.seen = s.seen /\ new.prepared = s.prepared /\ new.waits = {"PUT"}
        /\ new.shown = s.shown /\ new.conflict = s.conflict
    BY <1>1 DEF PanelStates
  <2>3. put.from = p /\ put.kind = "PUT" /\ put.decision = s.prepared /\ Of(put, p, "PUT")
    BY DEF Request, Of
  <2> HIDE DEF new, put
  <2>4. \A q \in Page, k \in Kinds : q # p \/ k = "GET" => Shrinks(q, k)
    BY <1>1, <2>1, <2>3, Quiet DEF Of
  <2>5. ~Out(p, "PUT") /\ ~Out(p, "GET")
    BY <1>1, <2>1 DEF PageFits, PutFits, GetFits
  <2>6. Single(p, "PUT")' /\ Carries(p)'
    BY <1>1, <1>2, <2>1, <2>2, <2>3, <2>5, Called
  <2>7. ~Out(p, "GET")' /\ Single(p, "GET")'
    BY <1>1, <1>2, <2>1, <2>4, <2>5, Shrunk DEF PageFits, GetFits
  <2>8. PutFits(p)'
    BY <2>1, <2>2, <2>6 DEF PutFits
  <2>9. GetFits(p)' /\ SeenFits(p)' /\ ConflictFits(p)'
    BY <1>1, <2>1, <2>2, <2>7 DEF PageFits, GetFits, SeenFits, ConflictFits
  <2> QED BY <1>1, <2>1, <2>4, <2>8, <2>9, OnePage DEF PageFits
<1>4. ASSUME LoadExisting(p) PROVE ConflictInv'
  <2> DEFINE new == [s EXCEPT !.waits = @ \cup {"GET"}, !.conflict = FALSE]
             get == Request(p, "GET", NULL)
  <2>1. /\ Set(p, new) /\ panel'[p] = new /\ net' = net \cup {get} /\ s.seen = "COMPLETED"
    BY <1>4 DEF LoadExisting, LookUp, Set, ReviewInv, TypeOK
  <2>2. /\ new.seen = s.seen /\ new.prepared = s.prepared /\ new.waits = s.waits \cup {"GET"}
        /\ new.conflict = FALSE
    BY <1>1 DEF PanelStates
  <2>3. get.from = p /\ get.kind = "GET"
    BY DEF Request
  <2> HIDE DEF new, get
  <2>4. \A q \in Page, k \in Kinds : q # p \/ k = "PUT" => Shrinks(q, k)
    BY <1>1, <2>1, <2>3, Quiet DEF Of
  <2>5. (Out(p, "PUT")' => Out(p, "PUT")) /\ Single(p, "PUT")' /\ Carries(p)'
    BY <1>1, <1>2, <2>1, <2>2, <2>4, Shrunk, ShrunkCarries DEF PageFits, PutFits
  <2>6. PutFits(p)'
    BY <1>1, <2>1, <2>2, <2>5 DEF PageFits, PutFits
  <2>7. GetFits(p)' /\ SeenFits(p)' /\ ConflictFits(p)'
    BY <1>1, <2>1, <2>2 DEF PageFits, GetFits, SeenFits, ConflictFits
  <2> QED BY <1>1, <2>1, <2>4, <2>6, <2>7, OnePage DEF PageFits
<1> QED BY <1>3, <1>4
(* An answer that is taken is the only one the page had out for its call.  *)
LEMMA LastAnswer ==
  ASSUME NEW p \in Page, NEW k \in Kinds, NEW r \in replies, Answers(r, p, k), Single(p, k),
         \A m \in net' : Of(m, p, k) => m \in net, replies' = replies \ {r}, UNCHANGED handler
  PROVE  ~Out(p, k)'
  BY DEF Single, Out, Serves, Answers, Of

LEMMA ConflictReply ==
  ASSUME ReviewInv, ConflictInv, NEW p \in Page, NEW r \in replies, TakeReply(p, r)
  PROVE  ConflictInv'
<1> DEFINE s == panel[p]
<1>1. PageFits(p) /\ s \in PanelStates /\ Keeps /\ status' = status /\ review' = review
      /\ UNCHANGED handler /\ replies' = replies \ {r} /\ r.to = p
  BY PanelFits, Stays DEF ConflictInv, TakeReply, db
<1>2. "PUT" \in Kinds /\ "GET" \in Kinds
  BY DEF Kinds
<1>3. CASE r.kind = "PUT" /\ r.code = "OK"
  <2> DEFINE new == [s EXCEPT !.shown = r.review, !.prepared = NULL, !.conflict = FALSE,
                              !.waits = @ \ {"PUT"}]
  <2>1. Set(p, new) /\ panel'[p] = new /\ net' = net
    BY <1>3 DEF TakeReply, Set, ReviewInv, TypeOK
  <2>2. new.seen = s.seen /\ new.waits = s.waits \ {"PUT"} /\ new.conflict = FALSE
    BY <1>1 DEF PanelStates
  <2> HIDE DEF new
  <2>3. \A q \in Page, k \in Kinds : Shrinks(q, k)
    BY <1>1, <2>1, Quiet
  <2>4. ~Out(p, "PUT")'
    BY <1>1, <1>2, <1>3, <2>1, LastAnswer DEF PageFits, PutFits, Answers
  <2>5. (Out(p, "GET")' => Out(p, "GET")) /\ (Single(p, "GET") => Single(p, "GET")')
    BY <1>2, <2>3, Shrunk
  <2>6. PutFits(p)'
    BY <2>1, <2>2, <2>4 DEF PutFits, Carries, Single, Out
  <2>7. GetFits(p)' /\ SeenFits(p)' /\ ConflictFits(p)'
    BY <1>1, <2>1, <2>2, <2>5 DEF PageFits, GetFits, SeenFits, ConflictFits
  <2> QED BY <1>1, <2>1, <2>3, <2>6, <2>7, OnePage DEF PageFits
<1>4. CASE r.kind = "GET"
  <2> DEFINE new == [s EXCEPT !.shown = r.review, !.waits = @ \ {"GET"}]
  <2>1. Set(p, new) /\ panel'[p] = new /\ net' = net
    BY <1>4 DEF TakeReply, Set, ReviewInv, TypeOK
  <2>2. /\ new.seen = s.seen /\ new.waits = s.waits \ {"GET"} /\ new.conflict = s.conflict
        /\ new.prepared = s.prepared
    BY <1>1 DEF PanelStates
  <2> HIDE DEF new
  <2>3. \A q \in Page, k \in Kinds : Shrinks(q, k)
    BY <1>1, <2>1, Quiet
  <2>4. Out(p, "GET")
    BY <1>1, <1>4 DEF Out, Answers
  <2>5. s.seen # "COMPLETED" => ~Out(p, "GET")' /\ Single(p, "GET")'
    BY <1>1, <1>2, <1>4, <2>1, LastAnswer, NoneOut DEF PageFits, GetFits, Answers, Single, Out
  <2>6. (Out(p, "PUT")' => Out(p, "PUT")) /\ Single(p, "PUT")' /\ Carries(p)'
    BY <1>1, <1>2, <2>1, <2>2, <2>3, Shrunk, ShrunkCarries DEF PageFits, PutFits
  <2>7. PutFits(p)'
    BY <1>1, <2>1, <2>2, <2>6 DEF PageFits, PutFits
  <2>8. GetFits(p)' /\ SeenFits(p)' /\ ConflictFits(p)'
    BY <1>1, <2>1, <2>2, <2>4, <2>5 DEF PageFits, GetFits, SeenFits, ConflictFits
  <2> QED BY <1>1, <2>1, <2>3, <2>7, <2>8, OnePage DEF PageFits
<1>5. CASE r.kind = "PUT" /\ r.code = "CONFLICT" /\ OnConflict(p, s)
  <2> DEFINE new == [s EXCEPT !.waits = {"GET"}, !.conflict = TRUE]
             get == Request(p, "GET", NULL)
  <2>1. Set(p, new) /\ panel'[p] = new /\ net' = net \cup {get}
    BY <1>5 DEF OnConflict, Set, ReviewInv, TypeOK
  <2>2. /\ new.seen = s.seen /\ new.waits = {"GET"} /\ new.conflict = TRUE
        /\ new.prepared = s.prepared
    BY <1>1 DEF PanelStates
  <2>3. get.from = p /\ get.kind = "GET" /\ Of(get, p, "GET")
    BY DEF Request, Of
  <2> HIDE DEF new, get
  <2>4. \A q \in Page, k \in Kinds : q # p \/ k = "PUT" => Shrinks(q, k)
    BY <1>1, <2>1, <2>3, Quiet DEF Of
  <2>5. Answers(r, p, "PUT") /\ Out(p, "PUT") /\ Single(p, "PUT") /\ Carries(p)
    BY <1>1, <1>5 DEF Answers, Out, PageFits, PutFits
  <2>6. s.prepared # NULL /\ "PUT" \in s.waits /\ review # NULL /\ review # s.prepared
    BY <1>1, <1>5, <2>5 DEF PageFits, PutFits, Carries
  <2>7. ~Out(p, "PUT")'
    <3>1. \A m \in net' : Of(m, p, "PUT") => m \in net
      BY <2>1, <2>3 DEF Of
    <3> QED BY <1>1, <1>2, <2>5, <3>1, LastAnswer
  <2>8. s.seen # "COMPLETED" => Single(p, "GET")'
    BY <1>1, <1>2, <2>1, <2>3, <2>6, Called DEF PageFits, GetFits
  <2>9. PutFits(p)'
    BY <2>1, <2>2, <2>7 DEF PutFits, Carries, Single, Out
  <2>10. GetFits(p)' /\ SeenFits(p)' /\ ConflictFits(p)'
    BY <1>1, <2>1, <2>2, <2>6, <2>8 DEF PageFits, GetFits, SeenFits, ConflictFits
  <2> QED BY <1>1, <2>1, <2>4, <2>9, <2>10, OnePage DEF PageFits
<1> QED BY <1>3, <1>4, <1>5 DEF TakeReply

(* Calls that are given up are out no more, and the others stay as they    *)
(* are.                                                                    *)
LEMMA GivenUp ==
  ASSUME ReviewInv, NEW p \in Page, NEW kinds \in SUBSET Kinds, HangUp(p, kinds)
  PROVE  /\ \A q \in Page, k \in Kinds : Shrinks(q, k)
         /\ \A k \in kinds : ~Out(p, k)'
<1>1. \A h \in Handler : /\ handler'[h].pc = handler[h].pc
                         /\ handler[h].pc # "IDLE" => handler'[h].req = Orphan(handler[h].req, p, kinds)
  BY DEF HangUp, ReviewInv, TypeOK
<1>2. \A m \in Requests, q \in Page, k \in Kinds :
        Of(Orphan(m, p, kinds), q, k) => Orphan(m, p, kinds) = m /\ ~(q = p /\ k \in kinds)
  <2> SUFFICES ASSUME NEW m \in Requests, NEW q \in Page, NEW k \in Kinds,
                      Of(Orphan(m, p, kinds), q, k)
               PROVE  Orphan(m, p, kinds) = m /\ ~(q = p /\ k \in kinds)
    OBVIOUS
  <2>1. CASE m.from = p /\ m.kind \in kinds
    <3>1. Orphan(m, p, kinds).from = NULL
      BY <2>1 DEF Orphan, Requests
    <3> QED BY <3>1, ReviewAssumption DEF Of
  <2>2. CASE ~(m.from = p /\ m.kind \in kinds)
    BY <2>2 DEF Orphan, Of
  <2> QED BY <2>1, <2>2
<1>3. \A m \in net' : \E n \in net : m = Orphan(n, p, kinds)
  BY DEF HangUp
<1>4. net \subseteq Requests /\ \A h \in Handler : handler[h].pc # "IDLE" => handler[h].req \in Requests
  BY DEF ReviewInv, TypeOK, Shape
<1>5. \A m \in net', q \in Page, k \in Kinds : Of(m, q, k) => m \in net /\ ~(q = p /\ k \in kinds)
  BY <1>2, <1>3, <1>4
<1>6. \A h \in Handler, q \in Page, k \in Kinds :
        Serves(h, q, k)' => /\ Serves(h, q, k) /\ handler'[h].req = handler[h].req
                            /\ ~(q = p /\ k \in kinds)
  BY <1>1, <1>2, <1>4 DEF Serves
<1>7. \A r \in replies' : r \in replies /\ (r.to # p \/ r.kind \notin kinds)
  BY DEF HangUp
<1>8. \A q \in Page, k \in Kinds : Shrinks(q, k)
  BY <1>5, <1>6, <1>7 DEF Shrinks
<1>9. \A k \in kinds : ~Out(p, k)'
  BY <1>5, <1>6, <1>7 DEF Out, Answers
<1> QED BY <1>8, <1>9
(* Calls of kind `kind` are given up, or the last one dies, and the page   *)
(* no longer waits.                                                        *)
LEMMA WaitsLess ==
  ASSUME ReviewInv, ConflictInv, NEW p \in Page, NEW kind \in Kinds,
         Set(p, [panel[p] EXCEPT !.waits = @ \ {kind}]), Keeps,
         \A q \in Page, k \in Kinds : Shrinks(q, k),
         kind = "PUT" \/ panel[p].seen # "COMPLETED" => ~Out(p, kind)'
  PROVE  ConflictInv'
<1> DEFINE s == panel[p]
           new == [s EXCEPT !.waits = @ \ {kind}]
<1>1. PageFits(p) /\ s \in PanelStates
  BY PanelFits DEF ConflictInv
<1>2. Set(p, new) /\ panel'[p] = new
  BY DEF Set, ReviewInv, TypeOK
<1>3. /\ new.seen = s.seen /\ new.waits = s.waits \ {kind} /\ new.conflict = s.conflict
      /\ new.prepared = s.prepared /\ new.shown = s.shown
  BY <1>1 DEF PanelStates
<1> HIDE DEF new
<1>4. "PUT" \in Kinds /\ "GET" \in Kinds /\ kind \in {"PUT", "GET"}
  BY DEF Kinds
<1>5. \A k \in Kinds : (Out(p, k)' => Out(p, k)) /\ (Single(p, k) => Single(p, k)')
  BY Shrunk
<1>6. Carries(p)'
  BY <1>1, <1>2, <1>3, <1>4, ShrunkCarries DEF PageFits, PutFits
<1>7. PutFits(p)'
  BY <1>1, <1>2, <1>3, <1>4, <1>5, <1>6 DEF PageFits, PutFits
<1>8. GetFits(p)'
  BY <1>1, <1>2, <1>3, <1>4, <1>5 DEF PageFits, GetFits
<1>9. SeenFits(p)' /\ ConflictFits(p)'
  BY <1>1, <1>2, <1>3, <1>4, <1>5 DEF PageFits, SeenFits, ConflictFits, Keeps
<1> QED BY <1>2, <1>7, <1>8, <1>9, OnePage DEF PageFits

LEMMA ConflictGiveUp ==
  ASSUME ReviewInv, ConflictInv, NEW p \in Page, Reload(p) \/ \E kind \in Kinds : CallFails(p, kind)
  PROVE  ConflictInv'
<1>1. ASSUME NEW kind \in Kinds, CallFails(p, kind) PROVE ConflictInv'
  <2>1. /\ HangUp(p, {kind}) /\ {kind} \in SUBSET Kinds /\ Keeps
        /\ Set(p, [panel[p] EXCEPT !.waits = @ \ {kind}])
    BY <1>1, Stays DEF CallFails
  <2> QED BY <2>1, GivenUp, WaitsLess
<1>2. ASSUME Reload(p) PROVE ConflictInv'
  <2>1. HangUp(p, Kinds) /\ Set(p, FreshPanel) /\ Keeps /\ panel'[p] = FreshPanel
    BY <1>2, Stays DEF Reload, Set, ReviewInv, TypeOK
  <2>2. ~Out(p, "PUT")' /\ ~Out(p, "GET")' /\ \A q \in Page, k \in Kinds : Shrinks(q, k)
    BY <2>1, GivenUp DEF Kinds
  <2>3. PageFits(p)'
    BY <2>1, <2>2 DEF PageFits, PutFits, GetFits, SeenFits, ConflictFits, FreshPanel, Single, Carries, Out
  <2> QED BY <2>1, <2>2, <2>3, OnePage
<1> QED BY <1>1, <1>2

-----------------------------------------------------------------------------
(* Steps that leave every page and its calls as they are, or fewer.        *)
LEMMA ConflictElsewhere ==
  ASSUME ReviewInv, ConflictInv,
         \/ \E d \in Decision : Script(d)
         \/ \E m \in net : Vanish(m)
         \/ \E h \in Handler : LockInvestigation(h) \/ ReadReview(h)
         \/ DeliverReport
  PROVE  ConflictInv'
<1>1. \A m \in net', p \in Page, k \in Kinds : Of(m, p, k) => m \in net
  <2>1. CASE \E d \in Decision : Script(d)
    BY <2>1, ReviewAssumption DEF Script, Of, Request
  <2>2. CASE ~\E d \in Decision : Script(d)
    BY <2>2 DEF Vanish, LockInvestigation, ReadReview, DeliverReport
  <2> QED BY <2>1, <2>2
<1>2. /\ UNCHANGED <<panel, replies>>
      /\ \A h \in Handler : handler'[h].pc # "IDLE" =>
                              handler[h].pc # "IDLE" /\ handler'[h].req = handler[h].req
  <2>1. CASE \E h \in Handler : LockInvestigation(h) \/ ReadReview(h)
    BY <2>1 DEF LockInvestigation, ReadReview, ReviewInv, TypeOK
  <2>2. CASE ~\E h \in Handler : LockInvestigation(h) \/ ReadReview(h)
    BY <2>2 DEF Script, Vanish, DeliverReport
  <2> QED BY <2>1, <2>2
<1>3. \A p \in Page, k \in Kinds : Shrinks(p, k)
  BY <1>1, <1>2 DEF Shrinks, Serves
<1>4. Keeps
  BY DEF Script, Vanish, LockInvestigation, ReadReview, DeliverReport, Keeps, db
<1> QED BY <1>2, <1>3, <1>4, Untouched DEF ConflictInv

LEMMA ConflictReceive ==
  ASSUME ReviewInv, ConflictInv, NEW h \in Handler, NEW m \in net, Receive(h, m)
  PROVE  ConflictInv'
<1>1. /\ net' = net \ {m} /\ UNCHANGED <<panel, replies>> /\ Keeps /\ handler[h].pc = "IDLE"
      /\ status' = status /\ review' = review
  BY Stays DEF Receive, db
<1>2. /\ handler'[h].req = m /\ handler'[h].pc = "CALLED"
      /\ \A g \in Handler : g # h => handler'[g] = handler[g]
  BY DEF Receive, ReviewInv, TypeOK, IdleHandler
<1>3. \A p \in Page, k \in Kinds :
        /\ Serves(h, p, k)' <=> Of(m, p, k)
        /\ ~Serves(h, p, k)
        /\ \A g \in Handler : g # h => (Serves(g, p, k)' <=> Serves(g, p, k))
  BY <1>1, <1>2 DEF Serves, Of
<1> SUFFICES ASSUME NEW p \in Page PROVE PageFits(p)'
  BY DEF ConflictInv
<1>4. PageFits(p)
  BY DEF ConflictInv
<1>5. \A k \in Kinds : Out(p, k)' => Out(p, k)
  BY <1>1, <1>3 DEF Out
<1>6. \A k \in Kinds : Single(p, k) => Single(p, k)'
  <2> SUFFICES ASSUME NEW k \in Kinds, Single(p, k) PROVE Single(p, k)'
    OBVIOUS
  <2>1. CASE Of(m, p, k)
    <3>1. \A n \in net' : ~Of(n, p, k)
      BY <1>1, <2>1 DEF Single
    <3>2. \A g \in Handler : Serves(g, p, k)' => g = h
      BY <1>3, <2>1 DEF Single
    <3>3. \A r \in replies' : ~Answers(r, p, k)
      BY <1>1, <2>1 DEF Single
    <3> QED BY <3>1, <3>2, <3>3 DEF Single
  <2>2. CASE ~Of(m, p, k)
    <3>1. \A g \in Handler : Serves(g, p, k)' => Serves(g, p, k)
      BY <1>3, <2>2
    <3> QED BY <1>1, <3>1 DEF Single
  <2> QED BY <2>1, <2>2
<1>7. Carries(p)'
  <2>1. Carries(p)
    BY <1>4 DEF PageFits, PutFits
  <2>2. "PUT" \in Kinds
    BY DEF Kinds
  <2>3. \A g \in Handler : Serves(g, p, "PUT")' => handler'[g].req.decision = panel'[p].prepared
    BY <1>1, <1>2, <1>3, <2>1, <2>2 DEF Carries
  <2> QED BY <1>1, <2>1, <2>3 DEF Carries
<1> QED BY <1>1, <1>4, <1>5, <1>6, <1>7, LeftAlone

(* An answer takes the place of the request it answers.                    *)
LEMMA ConflictAnswered ==
  ASSUME ReviewInv, ConflictInv, NEW h \in Handler, NEW code, NEW rev, Reply(h, code, rev),
         handler[h].pc # "IDLE", UNCHANGED <<panel, net>>, Keeps,
         code = "CONFLICT" => \A p \in Page : Serves(h, p, "PUT") =>
                                review' # NULL /\ review' # panel[p].prepared
  PROVE  ConflictInv'
<1> DEFINE req == handler[h].req
           ans == [to |-> req.from, kind |-> req.kind, code |-> code, review |-> rev]
<1>1. /\ handler'[h].pc = "IDLE"
      /\ \A g \in Handler : g # h => handler'[g] = handler[g]
  BY DEF Reply, ReviewInv, TypeOK, IdleHandler
<1>2. \A p \in Page, k \in Kinds :
        /\ ~Serves(h, p, k)'
        /\ \A g \in Handler : g # h => (Serves(g, p, k)' <=> Serves(g, p, k))
  BY <1>1 DEF Serves
<1>3. \A p \in Page, k \in Kinds :
        /\ \A r \in replies' : Answers(r, p, k) => r \in replies \/ (r = ans /\ Serves(h, p, k))
  BY DEF Reply, Answers, Serves, Of
<1> SUFFICES ASSUME NEW p \in Page PROVE PageFits(p)'
  BY DEF ConflictInv
<1>4. PageFits(p)
  BY DEF ConflictInv
<1>5. \A k \in Kinds : Out(p, k)' => Out(p, k)
  BY <1>2, <1>3 DEF Out
<1>6. \A k \in Kinds : Single(p, k) => Single(p, k)'
  <2> SUFFICES ASSUME NEW k \in Kinds, Single(p, k) PROVE Single(p, k)'
    OBVIOUS
  <2> HIDE DEF ans
  <2>1. CASE Serves(h, p, k)
    <3>1. \A n \in net' : ~Of(n, p, k)
      BY <2>1 DEF Single
    <3>2. \A g \in Handler : ~Serves(g, p, k)'
      BY <1>2, <2>1 DEF Single
    <3>3. \A r \in replies' : Answers(r, p, k) => r = ans
      BY <1>3, <2>1 DEF Single
    <3> QED BY <3>1, <3>2, <3>3 DEF Single
  <2>2. CASE ~Serves(h, p, k)
    <3>1. \A g \in Handler : Serves(g, p, k)' => Serves(g, p, k)
      BY <1>2
    <3>2. \A r \in replies' : Answers(r, p, k) => r \in replies
      BY <1>3, <2>2
    <3> QED BY <3>1, <3>2 DEF Single
  <2> QED BY <2>1, <2>2
<1>7. Carries(p)'
  <2>1. Carries(p) /\ "PUT" \in Kinds
    BY <1>4 DEF PageFits, PutFits, Kinds
  <2>2. \A g \in Handler : Serves(g, p, "PUT")' => handler'[g].req.decision = panel'[p].prepared
    BY <1>1, <1>2, <2>1 DEF Carries
  <2>3. \A r \in replies' : Answers(r, p, "PUT") /\ r.code = "CONFLICT"
                            => review' # NULL /\ review' # panel'[p].prepared
    BY <1>3, <2>1 DEF Carries, Keeps
  <2> QED BY <2>1, <2>2, <2>3 DEF Carries
<1> QED BY <1>4, <1>5, <1>6, <1>7, LeftAlone

(* A put is refused only when another decision is on record: its page      *)
(* was told that the investigation awaits review, and it still does        *)
(* unless there is a review.                                               *)
LEMMA ConflictAnswers ==
  ASSUME ReviewInv, ConflictInv, NEW h \in Handler,
         AnswerSame(h) \/ AnswerConflict(h) \/ GetReview(h) \/ Decide(h)
  PROVE  ConflictInv'
<1> DEFINE s == handler[h]
<1>1. s \in HandlerStates /\ Fits(s)
  BY HandlerFits
<1>2. UNCHANGED <<panel, net>> /\ s.pc # "IDLE"
  BY DEF AnswerSame, AnswerConflict, GetReview, Decide
<1>3. CASE AnswerSame(h)
  BY <1>2, <1>3, Stays, ConflictAnswered DEF AnswerSame
<1>4. CASE AnswerConflict(h)
  <2>1. s.pc = "READ" /\ Verdict(s) = "CONFLICT" /\ Reply(h, "CONFLICT", NULL) /\ Keeps /\ review' = review
    BY <1>4, Stays DEF AnswerConflict, db
  <2>2. s.existing = review /\ s.seen = status /\ s.req.decision \in Decision /\ s.req.kind = "PUT"
    BY <1>1, <2>1 DEF Fits
  <2>3. s.existing # s.req.decision /\ (s.existing = NULL => s.seen # "AWAITING_REVIEW")
    BY <2>1, <2>2, ReviewAssumption DEF Verdict
  <2>4. ASSUME NEW p \in Page, Serves(h, p, "PUT") PROVE review # NULL /\ review # panel[p].prepared
    <3>1. PutFits(p) /\ SeenFits(p) /\ panel[p] \in PanelStates
      BY PanelFits DEF ConflictInv, PageFits
    <3>2. s.req.decision = panel[p].prepared /\ Out(p, "PUT")
      BY <2>4, <3>1 DEF PutFits, Carries, Out
    <3>3. panel[p].seen # "RUNNING" /\ panel[p].seen \in Statuses
      BY <3>1, <3>2 DEF PutFits, PanelStates
    <3>4. status # "RUNNING" /\ status \in Statuses
      BY <3>1, <3>3 DEF SeenFits, Statuses, ReviewInv, TypeOK
    <3>5. review = NULL => status = "AWAITING_REVIEW"
      BY <3>4 DEF ReviewInv, OneDecision, Statuses
    <3> QED BY <2>2, <2>3, <3>2, <3>5
  <2> QED BY <1>2, <2>1, <2>4, ConflictAnswered
<1>5. CASE GetReview(h)
  BY <1>2, <1>5, Stays, ConflictAnswered DEF GetReview
<1>6. CASE Decide(h)
  <2>1. s.pc = "READ" /\ Verdict(s) = "DECIDE" /\ Reply(h, "OK", review') /\ status' = "COMPLETED"
    BY <1>6 DEF Decide
  <2>2. review = NULL
    BY <1>1, <2>1, ReviewAssumption DEF Fits, Verdict
  <2>3. Keeps
    BY <2>1, <2>2 DEF Keeps
  <2> QED BY <1>2, <2>1, <2>3, ConflictAnswered
<1> QED BY <1>3, <1>4, <1>5, <1>6

(* A handler dies with the only call of its kind its page had out.         *)
LEMMA ConflictDie ==
  ASSUME ReviewInv, ConflictInv, NEW h \in Handler, Die(h)
  PROVE  ConflictInv'
<1> DEFINE req == handler[h].req
<1>1. req \in Requests /\ handler[h].pc # "IDLE"
  BY DEF ReviewInv, Shape, Die
<1>2. /\ handler'[h].pc = "IDLE"
      /\ \A g \in Handler : g # h => handler'[g] = handler[g]
      /\ UNCHANGED <<net, replies>> /\ Keeps
  BY Stays DEF Die, ReviewInv, TypeOK, IdleHandler
<1>3. \A p \in Page, k \in Kinds : Shrinks(p, k) /\ ~Serves(h, p, k)'
  BY <1>2 DEF Shrinks, Serves
<1>4. CASE req.from = NULL
  <2>1. panel' = panel
    BY <1>4 DEF Die
  <2> QED BY <1>2, <1>3, <2>1, Untouched DEF ConflictInv
<1>5. CASE req.from # NULL
  <2>1. PICK p \in Page, kind \in Kinds : req.from = p /\ req.kind = kind /\ Serves(h, p, kind)
    BY <1>1, <1>5 DEF Requests, Serves, Of
  <2>2. Set(p, [panel[p] EXCEPT !.waits = @ \ {kind}])
    BY <1>5, <2>1 DEF Die, Set, ReviewInv, TypeOK
  <2>3. Single(p, kind) => ~Out(p, kind)'
    BY <1>2, <1>3, <2>1 DEF Single, Out, Serves
  <2>4. kind = "PUT" \/ panel[p].seen # "COMPLETED" => Single(p, kind)
    BY <2>1 DEF ConflictInv, PageFits, PutFits, GetFits, Kinds
  <2> QED BY <1>2, <1>3, <2>1, <2>2, <2>3, <2>4, WaitsLess
<1> QED BY <1>4, <1>5

LEMMA ConflictStep == ReviewInv /\ ConflictInv /\ [Next]_vars => ConflictInv'
<1> SUFFICES ASSUME ReviewInv, ConflictInv, [Next]_vars PROVE ConflictInv'
  OBVIOUS
<1>1. CASE UNCHANGED vars
  <2>1. /\ UNCHANGED <<panel, net, replies, handler>> /\ Keeps
    BY <1>1, Stays DEF vars
  <2>2. \A p \in Page, k \in Kinds : Shrinks(p, k)
    BY <2>1, Quiet
  <2> QED BY <2>1, <2>2, Untouched DEF ConflictInv
<1>2. ASSUME NEW p \in Page,
             \/ \E d \in Decision : Prepare(p, d)
             \/ Refetch(p) \/ Back(p) \/ Confirm(p) \/ LoadExisting(p) \/ Reload(p)
             \/ \E r \in replies : TakeReply(p, r)
             \/ \E kind \in Kinds : CallFails(p, kind)
      PROVE  ConflictInv'
  BY <1>2, ConflictPrepare, ConflictCall, ConflictReply, ConflictGiveUp
<1>3. CASE \E d \in Decision : Script(d)
  BY <1>3, ConflictElsewhere
<1>4. CASE \E m \in net : Vanish(m) \/ \E h \in Handler : Receive(h, m)
  BY <1>4, ConflictElsewhere, ConflictReceive
<1>5. CASE \E h \in Handler : HandlerStep(h) \/ Die(h)
  BY <1>5, ConflictElsewhere, ConflictAnswers, ConflictDie DEF HandlerStep
<1>6. CASE DeliverReport
  BY <1>6, ConflictElsewhere
<1> QED BY <1>1, <1>2, <1>3, <1>4, <1>5, <1>6 DEF Next

(* ReviewPanel: each page has one put out at most, of what it prepared,    *)
(* whatever is lost, retried, reloaded or orphaned on the way.             *)
THEOREM CallsFit == Spec => []ConflictInv
<1> QED BY InitConflict, ConflictStep, ReviewInvariant, PTL DEF Spec

(* put_review and submitMutation's onError: a page that shows the record   *)
(* next to a conflict never shows the decision it had prepared itself.     *)
THEOREM ConflictsTrue == Spec => []ConflictTold
<1>1. ReviewInv /\ ConflictInv => ConflictTold
  BY DEF ReviewInv, ShownIsRecord, ConflictInv, PageFits, ConflictFits, ConflictTold
<1> QED BY <1>1, ReviewInvariant, CallsFit, PTL
=============================================================================
