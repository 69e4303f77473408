------------------------------ MODULE Revisions ------------------------------
(***************************************************************************)
(* The revisions of one product: drafted, saved, submitted, approved by    *)
(* somebody else, published.  Every operation reads the revision first and *)
(* writes it by its id afterwards; only an approval looks at the status    *)
(* again when it writes.                                                   *)
(***************************************************************************)
EXTENDS Naturals, Sequences, FiniteSets

CONSTANTS Editors,      \* people who write and review revisions
          Texts,        \* contents a draft may be saved with; 0 is the product's own
          MaxRevs,
          Editing       \* requests the server works on at a time

ASSUME RevisionsAssumption == Texts \subseteq Nat \ {0} /\ MaxRevs \in Nat

VARIABLES revs,       \* ProductRevision rows by version number
          approvals,  \* RevisionApproval rows: revision, reviewer and the text that was read
          published,  \* Product.currentPublishedRevId, 0 for none
          draft,      \* Product.currentDraftRevId
          late,       \* ghost: revisions a save reached after they had left DRAFT
          ownText,    \* ghost: revisions whose reviewer had saved the text himself
          working,    \* the request of each editing slot
          revOps

book == <<revs, approvals, published, draft, late, ownText, working, revOps>>

NoWork == [kind |-> "none"]

RevisionsInit ==
  /\ revs = <<>> /\ approvals = {} /\ published = 0 /\ draft = 0 /\ late = {} /\ ownText = {}
  /\ working = [e \in Editing |-> NoWork]

AskWork(e, work) ==
  /\ working[e] = NoWork /\ revOps > 0 /\ revOps' = revOps - 1
  /\ working' = [working EXCEPT ![e] = work]
  /\ UNCHANGED <<revs, approvals, published, draft, late, ownText>>

EndWork(e) == working' = [working EXCEPT ![e] = NoWork]

\* createDraft: the published revision and the number of revisions as they are now.
AskDraft(e, who) ==
  AskWork(e, [kind |-> "draft", who |-> who, parent |-> published, count |-> Len(revs)])

\* The index (product, versionNumber) refuses the slower of two; the pointer follows
\* in a statement of its own.
InsertDraft(e) ==
  LET r == working[e]
  IN /\ r.kind = "draft" /\ Len(revs) < MaxRevs
     /\ IF Len(revs) = r.count
        THEN /\ revs' = Append(revs, [status |-> "DRAFT", parent |-> r.parent, author |-> r.who,
                                   text |-> 0, writer |-> r.who])
             /\ working' = [working EXCEPT ![e] = [kind |-> "point", id |-> Len(revs) + 1]]
        ELSE EndWork(e) /\ UNCHANGED revs
     /\ UNCHANGED <<approvals, published, draft, late, ownText, revOps>>

PointDraft(e) ==
  /\ working[e].kind = "point"
  /\ draft' = working[e].id
  /\ EndWork(e) /\ UNCHANGED <<revs, approvals, published, late, ownText, revOps>>

\* saveDraft, by anybody, and submitForReview: found as DRAFT, written by id.
AskSave(e, id, who, text) ==
  /\ revs[id].status = "DRAFT" /\ revs[id].text # text
  /\ AskWork(e, [kind |-> "save", id |-> id, who |-> who, text |-> text])

Save(e) ==
  LET r == working[e]
  IN /\ r.kind = "save"
     /\ revs' = [revs EXCEPT ![r.id] = [@ EXCEPT !.text = r.text, !.writer = r.who]]
     /\ late' = IF revs[r.id].status = "DRAFT" THEN late ELSE late \cup {r.id}
     /\ EndWork(e) /\ UNCHANGED <<approvals, published, draft, ownText, revOps>>

AskSubmit(e, id) ==
  /\ revs[id].status = "DRAFT"
  /\ AskWork(e, [kind |-> "submit", id |-> id])

Submit(e) ==
  LET r == working[e]
  IN /\ r.kind = "submit"
     /\ revs' = [revs EXCEPT ![r.id].status = "PENDING_REVIEW"]
     /\ EndWork(e) /\ UNCHANGED <<approvals, published, draft, late, ownText, revOps>>

\* Mutant: authors approve their own.
MayApproveAny(who, id) == revs[id].status = "PENDING_REVIEW"

\* Mutant: a draft is approved before it is sent for review.
MayApproveDraft(who, id) == revs[id].status \in {"DRAFT", "PENDING_REVIEW"} /\ revs[id].author # who

\* Separation of duties: the reviewer did not create the revision.
MayApprove(who, id) == revs[id].status = "PENDING_REVIEW" /\ revs[id].author # who

AskApprove(e, id, who) ==
  /\ MayApprove(who, id)
  /\ AskWork(e, [kind |-> "approve", id |-> id, who |-> who, text |-> revs[id].text])

\* The approval row, and the status if it is still PENDING_REVIEW.
Approve(e) ==
  LET r == working[e]
  IN /\ r.kind = "approve"
     /\ approvals' = approvals \cup {[id |-> r.id, who |-> r.who, text |-> r.text]}
     /\ revs' = [revs EXCEPT ![r.id].status = IF @ = "PENDING_REVIEW" THEN "APPROVED" ELSE @]
     /\ ownText' = IF revs[r.id].writer = r.who THEN ownText \cup {r.id} ELSE ownText
     /\ EndWork(e) /\ UNCHANGED <<published, draft, late, revOps>>

Publishable(id) == revs[id].status = "APPROVED"

\* publish: APPROVED, and written on top of what is published now.
AskPublish(e, id) ==
  /\ Publishable(id) /\ published \in {0, revs[id].parent}
  /\ AskWork(e, [kind |-> "publish", id |-> id, old |-> published])

Publish(e) ==
  LET r == working[e]
  IN /\ r.kind = "publish"
     /\ revs' = [i \in DOMAIN revs |->
          IF i = r.id THEN [revs[i] EXCEPT !.status = "PUBLISHED"]
          ELSE IF i = r.old THEN [revs[i] EXCEPT !.status = "SUPERSEDED"] ELSE revs[i]]
     /\ published' = r.id /\ draft' = 0
     /\ EndWork(e) /\ UNCHANGED <<approvals, late, ownText, revOps>>

RevisionsStep ==
  \E e \in Editing :
    \/ \E who \in Editors : AskDraft(e, who) \/ \E id \in DOMAIN revs : AskApprove(e, id, who)
    \/ \E id \in DOMAIN revs : AskSubmit(e, id) \/ AskPublish(e, id)
    \/ \E id \in DOMAIN revs, who \in Editors, text \in Texts : AskSave(e, id, who, text)
    \/ InsertDraft(e) \/ PointDraft(e) \/ Save(e) \/ Submit(e) \/ Approve(e) \/ Publish(e)

-----------------------------------------------------------------------------

\* Whatever is published, was or is ready to be was approved by somebody who did not
\* create it, although statuses are written from reads that may be old; and that person
\* read the text it carries and did not write it.  Two exceptions, each of them a save:
\* one that was let in before the review and lands after it, and one by the reviewer
\* himself, for saveDraft asks nobody who he is.
PublishedWasReviewed ==
  \A i \in DOMAIN revs :
    (revs[i].status \in {"APPROVED", "PUBLISHED", "SUPERSEDED"} \/ i = published)
      => \E a \in approvals :
           /\ a.id = i /\ a.who # revs[i].author
           /\ i \notin late \cup ownText => a.text = revs[i].text /\ a.who # revs[i].writer
==============================================================================
