------------------------- MODULE DraftingProperties -------------------------
(* What drafting and review guarantee. *)
EXTENDS Drafting

Statuses == {"suppressed", "failed", "review_required", "decided", "superseded"}
Messages ==
  [thread : 0..MaxMessages, root : 0..MaxMessages, status : Statuses,
   failure : {"none", "transient", "permanent", "blocked"}, retries : 0..RetryLimit,
   rewrites : 0..RewriteLimit, prompt : BOOLEAN, plain : BOOLEAN, late : BOOLEAN]

\* Typing; a message belongs to a thread, and a failed row says why.
TypeOK ==
  /\ messages \in Seq(Messages) /\ Len(messages) <= MaxMessages /\ Len(tried) = Len(messages)
  /\ threads \in Seq({"address", "token"})
  /\ \A i \in DOMAIN messages :
       /\ messages[i].thread \in DOMAIN threads
       /\ Is(i, "failed") <=> messages[i].failure # "none"
  /\ \A w \in Workers : call[w].read \in Messages
  /\ listed \in {None} \cup SUBSET DOMAIN threads

-----------------------------------------------------------------------------

Chain(r) == {i \in DOMAIN messages : messages[i].root = r}
Current(r) == {i \in Chain(r) : ~Is(i, "superseded") /\ (Is(i, "failed") => i = r)}

\* However edits, rewrites, decisions and recoveries overlap, a draft has one
\* version that counts: no two of them can be approved, and none is superseded
\* without a successor (create_version).
OneCurrentVersion ==
  \A r \in DOMAIN messages : messages[r].root = r => Cardinality(Current(r)) = 1

\* Overlapping retry runs pay for no more than the limit of retries of a draft,
\* also when they die after the claim (claim_draft_retry).
RetryBudget == \A i \in DOMAIN tried : tried[i].retries <= RetryLimit

\* Overlapping automated rewrites pay for no more than the limit per chain of
\* versions (claim_automated_rewrite).
RewriteBudget == \A i \in DOMAIN tried : tried[i].rewrites <= RewriteLimit

\* A draft that was recovered is never marked failed by a retry that ends later
\* (_record_failure).
RecoveryStands ==
  [][\A i \in DOMAIN messages : ~Is(i, "failed") => messages'[i].failure = "none"]_vars

\* After an erasure nothing tells about the recipient but what a call that had
\* begun before, or a thread opened between the listing and the transaction,
\* has left, and the context of requests answered `suppressed` since; threads
\* anonymised earlier are erased as well (threads_of_email).
ErasureHolds ==
  erased =>
    \A i \in DOMAIN messages :
      messages[i].plain =>
        messages[i].late \/ messages[i].thread \in spared \/ Is(i, "suppressed")
=============================================================================
