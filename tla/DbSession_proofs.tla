--------------------------- MODULE DbSession_proofs ---------------------------
(***************************************************************************)
(* What a caller may rely on after one call to the database, for every     *)
(* session and every combination of options.                               *)
(***************************************************************************)
EXTENDS DbSession, TLAPS

(* The session operators stay within Session. *)
LEMMA SessionTypes ==
  /\ Fresh \in Session /\ Lost \in Session
  /\ \A s \in Session : /\ RolledBack(s) \in Session /\ Ran(s) \in Session
                        /\ Prepared(s) \in Session /\ Limited(s) \in Session
  BY DEF Session, Fresh, Lost, RolledBack, Ran, Prepared, Limited

(* A reply to evaluate_sql has the type of one; when nothing is raised the *)
(* statement either succeeded or the run is flagged; an InterfaceError     *)
(* comes from a closed connection and flags the run.                       *)
LEMMA EvaluateSqlReplies ==
  ASSUME NEW s \in Session, NEW d \in Session, NEW w \in BOOLEAN, NEW e \in BOOLEAN,
         NEW r \in EvaluateSql(s, d, w, e)
  PROVE  /\ r \in Replies
         /\ r.raised = "none" => r = Reply(d, {}, "none", TRUE) \/ r.flags = Flagged(w)
         /\ r.rows => r = Reply(d, {}, "none", TRUE)
         /\ r.raised = "InterfaceError" => ~r.session.alive /\ r.flags = Flagged(w)
<1>1. Flagged(w) \in SUBSET Flags
  BY DEF Flagged, Flags
<1>2. ~Lost.alive /\ (~s.alive => RolledBack(s) = Lost)
  BY DEF Lost, Fresh, RolledBack
<1>3. RolledBack(s) \in Session /\ Lost \in Session
  BY SessionTypes
<1> USE DEF Reply, Replies, Exceptions
<1>4. CASE r = Reply(d, {}, "none", TRUE)
  BY <1>4
<1>5. CASE r = Reply(RolledBack(s), {}, "QueryCanceled", FALSE)
  BY <1>3, <1>5
<1>6. CASE r = Reply(Lost, {}, "DatabaseError", FALSE)
  BY <1>3, <1>6
<1>7. CASE r \in Swallowed(s, w, e)
  <2>1. PICK t \in {RolledBack(s), Lost} :
          r = Reply(t, Flagged(w), IF e THEN "SystemExit" ELSE "none", FALSE)
    BY <1>7 DEF Swallowed
  <2> QED
    BY <1>1, <1>3, <2>1
<1>8. CASE r \in Reraised(s, w, e)
  <2>1. r = Reply(RolledBack(s), Flagged(w),
                  IF e THEN "SystemExit"
                  ELSE IF s.alive THEN "DatabaseError" ELSE "InterfaceError", FALSE)
    BY <1>8 DEF Reraised
  <2> QED
    BY <1>1, <1>2, <1>3, <2>1
<1> QED
  BY <1>4, <1>5, <1>6, <1>7, <1>8 DEF EvaluateSql, Unflagged

(* prepare_query_execution raises nothing only if the session properties   *)
(* are in force or the run is flagged as failing; it never hands back an   *)
(* InterfaceError without that flag and a closed connection.               *)
LEMMA PrepareReplies ==
  ASSUME NEW s \in Session, NEW e \in BOOLEAN, NEW r \in PrepareQueryExecution(s, e)
  PROVE  /\ r \in Replies
         /\ r.raised = "none" => r.session = Prepared(s) \/ "failure" \in r.flags
         /\ r.raised = "InterfaceError" => ~r.session.alive /\ "failure" \in r.flags
<1>1. CASE r \in EvaluateSql(s, Prepared(s), FALSE, e)
  <2>1. Prepared(s) \in Session
    BY SessionTypes
  <2>2. /\ r \in Replies
        /\ r.raised = "none" => \/ r = Reply(Prepared(s), {}, "none", TRUE)
                                \/ r.flags = Flagged(FALSE)
        /\ r.raised = "InterfaceError" => ~r.session.alive /\ r.flags = Flagged(FALSE)
    BY <1>1, <2>1, EvaluateSqlReplies
  <2> QED
    BY <2>2 DEF Flagged, Reply
<1>2. Ran(Fresh) \in Session /\ Lost \in Session /\ ~Lost.alive
  BY SessionTypes DEF Lost, Fresh
<1>3. CASE r = Reply(Ran(Fresh), {"failure"}, "none", FALSE)
  BY <1>2, <1>3 DEF Reply, Replies, Exceptions, Flags
<1>4. CASE r = Reply(Lost, {"failure"}, "InterfaceError", FALSE)
  BY <1>2, <1>4 DEF Reply, Replies, Exceptions, Flags
<1> QED
  BY <1>1, <1>3, <1>4 DEF PrepareQueryExecution

(* A rollback replies like any other call and raises no flag.              *)
LEMMA RollbackReplies ==
  ASSUME NEW s \in Session, NEW r \in Rollback(s)
  PROVE  r \in Replies /\ r.flags = {} /\ (r.raised = "InterfaceError" => ~r.session.alive)
<1>1. RolledBack(s) \in Session /\ Lost \in Session
  BY SessionTypes
<1> USE DEF Reply, Replies, Exceptions
<1>2. CASE r = Reply(s, {}, "InterfaceError", FALSE) /\ ~s.alive
  BY <1>2
<1>3. CASE r = Reply(RolledBack(s), {}, "none", FALSE)
  BY <1>1, <1>3
<1>4. CASE r = Reply(Lost, {}, "DatabaseError", FALSE)
  BY <1>1, <1>4
<1> QED
  BY <1>2, <1>3, <1>4 DEF Rollback

(* Reading rows succeeds only after a statement that succeeded.            *)
LEMMA FetchedRows ==
  ASSUME NEW r \in Replies
  PROVE  /\ Fetched(r) \in Exceptions \cup {"none"}
         /\ Fetched(r) = "none" => r.raised = "none" /\ r.rows
  BY DEF Fetched, Replies, Exceptions

(* So is the reply to a statement that is rejected; it has no rows.        *)
LEMMA RejectedReplies ==
  ASSUME NEW s \in Session, NEW e \in BOOLEAN, NEW r \in Rejected(s, FALSE, e)
  PROVE  r \in Replies
<1>1. Rejected(s, FALSE, e) \subseteq EvaluateSql(s, s, FALSE, e)
  BY DEF Rejected, EvaluateSql, Unflagged
<1> QED
  BY <1>1, EvaluateSqlReplies
=============================================================================
