--------------------------- MODULE DdlSteps_proofs ---------------------------
(***************************************************************************)
(* Proofs about DdlSteps, for all models and all options.                  *)
(***************************************************************************)
EXTENDS DdlSteps, DbSession_proofs, SequenceTheorems

(* The sessions of the DDL phase: it never opens a transaction.            *)
Sessions == {Fresh, Lost}

LEMMA SessionsAlive == Fresh.alive /\ ~Lost.alive /\ Sessions \subseteq Session
  BY SessionTypes DEF Fresh, Lost, Sessions

(* A reply in autocommit mode leaves one of these sessions; when nothing   *)
(* is raised the statement succeeded or the run is flagged, and only       *)
(* exit-on-fail exits.                                                     *)
Settled(r, exits) ==
  /\ r \in Replies /\ r.session \in Sessions
  /\ r.raised = "none" => r.rows \/ r.flags # {}
  /\ r.raised = "SystemExit" => exits /\ r.flags # {}

LEMMA AutocommittedReplies ==
  ASSUME NEW s \in Sessions, NEW w \in BOOLEAN, NEW e \in BOOLEAN,
         NEW r \in Autocommitted(s, w, e)
  PROVE  Settled(r, e)
<1>1. r \in EvaluateSql(s, s, w, e)
  BY DEF Autocommitted
<1>2. r \in Replies /\ (r.raised = "none" => r.rows \/ r.flags = Flagged(w))
  BY <1>1, SessionsAlive, EvaluateSqlReplies DEF Reply
<1>3. Flagged(w) # {}
  BY DEF Flagged
<1>4. RolledBack(s) \in Sessions /\ s \in Sessions /\ Lost \in Sessions
  BY DEF RolledBack, Sessions
<1>5. r.session \in Sessions /\ (r.raised = "SystemExit" => e /\ r.flags # {})
  <2>1. CASE r \in Swallowed(s, w, e)
    BY <1>3, <1>4, <2>1 DEF Swallowed, Reply
  <2>2. CASE r \in Reraised(s, w, e)
    BY <1>3, <1>4, <2>2 DEF Reraised, Reply
  <2>3. CASE r \in Unflagged(s) \cup {Reply(s, {}, "none", TRUE)}
    BY <1>4, <2>3 DEF Unflagged, Reply
  <2> QED
    BY <1>1, <2>1, <2>2, <2>3 DEF EvaluateSql
<1> QED
  BY <1>2, <1>3, <1>5 DEF Settled

-----------------------------------------------------------------------------
(* Types.  The step is CREATE where its tables are loaded, and the file at *)
(* hand is done where the catalog is read.                                 *)
Reading == {"load", "reload", "rows", "widths"}

TypeInv ==
  /\ TypeOK
  /\ pc = "load" => step = CREATE
  /\ pc \in {"reload", "rows", "widths"} => step = 4
  /\ pc \in Reading => next = Len(File) + 1
  /\ pc = "open" => next = 1

LEMMA OptionTypes ==
  ASSUME TypeOK
  PROVE  /\ config.exits \in BOOLEAN /\ config.ddls \in SUBSET Step
         /\ script \in [Step -> Seq(Statement)] /\ File \in Seq(Statement)
         /\ Len(File) \in Nat
  BY DdlAssumption DEF TypeOK, Config, File

LEMMA CopiedReplies ==
  ASSUME TypeOK, NEW r \in Copied
  PROVE  Settled(r, config.exits)
<1>1. session \in Sessions /\ Lost \in Sessions /\ session \in Session /\ Lost \in Session
  BY SessionsAlive DEF TypeOK, Sessions
<1>2. CASE r = Reply(session, {}, "none", TRUE)
  BY <1>1, <1>2 DEF Reply, Replies, Settled, Exceptions
<1>3. CASE r = Reply(session, {}, "QueryCanceled", FALSE)
  BY <1>1, <1>3 DEF Reply, Replies, Settled, Exceptions
<1>4. CASE \E t \in {session, Lost} : r = Reply(t, {}, "DatabaseError", FALSE)
  <2>1. PICK t \in {session, Lost} : r = Reply(t, {}, "DatabaseError", FALSE)
    BY <1>4
  <2> QED
    BY <1>1, <2>1 DEF Reply, Replies, Settled, Exceptions
<1>5. CASE r = Reply(Lost, {}, "InterfaceError", FALSE)
  BY <1>1, <1>5 DEF Reply, Replies, Settled, Exceptions
<1> QED
  BY <1>2, <1>3, <1>4, <1>5 DEF Copied

LEMMA TriedReplies ==
  ASSUME TypeOK, NEW r \in Tried
  PROVE  Settled(r, config.exits)
<1>1. CASE Kind = "copy"
  BY <1>1, CopiedReplies DEF Tried
<1>2. CASE Kind # "copy"
  <2>1. \A w \in BOOLEAN :
          r \in Autocommitted(session, w, config.exits) => Settled(r, config.exits)
    BY AutocommittedReplies, OptionTypes DEF TypeOK, Sessions
  <2>2. (Kind = "analyze") \in BOOLEAN
    OBVIOUS
  <2> QED
    BY <1>2, <2>1, <2>2, Zenon DEF Tried
<1> QED
  BY <1>1, <1>2

(* What the first statement of a step may reply.                           *)
OpenReplies ==
  IF ~session.alive THEN {Reply(Lost, {}, "InterfaceError", FALSE)}
  ELSE IF Executed THEN Autocommitted(session, FALSE, config.exits)
  ELSE {Reply(session, {}, "none", FALSE)}

LEMMA OpenFileReplies ==
  ASSUME TypeOK, NEW r \in OpenReplies
  PROVE  /\ r \in Replies /\ r.session \in Sessions
         /\ r.raised = "SystemExit" => config.exits /\ r.flags # {}
<1>1. session \in Sessions /\ Lost \in Sessions /\ session \in Session /\ Lost \in Session
  BY SessionsAlive DEF TypeOK, Sessions
<1>2. CASE r = Reply(Lost, {}, "InterfaceError", FALSE)
  BY <1>1, <1>2 DEF Reply, Replies, Exceptions
<1>3. CASE r = Reply(session, {}, "none", FALSE)
  BY <1>1, <1>3 DEF Reply, Replies, Exceptions
<1>4. CASE r \in Autocommitted(session, FALSE, config.exits)
  <2>1. \A w \in BOOLEAN :
          r \in Autocommitted(session, w, config.exits) => Settled(r, config.exits)
    BY <1>1, AutocommittedReplies, OptionTypes
  <2>2. FALSE \in BOOLEAN
    OBVIOUS
  <2> QED
    BY <1>4, <2>1, <2>2, Zenon DEF Settled
<1> QED
  BY <1>2, <1>3, <1>4 DEF OpenReplies

LEMMA EffectTypes ==
  ASSUME TypeOK, NEW r, NEW effect \in Effects(r)
  PROVE  effect \in 0..2 /\ (r.rows => effect > 0)
  BY DEF Effects, MoreOften, TypeOK

LEMMA NotedTypes ==
  ASSUME TypeOK
  PROVE  Noted(recorded[step]) \in Seq(Nat)
<1>1. recorded[step] \in Seq(Nat) /\ next \in Nat
  BY OptionTypes DEF TypeOK
<1> QED
  BY <1>1 DEF Noted

LEMMA TypeInvInit == Init => TypeInv
<1> SUFFICES ASSUME Init PROVE TypeInv
  OBVIOUS
<1>1. script \in [Step -> Seq(Statement)] /\ step \in Step
  BY DdlAssumption DEF Init, Step
<1>2. Len(File) \in Nat
  BY <1>1 DEF File
<1>3. recorded \in [Step -> Seq(Nat)] /\ fate \in [Step -> Seq(Fate)]
  BY DEF Init
<1>4. step \in Step /\ next \in 1..(Len(File) + 1) /\ applied \in 0..2
  BY <1>1, <1>2 DEF Init
<1>5. /\ attempt \in 1..CatalogQueryAttempts /\ exception \in Exceptions \cup {"none"}
      /\ outcome \in Endings \cup {"none"} /\ flags \in SUBSET Flags
  BY DEF Init, CatalogQueryAttempts
<1> QED
  BY <1>1, <1>3, <1>4, <1>5 DEF Init, TypeInv, TypeOK, Reading

LEMMA EndByTypes ==
  ASSUME NEW raised \in Exceptions, EndBy(raised)
  PROVE  /\ exception' \in Exceptions /\ outcome' \in {"exit", "aborted"} /\ pc' = "ended"
         /\ outcome' = "exit" => raised = "SystemExit"
  BY DEF EndBy

LEMMA TypeInvNext == TypeInv /\ [Next]_vars => TypeInv'
<1> SUFFICES ASSUME TypeInv, [Next]_vars PROVE TypeInv'
  OBVIOUS
<1>1. TypeOK /\ Len(File) \in Nat
  BY OptionTypes DEF TypeInv
<1>2. Len(script[step]) \in Nat
  BY <1>1 DEF File
<1>3. CASE OpenFile
  <2>1. PICK r \in OpenReplies :
          /\ session' = r.session /\ flags' = flags \cup r.flags
          /\ IF r.raised = "none" THEN pc' = "statement" /\ UNCHANGED <<exception, outcome>>
             ELSE EndBy(r.raised)
    BY <1>3 DEF OpenFile, OpenReplies
  <2>2. r \in Replies /\ r.session \in Sessions
    BY <1>1, <2>1, OpenFileReplies
  <2>3. flags' \in SUBSET Flags /\ session' \in {Fresh, Lost}
    BY <1>1, <2>1, <2>2 DEF TypeOK, Replies, Sessions
  <2>4. /\ pc' \in {"statement", "ended"}
        /\ exception' \in Exceptions \cup {"none"} /\ outcome' \in Endings \cup {"none"}
    BY <1>1, <2>1, <2>2, EndByTypes DEF Replies, TypeOK, Endings
  <2> QED
    BY <1>1, <1>3, <2>3, <2>4 DEF OpenFile, TypeInv, TypeOK, Reading, catalog, File
<1>4. CASE RecordStatement
  <2>1. recorded' \in [Step -> Seq(Nat)]
    BY <1>1, <1>4, NotedTypes DEF RecordStatement, Note, TypeOK
  <2>2. next' \in 1..(Len(File) + 1)
    BY <1>1, <1>4 DEF RecordStatement, TypeOK
  <2> QED
    BY <1>1, <1>4, <2>1, <2>2 DEF RecordStatement, TypeInv, TypeOK, Reading, catalog, File
<1>5. CASE ExecuteStatement
  <2>1. recorded' \in [Step -> Seq(Nat)]
    BY <1>1, <1>5, NotedTypes DEF ExecuteStatement, Note, TypeOK
  <2>2. PICK r \in Tried : \E effect \in Effects(r) :
          /\ session' = r.session /\ flags' = flags \cup r.flags
          /\ \/ \E how \in {"done", "swallowed", "ignored"} :
                  LeaveStatement(how, effect, r.flags # {})
             \/ r.raised # "none" /\ EndBy(r.raised) /\ UNCHANGED <<next, applied, fate>>
    BY <1>5 DEF ExecuteStatement
  <2>3. PICK effect \in Effects(r) :
          /\ session' = r.session /\ flags' = flags \cup r.flags
          /\ \/ \E how \in {"done", "swallowed", "ignored"} :
                  LeaveStatement(how, effect, r.flags # {})
             \/ r.raised # "none" /\ EndBy(r.raised) /\ UNCHANGED <<next, applied, fate>>
    BY <2>2
  <2>4. Settled(r, config.exits) /\ effect \in 0..2
    BY <1>1, TriedReplies, EffectTypes
  <2>5. flags' \in SUBSET Flags /\ session' \in {Fresh, Lost}
    BY <1>1, <2>3, <2>4 DEF TypeOK, Replies, Sessions, Settled
  <2>6. /\ pc' \in {"statement", "ended"} /\ applied' \in 0..2
        /\ exception' \in Exceptions \cup {"none"} /\ outcome' \in Endings \cup {"none"}
        /\ next' \in 1..(Len(File) + 1)
    <3>1. CASE \E how \in {"done", "swallowed", "ignored"} :
                 LeaveStatement(how, effect, r.flags # {})
      BY <1>1, <1>5, <3>1 DEF ExecuteStatement, LeaveStatement, TypeOK
    <3>2. CASE r.raised # "none" /\ EndBy(r.raised) /\ UNCHANGED <<next, applied, fate>>
      BY <1>1, <2>4, <3>2, EndByTypes DEF Replies, TypeOK, Endings, Settled
    <3> QED
      BY <2>3, <3>1, <3>2
  <2>7. fate' \in [Step -> Seq(Fate)]
    <3>1. CASE UNCHANGED fate
      BY <1>1, <3>1 DEF TypeOK
    <3>2. ASSUME NEW how \in {"done", "swallowed", "ignored"},
                 LeaveStatement(how, effect, r.flags # {})
          PROVE  fate' \in [Step -> Seq(Fate)]
      <4>1. (r.flags # {}) \in BOOLEAN
        OBVIOUS
      <4>2. [how |-> how, applied |-> effect, flagged |-> r.flags # {}] \in Fate
        BY <2>4, <4>1 DEF Fate
      <4>3. fate[step] \in Seq(Fate)
        BY <1>1 DEF TypeOK
      <4>4. Append(fate[step], [how |-> how, applied |-> effect, flagged |-> r.flags # {}])
              \in Seq(Fate)
        BY <4>2, <4>3
      <4> QED
        BY <1>1, <3>2, <4>4 DEF LeaveStatement, TypeOK
    <3> QED
      BY <2>3, <3>1, <3>2
  <2> QED
    BY <1>1, <1>5, <2>1, <2>5, <2>6, <2>7
    DEF ExecuteStatement, TypeInv, TypeOK, Reading, catalog, File
<1>6. CASE RetryStatement
  <2>1. recorded' \in [Step -> Seq(Nat)]
    BY <1>1, <1>6, NotedTypes DEF RetryStatement, Note, TypeOK
  <2>2. PICK r \in Tried : session' = r.session /\ flags' = flags \cup r.flags
                           /\ applied' \in Effects(r)
    BY <1>6 DEF RetryStatement
  <2>3. Settled(r, config.exits) /\ applied' \in 0..2
    BY <1>1, <2>2, TriedReplies, EffectTypes
  <2>4. flags' \in SUBSET Flags /\ session' \in {Fresh, Lost}
    BY <1>1, <2>2, <2>3 DEF TypeOK, Replies, Sessions, Settled
  <2> QED
    BY <1>1, <1>6, <2>1, <2>3, <2>4 DEF RetryStatement, TypeInv, TypeOK, Reading, catalog, File
<1>7. CASE CloseFile
  <2>1. next = Len(File) + 1
    BY <1>1, <1>7 DEF CloseFile, TypeOK
  <2>2. CASE pc' \in Reading /\ UNCHANGED <<step, next>>
    BY <1>1, <1>7, <2>1, <2>2 DEF CloseFile, TypeInv, TypeOK, Reading, catalog, File, CREATE
  <2>3. CASE pc' = "open" /\ step # 4 /\ step' = step + 1 /\ next' = 1
    <3>1. step' \in Step
      BY <1>1, <2>3 DEF TypeOK, Step
    <3>2. Len(File)' \in Nat
      BY <1>1, <1>7, <3>1, OptionTypes DEF File, CloseFile
    <3> QED
      BY <1>1, <1>7, <2>3, <3>1, <3>2 DEF CloseFile, TypeInv, TypeOK, Reading, catalog
  <2> QED
    BY <1>7, <2>2, <2>3 DEF CloseFile, Reading
<1>8. CASE FailCatalog
  <2>1. attempt' \in 1..CatalogQueryAttempts
    BY <1>1, <1>8 DEF FailCatalog, GiveUp, AttemptsLeft, TypeOK, CatalogQueryAttempts
  <2>2. /\ pc' \in {pc, "ended"} /\ session' \in {Fresh, Lost}
        /\ exception' \in Exceptions \cup {"none"} /\ outcome' \in Endings \cup {"none"}
    BY <1>1, <1>8 DEF FailCatalog, GiveUp, EndBy, TypeOK, Exceptions, Endings
  <2> QED
    BY <1>1, <1>8, <2>1, <2>2 DEF FailCatalog, TypeInv, TypeOK, Reading, File
<1>9. CASE LoadTables
  <2>1. step' = 3 /\ step' \in Step /\ next' = 1 /\ pc' = "open"
    BY <1>9 DEF LoadTables, TypeInv, CREATE, Step
  <2>2. Len(File)' \in Nat
    BY <1>1, <1>9, <2>1, OptionTypes DEF File, LoadTables, AnswerCatalog
  <2> QED
    BY <1>1, <1>9, <2>1, <2>2
    DEF LoadTables, AnswerCatalog, TypeInv, TypeOK, Reading, CatalogQueryAttempts
<1>10. CASE ReloadTables \/ LoadRows \/ LoadWidths
  <2>1. /\ UNCHANGED <<config, script, step, next, session, flags, recorded, applied,
                      fate, exception>>
        /\ answered' \in SUBSET {"tables", "rows", "widths"} /\ tables' \in BOOLEAN
        /\ attempt' = 1
    BY <1>1, <1>10 DEF ReloadTables, LoadRows, LoadWidths, AnswerCatalog, TypeOK
  <2>2. /\ pc \in {"reload", "rows", "widths"} /\ pc' \in {"rows", "widths", "ended"}
        /\ outcome' \in Endings \cup {"none"}
    BY <1>1, <1>10 DEF ReloadTables, LoadRows, LoadWidths, TypeOK, Endings
  <2>3. attempt' \in 1..CatalogQueryAttempts
    BY <2>1 DEF CatalogQueryAttempts
  <2> QED
    BY <1>1, <2>1, <2>2, <2>3 DEF TypeInv, TypeOK, Reading, File
<1>11. CASE UNCHANGED vars
  BY <1>1, <1>11 DEF vars, catalog, TypeInv, TypeOK, Reading, File
<1> QED
  BY <1>3, <1>4, <1>5, <1>6, <1>7, <1>8, <1>9, <1>10, <1>11 DEF Next, Ended

LEMMA AlwaysTypeInv == Safe => []TypeInv
  BY TypeInvInit, TypeInvNext, PTL DEF Safe

(* Every variable of the DDL phase keeps its type; in particular no        *)
(* catalog query is attempted more often than it may be.                   *)
THEOREM DdlTypes == Safe => []TypeOK
  BY AlwaysTypeInv, PTL DEF TypeInv

-----------------------------------------------------------------------------
(* How the phase ends.  Where the catalog is read, the queries before the  *)
(* one at hand are answered.                                               *)
EndInv ==
  /\ outcome # "none" => pc = "ended"
  /\ outcome = "exit" => config.exits /\ flags # {}
  /\ outcome = "complete" => session = Fresh
  /\ tables \/ pc \in {"rows", "widths"} => "tables" \in answered
  /\ pc = "widths" => "rows" \in answered
  /\ CatalogRead

LEMMA EndInvNext == TypeInv /\ EndInv /\ [Next]_vars => EndInv'
<1> SUFFICES ASSUME TypeInv, EndInv, [Next]_vars PROVE EndInv'
  OBVIOUS
<1>1. TypeOK
  BY DEF TypeInv
<1>2. CASE OpenFile
  <2>1. PICK r \in OpenReplies :
          /\ session' = r.session /\ flags' = flags \cup r.flags
          /\ IF r.raised = "none" THEN pc' = "statement" /\ UNCHANGED <<exception, outcome>>
             ELSE EndBy(r.raised)
    BY <1>2 DEF OpenFile, OpenReplies
  <2>2. r \in Replies /\ (r.raised = "SystemExit" => config.exits /\ r.flags # {})
    BY <1>1, <2>1, OpenFileReplies
  <2>3. CASE r.raised = "none"
    BY <1>2, <2>1, <2>3 DEF OpenFile, EndInv, CatalogRead, catalog
  <2>4. CASE r.raised # "none"
    <3>1. r.raised \in Exceptions /\ EndBy(r.raised)
      BY <2>1, <2>2, <2>4 DEF Replies
    <3> QED
      BY <1>2, <2>1, <2>2, <3>1, EndByTypes DEF OpenFile, EndInv, CatalogRead, catalog
  <2> QED
    BY <2>3, <2>4
<1>3. CASE ExecuteStatement
  <2>1. PICK r \in Tried :
          /\ session' = r.session /\ flags' = flags \cup r.flags
          /\ \/ UNCHANGED <<pc, exception, outcome>>
             \/ r.raised # "none" /\ EndBy(r.raised)
    BY <1>3 DEF ExecuteStatement, LeaveStatement
  <2>2. Settled(r, config.exits)
    BY <1>1, TriedReplies
  <2>3. CASE UNCHANGED <<pc, exception, outcome>>
    BY <1>3, <2>1, <2>3 DEF ExecuteStatement, EndInv, CatalogRead, catalog
  <2>4. CASE r.raised # "none" /\ EndBy(r.raised)
    <3>1. r.raised \in Exceptions
      BY <2>2, <2>4 DEF Replies, Settled
    <3> QED
      BY <1>3, <2>1, <2>2, <2>4, <3>1, EndByTypes
      DEF ExecuteStatement, EndInv, CatalogRead, catalog, Settled
  <2> QED
    BY <2>1, <2>3, <2>4
<1>4. CASE RecordStatement \/ RetryStatement \/ CloseFile
  <2>1. UNCHANGED <<config, tables, answered, outcome>> /\ flags \subseteq flags'
    BY <1>4 DEF RecordStatement, RetryStatement, CloseFile, catalog
  <2>2. pc = "statement"
        /\ (pc' \in {"statement", "load", "reload", "open"} \/ (pc' = "rows" /\ tables))
    BY <1>4 DEF RecordStatement, RetryStatement, CloseFile
  <2> QED
    BY <2>1, <2>2 DEF EndInv, CatalogRead
<1>5. CASE FailCatalog
  <2>1. UNCHANGED <<config, tables, answered, flags>>
    BY <1>5 DEF FailCatalog
  <2>2. \/ UNCHANGED <<pc, session, outcome>>
        \/ pc' = "ended" /\ outcome' = "aborted"
    BY <1>5 DEF FailCatalog, GiveUp, EndBy
  <2> QED
    BY <2>1, <2>2 DEF EndInv, CatalogRead
<1>6. CASE LoadTables \/ ReloadTables \/ LoadRows
  <2>1. UNCHANGED <<config, flags, session, outcome>> /\ answered \subseteq answered'
    BY <1>6 DEF LoadTables, ReloadTables, LoadRows, AnswerCatalog
  <2>2. \/ "tables" \in answered' /\ pc' \in {"open", "rows"}
        \/ pc = "rows" /\ "rows" \in answered' /\ pc' = "widths" /\ UNCHANGED tables
    BY <1>6 DEF LoadTables, ReloadTables, LoadRows, AnswerCatalog
  <2>3. outcome = "none"
    BY <1>6 DEF LoadTables, ReloadTables, LoadRows, EndInv
  <2> QED
    BY <1>1, <2>1, <2>2, <2>3 DEF EndInv, CatalogRead, TypeOK
<1>7. CASE LoadWidths
  <2>1. session' = Fresh
    BY <1>1, <1>7, SessionsAlive DEF LoadWidths, AnswerCatalog, TypeOK
  <2>2. answered' = {"tables", "rows", "widths"}
    BY <1>1, <1>7 DEF LoadWidths, AnswerCatalog, EndInv, TypeOK
  <2> QED
    BY <1>7, <2>1, <2>2 DEF LoadWidths, EndInv, CatalogRead
<1>8. CASE UNCHANGED vars
  BY <1>8 DEF vars, catalog, EndInv, CatalogRead
<1> QED
  BY <1>2, <1>3, <1>4, <1>5, <1>6, <1>7, <1>8 DEF Next, Ended

LEMMA AlwaysEndInv == Safe => [](TypeInv /\ EndInv)
<1>1. Init => EndInv
  BY DEF Init, EndInv, CatalogRead
<1> QED
  BY <1>1, AlwaysTypeInv, EndInvNext, PTL DEF Safe

(* The phase is complete only on a live connection, although the failure   *)
(* of some statements is ignored, and exits only when asked to.            *)
THEOREM DdlEndsAsAgreed == Safe => []EndsAsAgreed
<1>1. EndInv => EndsAsAgreed
  BY DEF EndInv, EndsAsAgreed, DdlMayEnd
<1> QED
  BY <1>1, AlwaysEndInv, PTL

(* A model is loaded with its whole catalog or not at all.                 *)
THEOREM DdlCatalogRead == Safe => []CatalogRead
<1>1. EndInv => CatalogRead
  BY DEF EndInv
<1> QED
  BY <1>1, AlwaysEndInv, PTL

-----------------------------------------------------------------------------
(* What became of the statements.  Those before the one at hand are        *)
(* accounted for, one by one; the files still to come are untouched.       *)
Accounted(f, kind, fl) ==
  \/ f.how = "done" /\ f.applied > 0
  \/ f.how = "swallowed" /\ f.flagged /\ fl # {}
  \/ f.how = "ignored" /\ kind = "statistics"

AllAccounted ==
  \A s \in Step : \A i \in 1..Len(fate[s]) : Accounted(fate[s][i], script[s][i], flags)

LossInv ==
  /\ \A s \in config.ddls : s < step => Len(fate[s]) = Len(script[s])
  /\ step \in config.ddls => Len(fate[step]) = next - 1
  /\ \A s \in Step : s > step => fate[s] = <<>>
  /\ AllAccounted
  /\ outcome = "complete" => step = 4 /\ next = Len(File) + 1

LEMMA LossInvInit == Init => LossInv
<1> SUFFICES ASSUME Init PROVE LossInv
  OBVIOUS
<1>1. \A s \in Step : fate[s] = <<>>
  BY DEF Init
<1>2. config.ddls \subseteq Step
  BY DdlAssumption DEF Init, Config
<1>3. step = 1 /\ next = 1 /\ outcome = "none" /\ 1 \in Step
  BY DEF Init, Step
<1>4. \A s \in config.ddls : ~(s < step)
  BY <1>2, <1>3 DEF Step
<1> QED
  BY <1>1, <1>3, <1>4 DEF LossInv, AllAccounted

(* Steps that leave the fates alone and stay in the file.                  *)
LEMMA LossInvStays ==
  ASSUME LossInv, UNCHANGED <<config, script, step, next, fate>>, flags \subseteq flags',
         outcome' # "complete" \/ (step = 4 /\ next = Len(File) + 1)
  PROVE  LossInv'
<1>1. \A f, kind : Accounted(f, kind, flags) => Accounted(f, kind, flags')
  BY DEF Accounted
<1>2. AllAccounted'
  BY <1>1 DEF LossInv, AllAccounted, Accounted
<1> QED
  BY <1>2 DEF LossInv, File

(* A step that goes to the next file leaves this one at its end.           *)
LEMMA LossInvAdvances ==
  ASSUME TypeOK, LossInv, UNCHANGED <<config, script, fate, flags, outcome>>,
         next = Len(File) + 1, step # 4, step' = step + 1, next' = 1, outcome # "complete"
  PROVE  LossInv'
<1>1. step \in 1..4 /\ step' \in 1..4 /\ Len(File) \in Nat
  BY OptionTypes DEF TypeOK, Step
<1>2. step \in config.ddls => Len(fate[step]) = Len(script[step])
  BY <1>1 DEF LossInv, File
<1>3. config.ddls \subseteq 1..4
  BY OptionTypes DEF Step
<1>4. \A s \in config.ddls : s < step' => Len(fate[s]) = Len(script[s])
  BY <1>1, <1>2, <1>3 DEF LossInv
<1>5. fate[step'] = <<>> /\ \A s \in Step : s > step' => fate[s] = <<>>
  BY <1>1 DEF LossInv, Step
<1>6. AllAccounted'
  BY DEF LossInv, AllAccounted, Accounted
<1> QED
  BY <1>4, <1>5, <1>6 DEF LossInv

LEMMA LossInvNext == TypeInv /\ LossInv /\ EndInv /\ [Next]_vars => LossInv'
<1> SUFFICES ASSUME TypeInv, LossInv, EndInv, [Next]_vars PROVE LossInv'
  OBVIOUS
<1>1. TypeOK /\ Len(File) \in Nat /\ flags \subseteq flags'
  <2>1. TypeOK /\ Len(File) \in Nat
    BY OptionTypes DEF TypeInv
  <2> QED
    BY <2>1 DEF Next, vars, catalog, OpenFile, RecordStatement, ExecuteStatement,
       RetryStatement, CloseFile, FailCatalog, LoadTables, ReloadTables, LoadRows,
       LoadWidths, AnswerCatalog, Ended
<1>2. pc # "ended" => outcome # "complete"
  BY DEF EndInv
<1>3. CASE OpenFile \/ RetryStatement
  <2>1. outcome' # "complete"
    BY <1>2, <1>3 DEF OpenFile, RetryStatement, EndBy
  <2> QED
    BY <1>1, <1>3, <2>1, LossInvStays DEF OpenFile, RetryStatement
<1>4. CASE RecordStatement
  <2>1. step \notin config.ddls /\ outcome' # "complete"
    BY <1>2, <1>4 DEF RecordStatement, Executed
  <2>2. AllAccounted'
    BY <1>4 DEF RecordStatement, LossInv, AllAccounted, Accounted
  <2> QED
    BY <1>4, <2>1, <2>2 DEF RecordStatement, LossInv
<1>5. CASE ExecuteStatement
  <2>1. PICK r \in Tried : \E effect \in Effects(r) :
          \/ /\ r.raised = "none" /\ flags' = flags \cup r.flags
             /\ LeaveStatement(IF r.rows THEN "done" ELSE "swallowed", effect, r.flags # {})
          \/ Ignored /\ LeaveStatement("ignored", effect, r.flags # {})
          \/ EndBy(r.raised) /\ UNCHANGED <<next, applied, fate>>
    BY <1>5 DEF ExecuteStatement
  <2>2. PICK effect \in Effects(r) :
          \/ /\ r.raised = "none" /\ flags' = flags \cup r.flags
             /\ LeaveStatement(IF r.rows THEN "done" ELSE "swallowed", effect, r.flags # {})
          \/ Ignored /\ LeaveStatement("ignored", effect, r.flags # {})
          \/ EndBy(r.raised) /\ UNCHANGED <<next, applied, fate>>
    BY <2>1
  <2>3. CASE EndBy(r.raised) /\ UNCHANGED <<next, applied, fate>>
    <3>1. outcome' # "complete"
      BY <2>3 DEF EndBy
    <3> QED
      BY <1>1, <1>5, <2>3, <3>1, LossInvStays DEF ExecuteStatement
  <2>4. ASSUME NEW how, LeaveStatement(how, effect, r.flags # {}),
               \/ how = "done" /\ r.rows
               \/ how = "swallowed" /\ r.flags # {} /\ flags' # {}
               \/ how = "ignored" /\ Ignored
        PROVE  LossInv'
    <3> DEFINE f == [how |-> how, applied |-> effect, flagged |-> r.flags # {}]
    <3>1. fate' = [fate EXCEPT ![step] = Append(@, f)] /\ next' = next + 1
          /\ UNCHANGED <<config, script, step, outcome>>
      BY <1>5, <2>4 DEF LeaveStatement, ExecuteStatement
    <3>2. /\ step \in config.ddls /\ step \in Step /\ fate \in [Step -> Seq(Fate)]
          /\ Len(fate[step]) = next - 1 /\ next \in Nat
      BY <1>1, <1>5 DEF ExecuteStatement, Executed, TypeOK, LossInv
    <3>3. fate'[step] = Append(fate[step], f) /\ \A s \in Step \ {step} : fate'[s] = fate[s]
      BY <3>1, <3>2
    <3>4. fate[step] \in Seq(Fate)
      BY <3>2
    <3>5. Len(Append(fate[step], f)) = next
      BY <3>2, <3>4
    <3>6. (f.how = "swallowed" => f.flagged) /\ (f.how = "done" => f.applied > 0)
      BY <1>1, <2>4, EffectTypes
    <3>7. Accounted(f, script[step][next], flags')
      BY <2>4, <3>1, <3>6 DEF Accounted, Ignored, Kind, File
    <3>8. \A i \in 1..Len(fate'[step]) : Accounted(fate'[step][i], script[step][i], flags')
      <4> SUFFICES ASSUME NEW i \in 1..Len(fate'[step])
                   PROVE  Accounted(fate'[step][i], script[step][i], flags')
        OBVIOUS
      <4>1. CASE i = next
        BY <3>2, <3>3, <3>4, <3>7, <4>1 DEF Accounted
      <4>2. CASE i # next
        <5>1. i \in 1..Len(fate[step]) /\ fate'[step][i] = fate[step][i]
          BY <3>2, <3>3, <3>4, <3>5, <4>2
        <5> QED
          BY <1>1, <3>1, <3>2, <5>1 DEF LossInv, AllAccounted, Accounted
      <4> QED
        BY <4>1, <4>2
    <3>9. AllAccounted'
      <4>1. \A g, kind : Accounted(g, kind, flags) => Accounted(g, kind, flags')
        BY <1>1 DEF Accounted
      <4>2. \A s \in Step \ {step} : \A i \in 1..Len(fate'[s]) :
              Accounted(fate'[s][i], script[s][i], flags')
        BY <3>3, <4>1 DEF LossInv, AllAccounted
      <4> QED
        BY <3>1, <3>8, <4>2 DEF AllAccounted
    <3>10. \A s \in config.ddls : s < step => Len(fate'[s]) = Len(script[s])
      <4>1. \A s \in config.ddls : s < step => s \in Step \ {step}
        BY <1>1, <3>2, OptionTypes DEF Step
      <4> QED
        BY <3>3, <4>1 DEF LossInv
    <3>11. \A s \in Step : s > step => fate'[s] = <<>>
      BY <3>2, <3>3 DEF LossInv, Step
    <3>12. outcome' # "complete"
      BY <1>2, <1>5, <3>1 DEF ExecuteStatement
    <3> QED
      BY <3>1, <3>2, <3>3, <3>5, <3>9, <3>10, <3>11, <3>12 DEF LossInv
  <2>5. Settled(r, config.exits)
    BY <1>1, TriedReplies
  <2>6. r.raised = "none" /\ ~r.rows /\ flags' = flags \cup r.flags => r.flags # {} /\ flags' # {}
    BY <2>5 DEF Settled
  <2>7. CASE r.raised = "none" /\ flags' = flags \cup r.flags
             /\ LeaveStatement(IF r.rows THEN "done" ELSE "swallowed", effect, r.flags # {})
    BY <2>4, <2>6, <2>7
  <2>8. CASE Ignored /\ LeaveStatement("ignored", effect, r.flags # {})
    BY <2>4, <2>8
  <2> QED
    BY <2>2, <2>3, <2>7, <2>8
<1>6. CASE CloseFile
  <2>1. next = Len(File) + 1 /\ outcome # "complete"
    BY <1>1, <1>2, <1>6 DEF CloseFile, TypeOK
  <2>2. CASE UNCHANGED <<step, next>>
    BY <1>1, <1>6, <2>1, <2>2, LossInvStays DEF CloseFile
  <2>3. CASE step # 4 /\ step' = step + 1 /\ next' = 1
    BY <1>1, <1>6, <2>1, <2>3, LossInvAdvances DEF CloseFile
  <2> QED
    BY <1>6, <2>2, <2>3 DEF CloseFile
<1>7. CASE FailCatalog
  <2>1. outcome' # "complete"
    BY <1>2, <1>7 DEF FailCatalog, GiveUp, EndBy
  <2> QED
    BY <1>1, <1>7, <2>1, LossInvStays DEF FailCatalog
<1>8. CASE LoadTables
  <2>1. next = Len(File) + 1 /\ step = 2 /\ outcome # "complete"
    BY <1>2, <1>8 DEF LoadTables, TypeInv, Reading, CREATE
  <2> QED
    BY <1>1, <1>8, <2>1, LossInvAdvances DEF LoadTables, AnswerCatalog
<1>9. CASE ReloadTables \/ LoadRows \/ LoadWidths
  <2>1. next = Len(File) + 1 /\ step = 4
    BY <1>9 DEF ReloadTables, LoadRows, LoadWidths, TypeInv, Reading
  <2> QED
    BY <1>1, <1>9, <2>1, LossInvStays DEF ReloadTables, LoadRows, LoadWidths, AnswerCatalog
<1>10. CASE UNCHANGED vars
  BY <1>1, <1>10, LossInvStays DEF vars, LossInv
<1> QED
  BY <1>3, <1>4, <1>5, <1>6, <1>7, <1>8, <1>9, <1>10 DEF Next, Ended

(* Whatever is retried, ignored or swallowed while a model is loaded, a    *)
(* complete load lost no statement: each took effect, or its failure is    *)
(* flagged, or it was a CREATE STATISTICS.                                 *)
THEOREM DdlLosesNoStatement == Safe => []NoStatementLost
<1>1. TypeInv /\ LossInv => NoStatementLost
  <2> SUFFICES ASSUME TypeInv, LossInv, outcome = "complete", NEW s \in config.ddls
               PROVE  /\ Len(fate[s]) = Len(script[s])
                      /\ \A i \in 1..Len(script[s]) : Accounted(fate[s][i], script[s][i], flags)
    BY DEF NoStatementLost, Accounted
  <2>1. TypeOK /\ s \in 1..4 /\ step = 4 /\ next = Len(File) + 1 /\ Len(File) \in Nat
    BY OptionTypes DEF TypeInv, LossInv, Step
  <2>2. Len(fate[s]) = Len(script[s])
    BY <2>1 DEF LossInv, File
  <2> QED
    BY <2>1, <2>2 DEF LossInv, AllAccounted, Step
<1> QED
  BY <1>1, LossInvInit, LossInvNext, AlwaysEndInv, PTL DEF Safe

-----------------------------------------------------------------------------
(* What is recorded.  The records of the file at hand end with the         *)
(* statement before the one at hand, or, while it is being retried, with   *)
(* that one.                                                               *)
Chain(r) ==
  /\ Len(r) > 0 => r[1] = 1
  /\ \A i \in 1..(Len(r) - 1) : r[i + 1] \in {r[i], r[i] + 1}

EndsWith(r, n) == IF n = 0 THEN r = <<>> ELSE Len(r) > 0 /\ r[Len(r)] = n

RecInv ==
  /\ \A s \in Step : Chain(recorded[s])
  /\ \A s \in Step : s < step => EndsWith(recorded[s], Len(script[s]))
  /\ \/ EndsWith(recorded[step], next - 1)
     \/ EndsWith(recorded[step], next) /\ next <= Len(File)
  /\ \A s \in Step : s > step => recorded[s] = <<>>

LEMMA NotedChain ==
  ASSUME NEW r \in Seq(Nat), next \in Nat \ {0}, Chain(r),
         EndsWith(r, next - 1) \/ EndsWith(r, next)
  PROVE  Chain(Noted(r)) /\ EndsWith(Noted(r), next)
<1>1. CASE Len(r) >= MaxRepeats
           /\ \A i \in Len(r) - MaxRepeats + 1 .. Len(r) : r[i] = next
  <2>1. Len(r) \in Nat /\ Len(r) > 0 /\ r[Len(r)] = next
    BY <1>1 DEF MaxRepeats
  <2>2. Noted(r) = r
    BY <1>1 DEF Noted
  <2> QED
    BY <2>1, <2>2 DEF EndsWith
<1>2. CASE ~(Len(r) >= MaxRepeats
             /\ \A i \in Len(r) - MaxRepeats + 1 .. Len(r) : r[i] = next)
  <2> DEFINE q == Append(r, next)
  <2>1. Noted(r) = q
    BY <1>2 DEF Noted
  <2>2. /\ Len(r) \in Nat /\ Len(q) = Len(r) + 1 /\ q[Len(q)] = next
        /\ \A i \in 1..Len(r) : q[i] = r[i]
    OBVIOUS
  <2>3. q[1] = 1
    BY <2>2 DEF Chain, EndsWith
  <2>4. \A i \in 1..(Len(r) - 1) : q[i + 1] \in {q[i], q[i] + 1}
    BY <2>2 DEF Chain
  <2>5. Len(r) > 0 => q[Len(r) + 1] \in {q[Len(r)], q[Len(r)] + 1}
    BY <2>2 DEF EndsWith
  <2>6. \A i \in 1..Len(r) : q[i + 1] \in {q[i], q[i] + 1}
    BY <2>2, <2>4, <2>5
  <2>7. Chain(q)
    BY <2>2, <2>3, <2>6 DEF Chain
  <2> QED
    BY <2>1, <2>2, <2>7 DEF EndsWith
<1> QED
  BY <1>1, <1>2

(* Recording the statement at hand, whether or not it is left behind.      *)
LEMMA RecInvNoted ==
  ASSUME TypeInv, RecInv, Note, next <= Len(File), next' \in {next, next + 1},
         UNCHANGED <<config, script, step>>
  PROVE  RecInv'
<1>1. /\ recorded \in [Step -> Seq(Nat)] /\ step \in Step /\ next \in Nat \ {0}
      /\ recorded[step] \in Seq(Nat) /\ Len(File) \in Nat
  BY OptionTypes DEF TypeInv, TypeOK
<1>2. Chain(Noted(recorded[step])) /\ EndsWith(Noted(recorded[step]), next)
  BY <1>1, NotedChain DEF RecInv
<1>3. recorded'[step] = Noted(recorded[step])
      /\ \A s \in Step \ {step} : recorded'[s] = recorded[s]
  BY <1>1 DEF Note
<1>4. \A s \in Step : Chain(recorded'[s])
  BY <1>2, <1>3 DEF RecInv
<1>5. \A s \in Step : (s < step \/ s > step) => s \in Step \ {step}
  BY <1>1 DEF Step
<1>6. \A s \in Step : s < step => EndsWith(recorded'[s], Len(script[s]))
  BY <1>3, <1>5 DEF RecInv
<1>7. \A s \in Step : s > step => recorded'[s] = <<>>
  BY <1>3, <1>5 DEF RecInv
<1>8. \/ EndsWith(recorded'[step], next' - 1)
      \/ EndsWith(recorded'[step], next') /\ next' <= Len(File)
  BY <1>1, <1>2, <1>3
<1> QED
  BY <1>4, <1>6, <1>7, <1>8 DEF RecInv, File

LEMMA RecInvStays ==
  ASSUME RecInv, UNCHANGED <<script, step, next, recorded>>
  PROVE  RecInv'
  BY DEF RecInv, File

LEMMA RecInvAdvances ==
  ASSUME TypeInv, RecInv, UNCHANGED <<script, recorded>>,
         next = Len(File) + 1, step # 4, step' = step + 1, next' = 1
  PROVE  RecInv'
<1>1. step \in 1..4 /\ step' \in 1..4 /\ Len(File) \in Nat
  BY OptionTypes DEF TypeInv, TypeOK, Step
<1>2. EndsWith(recorded[step], Len(script[step]))
  BY <1>1 DEF RecInv, File
<1>3. \A s \in Step : s < step' => EndsWith(recorded[s], Len(script[s]))
  BY <1>1, <1>2 DEF RecInv, Step
<1>4. recorded[step'] = <<>> /\ \A s \in Step : s > step' => recorded[s] = <<>>
  BY <1>1 DEF RecInv, Step
<1>5. EndsWith(recorded[step'], next' - 1)
  BY <1>4 DEF EndsWith
<1> QED
  BY <1>3, <1>4, <1>5 DEF RecInv

LEMMA RecInvNext == TypeInv /\ RecInv /\ [Next]_vars => RecInv'
<1> SUFFICES ASSUME TypeInv, RecInv, [Next]_vars PROVE RecInv'
  OBVIOUS
<1>1. TypeOK /\ Len(File) \in Nat
  BY OptionTypes DEF TypeInv
<1>2. CASE RecordStatement
  BY <1>2, RecInvNoted DEF RecordStatement
<1>3. CASE ExecuteStatement
  <2>1. next' \in {next, next + 1}
    BY <1>3 DEF ExecuteStatement, LeaveStatement
  <2> QED
    BY <1>3, <2>1, RecInvNoted DEF ExecuteStatement
<1>4. CASE RetryStatement
  BY <1>4, RecInvNoted DEF RetryStatement
<1>5. CASE CloseFile
  <2>1. next = Len(File) + 1
    BY <1>1, <1>5 DEF CloseFile, TypeOK
  <2> QED
    BY <1>5, <2>1, RecInvStays, RecInvAdvances DEF CloseFile
<1>6. CASE LoadTables
  <2>1. next = Len(File) + 1 /\ step = 2
    BY <1>6 DEF LoadTables, TypeInv, Reading, CREATE
  <2> QED
    BY <1>6, <2>1, RecInvAdvances DEF LoadTables, AnswerCatalog
<1>7. CASE OpenFile \/ FailCatalog \/ ReloadTables \/ LoadRows \/ LoadWidths
  BY <1>7, RecInvStays
  DEF OpenFile, FailCatalog, ReloadTables, LoadRows, LoadWidths, AnswerCatalog
<1>8. CASE UNCHANGED vars
  BY <1>8, RecInvStays DEF vars
<1> QED
  BY <1>2, <1>3, <1>4, <1>5, <1>6, <1>7, <1>8 DEF Next, Ended

(* Retries and skipped steps never make the recorded DDL deviate from the  *)
(* file: it is the file in order, a statement possibly repeated, and all   *)
(* of it once the model is loaded.                                         *)
THEOREM DdlRecordsFollowTheFile == Safe => []RecordsFollowTheFile
<1>1. Init => RecInv
  BY DEF Init, RecInv, Chain, EndsWith, Step
<1>2. TypeInv /\ RecInv /\ LossInv => RecordsFollowTheFile
  <2> SUFFICES ASSUME TypeInv, RecInv, LossInv, NEW s \in Step
               PROVE  /\ Chain(recorded[s])
                      /\ outcome = "complete" =>
                           IF script[s] = <<>> THEN recorded[s] = <<>>
                           ELSE /\ Len(recorded[s]) > 0
                                /\ recorded[s][Len(recorded[s])] = Len(script[s])
    BY DEF RecordsFollowTheFile, Chain
  <2>1. script[s] \in Seq(Statement) /\ s \in 1..4 /\ Len(File) \in Nat
    BY OptionTypes DEF TypeInv, Step
  <2>2. outcome = "complete" => EndsWith(recorded[s], Len(script[s]))
    BY <2>1 DEF RecInv, LossInv, File
  <2>3. Len(script[s]) = 0 <=> script[s] = <<>>
    BY <2>1
  <2> QED
    BY <2>2, <2>3 DEF RecInv, EndsWith
<1>3. Safe => []LossInv
  BY LossInvInit, LossInvNext, AlwaysEndInv, PTL DEF Safe
<1> QED
  BY <1>1, <1>2, <1>3, RecInvNext, AlwaysTypeInv, PTL DEF Safe
=============================================================================
