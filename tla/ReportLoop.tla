----------------------------- MODULE ReportLoop -----------------------------
(***************************************************************************)
(* What the reports have in common: result files are read, their queries   *)
(* are put into pairs (or larger tuples), several loops go over the pairs, *)
(* and the document is published when the last loop is through.  Nothing   *)
(* catches an exception: the first one ends the report unpublished.        *)
(***************************************************************************)
EXTENDS StoredResults

VARIABLES
  kind,      \* args.type
  files,     \* the result files named on the command line, by role
  pairs,     \* the queries that are compared with each other
  phase,     \* the loop under way
  pos,       \* the pair it has come to
  tally      \* what the report has counted and marked so far

loopVars == <<kind, files, pairs, phase, pos, tally>>

(* No file, or one whose run had no queries: "queries": null.              *)
Readable(file) == file \notin {None, <<>>}

(* The queries of a file, each with its counterpart in another, or None.   *)
WithCounterpart(file, others) ==
  [n \in DOMAIN file |-> <<file[n], FindByHash(others, file[n].hash)>>]

(* A stable sort of the members at the places kept, by a key of each.      *)
Earlier(key, m, n) == key[m] < key[n] \/ (key[m] = key[n] /\ m < n)

Place(kept, key, n) == Cardinality({m \in kept : Earlier(key, m, n)}) + 1

Sorted(queries, kept, key) ==
  [k \in 1..Cardinality(kept) |-> queries[CHOOSE n \in kept : Place(kept, key, n) = k]]

(* add_query: the dictionary of the tags, in the order of their first use. *)
FirstUse(paired, kept, n) == Min({m \in kept : paired[m][1].tag = paired[n][1].tag})

ByTag(paired, kept) == Sorted(paired, kept, [n \in kept |-> FirstUse(paired, kept, n)])

FirstOfTag(n) == n = 1 \/ pairs[n - 1][1].tag # pairs[n][1].tag

Crash ==
  /\ phase' = "crashed"
  /\ UNCHANGED <<kind, files, pairs, pos, tally>>

Start(paired, first, zero) ==
  /\ pairs' = paired /\ phase' = first /\ tally' = zero
  /\ UNCHANGED <<kind, files, pos>>

(* One turn of the loop a report is in, and what follows its last turn.    *)
Turn(loop) == phase = loop /\ pos <= Len(pairs)

Tallied(new) ==
  /\ tally' = new /\ pos' = pos + 1
  /\ UNCHANGED <<kind, files, pairs, phase>>

Through(loop, next) ==
  /\ phase = loop /\ pos > Len(pairs)
  /\ phase' = next /\ pos' = 1
  /\ UNCHANGED <<kind, files, pairs, tally>>

\* A counter goes up, or it does not.
Count(b) == IF b THEN 1 ELSE 0
=============================================================================
