---------------------------- MODULE TelemetryLog ----------------------------
(***************************************************************************)
(* .governance/telemetry/runs.jsonl: one bounded file of observations that *)
(* checks, batch owners and reviewers of several processes append to under *)
(* a lock with a deadline (telemetry.py, skill_telemetry.py, state_io.py), *)
(* and the summary read from it.  A failed append fails nobody.            *)
(*                                                                         *)
(* A record keeps the fields decisions are taken on; what a check is about *)
(* (stage, mode, scope, subject) is About[run]; a size stands for bytes.   *)
(***************************************************************************)
EXTENDS Naturals, FiniteSets, Sequences, SequencesExt, FiniteSetsExt

CONSTANTS
  Writers,    \* processes that append
  Checks,     \* identifiers of runs
  About,      \* About[r]: stage, mode, scope and subject of a run
  Decisions,  \* identifiers of test batches
  MaxRecords, MaxBytes,  \* bounds of the file
  MaxOffers,  \* bound on appends
  MaxUnread   \* bound on readings that fail

NoWriter == "no writer"

ASSUME TelemetryAssumption ==
  /\ MaxRecords \in Nat \ {0} /\ MaxBytes \in Nat \ {0} /\ MaxOffers \in Nat /\ MaxUnread \in Nat
  /\ DOMAIN About = Checks /\ NoWriter \notin Writers

VARIABLES
  log,      \* the file
  writer,   \* holder of its lock
  reading,  \* the records the holder has read
  wants,    \* what each process is about to append
  runs,     \* where each check is
  offers, refusals,
  \* History: every record written, the latest form of each last; and when each
  \* observation was first written.
  said, first

logVars == <<log, writer, reading, wants, runs, offers, refusals, said, first>>

Nothing == [event |-> "nothing"]
Upserted == {"skill-decision", "test-batch-terminal"}
Events == {"run-started", "run-terminal", "run-reviewed"} \cup Upserted
Observations == Upserted \X Decisions

RunStarted(r) == [event |-> "run-started", id |-> r, status |-> "none", usage |-> 0]
RunEnded(r, status) == [event |-> "run-terminal", id |-> r, status |-> status, usage |-> 0]
Reviewed(r, disposition) == [event |-> "run-reviewed", id |-> r, status |-> disposition, usage |-> 0]
Decided(d) == [event |-> "skill-decision", id |-> d, status |-> "direct", usage |-> 0]
Batch(d, outcome, usage) == [event |-> "test-batch-terminal", id |-> d, status |-> outcome, usage |-> usage]

Bytes(record) == 1 + record.usage
Identity(record) == <<record.event, record.id>>
Identities == Events \X (Checks \cup Decisions)

\* The records of these identities, in their order.
Keeping(records, identities) ==
  LET kept[n \in 0 .. Len(records)] ==
        IF n = 0 THEN <<>>
        ELSE IF Identity(records[n]) \in identities THEN Append(kept[n - 1], records[n]) ELSE kept[n - 1]
  IN kept[Len(records)]

LogInit ==
  /\ log = <<>> /\ writer = NoWriter /\ reading = <<>>
  /\ wants = [p \in Writers |-> Nothing] /\ runs = [r \in Checks |-> "none"]
  /\ offers = 0 /\ refusals = 0
  /\ said = <<>> /\ first = [o \in Observations |-> 0]

-----------------------------------------------------------------------------
(* Appending. *)

\* What is offered: the two ends of a check, in their order; a batch's decision
\* and result, again after every recovery; and reviews of whatever run.
Offer(p) ==
  /\ wants[p] = Nothing /\ offers < MaxOffers /\ offers' = offers + 1
  /\ \/ \E r \in Checks :
          \/ /\ runs[r] = "none" /\ runs' = [runs EXCEPT ![r] = "started"]
             /\ wants' = [wants EXCEPT ![p] = RunStarted(r)]
          \/ /\ runs[r] = "started" /\ \A q \in Writers : wants[q] # RunStarted(r)
             /\ runs' = [runs EXCEPT ![r] = "ended"]
             /\ \E status \in {"passed", "failed"} : wants' = [wants EXCEPT ![p] = RunEnded(r, status)]
          \/ UNCHANGED runs /\ wants' = [wants EXCEPT ![p] = Reviewed(r, "confirmed-issue")]
     \/ /\ UNCHANGED runs
        /\ \E d \in Decisions :
             \/ wants' = [wants EXCEPT ![p] = Decided(d)]
             \/ \E usage \in {0, 1} : wants' = [wants EXCEPT ![p] = Batch(d, "failed", usage)]
  /\ UNCHANGED <<log, writer, reading, refusals, said, first>>

\* The lock is taken and the file read; a file that cannot be read counts as empty.
Acquire(p) ==
  /\ wants[p] # Nothing /\ writer = NoWriter /\ writer' = p
  /\ \/ reading' = log /\ UNCHANGED refusals
     \/ reading' = <<>> /\ refusals < MaxUnread /\ refusals' = refusals + 1
  /\ UNCHANGED <<log, wants, runs, offers, said, first>>

\* TimeoutError: the lock was taken for two seconds.
GiveUp(p) ==
  /\ wants[p] # Nothing /\ writer \notin {NoWriter, p}
  /\ wants' = [wants EXCEPT ![p] = Nothing]
  /\ UNCHANGED <<log, writer, reading, runs, offers, refusals, said, first>>

\* The process is killed: a flock goes with it, a file not yet replaced stays.
Die(p) ==
  /\ wants[p] # Nothing /\ wants' = [wants EXCEPT ![p] = Nothing]
  /\ writer' = IF writer = p THEN NoWriter ELSE writer
  /\ UNCHANGED <<log, reading, runs, offers, refusals, said, first>>

SameObservation(x, y) == Identity(x) = Identity(y)
Priors(records, record) == {i \in DOMAIN records : record.event \in Upserted /\ SameObservation(records[i], record)}

\* An observation made again replaces its earlier record: it keeps the time of
\* the first and whatever fields are not observed now.
Rendered(records, record) ==
  IF Priors(records, record) = {} THEN record
  ELSE LET prior == records[Min(Priors(records, record))]
       IN [record EXCEPT !.usage = IF @ = 0 THEN prior.usage ELSE @]
Others(records, record) ==
  Keeping(records, IF record.event \in Upserted THEN Identities \ {Identity(record)} ELSE Identities)
Stamped(record, at) == [event |-> record.event, id |-> record.id, status |-> record.status,
                        usage |-> record.usage, at |-> at]
TimeNow(records, record) == offers                                         \* faulty
Time(records, record) ==
  IF Priors(records, record) = {} THEN offers ELSE records[Min(Priors(records, record))].at

Total(records) ==
  LET sum[n \in 0 .. Len(records)] == IF n = 0 THEN 0 ELSE sum[n - 1] + Bytes(records[n])
  IN sum[Len(records)]
Newest(records, n) == SubSeq(records, Len(records) - n + 1, Len(records))

\* The newest records within both bounds.
Bounded(records) ==
  Newest(records, Max({n \in 0 .. Min({Len(records), MaxRecords}) : Total(Newest(records, n)) <= MaxBytes}))

\* A review is for a run whose end is still on record.
Reviewable(records, record) ==
  record.event = "run-reviewed" =>
    \E i \in DOMAIN records : records[i].event = "run-terminal" /\ records[i].id = record.id

\* Faulty: what was recorded before stays where it is.
WriteAgain(p) ==
  LET record == wants[p]
      kept == Bounded(Append(reading, Stamped(record, offers)))
  IN /\ writer = p /\ writer' = NoWriter /\ wants' = [wants EXCEPT ![p] = Nothing]
     /\ log' = kept /\ said' = Append(Others(said, record), Last(kept))
     /\ UNCHANGED <<reading, runs, offers, refusals, first>>

Write(p) ==
  LET record == wants[p]
      line == Stamped(Rendered(reading, record), Time(reading, record))
      kept == Bounded(Append(Others(reading, record), line))
  IN /\ writer = p /\ writer' = NoWriter /\ wants' = [wants EXCEPT ![p] = Nothing]
     /\ IF Reviewable(reading, record) /\ kept # <<>>
        THEN /\ log' = kept
             /\ said' = IF reading = log THEN Append(Others(said, record), line) ELSE <<line>>
             /\ first' = IF record.event \in Upserted /\ Priors(reading, record) = {}
                         THEN [first EXCEPT ![<<record.event, record.id>>] = offers] ELSE first
        ELSE UNCHANGED <<log, said, first>>
     /\ UNCHANGED <<reading, runs, offers, refusals>>

LogNext == \E p \in Writers : Offer(p) \/ Acquire(p) \/ GiveUp(p) \/ Die(p) \/ Write(p)

LogSpec == LogInit /\ [][LogNext]_logVars

-----------------------------------------------------------------------------
(* The summary (status, _validation_status, _classification_status,        *)
(* _repeat_examples, skill_telemetry.summary).                             *)

Of(records, event) == Keeping(records, {event} \X (Checks \cup Decisions))
IdsOf(records) == {records[i].id : i \in DOMAIN records}

\* A run's records are selected together; the filter is a set of stages.
Selected(records, stages) ==
  LET chosen == {r \in Checks : About[r].stage \in stages
                   /\ \E i \in DOMAIN records : records[i].event \in {"run-started", "run-terminal"} /\ records[i].id = r}
  IN Keeping(records, Events \X chosen)

\* The last review of a run counts.
Disposition(records, r) ==
  LET reviews == {i \in DOMAIN records : records[i].event = "run-reviewed" /\ records[i].id = r}
  IN IF reviews = {} THEN "unreviewed" ELSE records[Max(reviews)].status

Repeats(terminals, key) ==
  LET keys == {key[terminals[i].id] : i \in DOMAIN terminals} \ {"none"}
      runsOf(k) == {i \in DOMAIN terminals : key[terminals[i].id] = k}
  IN MapThenSumSet(LAMBDA k : Cardinality(runsOf(k)) - 1, keys)

SubjectKey == [r \in Checks |-> IF About[r].mode = "explicit" THEN "none" ELSE About[r].subject]
ScopeKey == [r \in Checks |-> IF About[r].mode = "explicit" THEN "none" ELSE About[r].scope]

\* Two runs of one identity, the later with the one just before it.
Examples(terminals) ==
  LET twins(i, j) == About[terminals[i].id] = About[terminals[j].id]
      before(j) == {k \in DOMAIN terminals : k < j /\ twins(k, j)}
  IN {e \in (DOMAIN terminals) \X (DOMAIN terminals) :
        /\ About[terminals[e[2]].id].mode = "impacted"
        /\ e[1] = Max(before(e[2]) \cup {0})
        /\ terminals[e[1]].id # terminals[e[2]].id
        /\ \A k \in DOMAIN terminals : k > e[2] => ~twins(k, e[2])}

Summary(records) ==
  LET terminals == Of(records, "run-terminal")
      ended == IdsOf(terminals)
  IN [runs |-> Len(terminals),
      outcomes |-> [s \in {"passed", "failed"} |-> Cardinality({i \in DOMAIN terminals : terminals[i].status = s})],
      reviewed |-> Cardinality({i \in DOMAIN terminals : Disposition(records, terminals[i].id) # "unreviewed"}),
      nonterminal |-> IdsOf(Of(records, "run-started")) \ ended,
      sameScope |-> Repeats(terminals, ScopeKey), sameSubject |-> Repeats(terminals, SubjectKey),
      examples |-> {<<terminals[e[1]].id, terminals[e[2]].id>> : e \in Examples(terminals)}]

-----------------------------------------------------------------------------
(* Properties. *)

\* What is retained is the newest of what was written, without gaps; one record
\* per observation, with the time it was first made while it stayed on record;
\* so that no check whose end was written is reported as never ending, no review
\* is counted without the run it is about, and the repetitions shown are of two
\* runs in the order they ended (append, _bounded_records, _validation_status).
LogFaithful ==
  LET all == Selected(log, {About[r].stage : r \in Checks})
      summary == Summary(all)
      endsAt(r) == CHOOSE i \in DOMAIN said : said[i].event = "run-terminal" /\ said[i].id = r
  IN /\ Len(log) <= MaxRecords /\ Total(log) <= MaxBytes
     /\ log = Newest(said, Len(log))
     /\ \A i, j \in DOMAIN log : log[i].event \in Upserted /\ SameObservation(log[i], log[j]) => i = j
     /\ \A i \in DOMAIN log : log[i].event \in Upserted => log[i].at = first[<<log[i].event, log[i].id>>]
     /\ \A r \in summary.nonterminal : \A i \in DOMAIN said : said[i].event = "run-terminal" => said[i].id # r
     /\ summary.reviewed <= summary.runs
     /\ summary.outcomes["passed"] + summary.outcomes["failed"] = summary.runs
     /\ \A e \in summary.examples : e[1] # e[2] /\ About[e[1]] = About[e[2]] /\ endsAt(e[1]) < endsAt(e[2])

\* "recovery must not consume the retention budget": making an observation again
\* that grows by nothing leaves every other record where it was (append).
ReRecordingFree ==
  [][\A p \in Writers :
       (/\ writer = p /\ reading = log /\ log' # log
        /\ \E i \in Priors(log, wants[p]) : log[i].usage >= wants[p].usage)
     => \A i \in DOMAIN log : ~SameObservation(log[i], wants[p]) => \E j \in DOMAIN log' : log'[j] = log[i]]_logVars
=============================================================================
