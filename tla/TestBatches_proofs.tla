-------------------------- MODULE TestBatches_proofs --------------------------
(***************************************************************************)
(* Proofs about TestBatches for every number of cases, dependency relation *)
(* and set of callers, and any number of kills, refused signals, changed   *)
(* inputs and delivery retries.                                            *)
(***************************************************************************)
EXTENDS TestBatches, TLAPS

-----------------------------------------------------------------------------
(* The inductive invariant *)

AtCase  == {"verify", "unlink", "spawn", "record", "release", "wait", "check"}
Closing == {"closing", "result", "pending", "publish", "asks"}
After   == {"notifying", "gone", "killed"}
Points  == {"starts", "next"} \cup AtCase \cup Closing \cup After

Evidence == [cases : [Cases -> Outcomes], assess : BOOLEAN]
Results  == [kind : {"none", "pending", "final"}, state : Terminal \cup {"none"}, evidence : Evidence]
Closers  == [who : {"guardian"} \cup Callers, at : {"judge", "result", "publish"}]

FileTypes ==
  /\ status \in Terminal \cup {"running"} /\ stage \in BOOLEAN
  /\ result \in Results /\ progress \in Evidence
  /\ ack \in BOOLEAN /\ provider \in 0 .. Size /\ cancel \in BOOLEAN

NoticeTypes ==
  /\ notice \in [Kinds -> {"none", "sending", "queued", "failed"}]
  /\ noticeLock \in Senders \cup {"none"}
  /\ sender \in [Senders -> {"idle", "waits", "sends"}]
  /\ about \in [Senders -> Kinds] /\ retry \in [Senders -> BOOLEAN]
  /\ sent \in [Kinds -> Nat] /\ retries \in [Kinds -> Nat] /\ told \in Results

ProcessTypes ==
  /\ inputs \in BOOLEAN /\ resource \in {"free", "held"}
  /\ program \in {"none", "gated", "running", "well", "badly"}
  /\ worker \in Points /\ case \in 1 .. Size + 1
  /\ outcomes \in [Cases -> Outcomes] /\ assess \in BOOLEAN
  /\ verdict \in Terminal \cup {"none"} /\ vouched \subseteq Cases
  /\ guardian \in {"watching", "notifying", "leaving", "gone", "killed"}
  /\ closer \in Closers \cup {NoCloser}

\* Who may be where: a batch is closed by its worker, by its guardian once the
\* worker is lost, and by a caller once both are; and its end ends all that.
LifeInv ==
  /\ Ended => worker \in After /\ ~stage /\ closer = NoCloser
  /\ stage => worker \in After
  /\ closer # NoCloser => /\ Gone(worker)
                          /\ closer.who = "guardian" => guardian = "watching"
                          /\ closer.who \in Callers => Gone(guardian)
  /\ guardian = "notifying" => Gone(worker)
  /\ guardian = "leaving" => Ended
  /\ worker \in {"starts", "next"} \cup (AtCase \ {"check"}) => verdict = "none"
  /\ worker \in Closing => verdict # "none"

\* What may still run or be held at each point on the way to the end.
CleanInv ==
  /\ program = "gated" <=> worker \in {"record", "release"}
  /\ worker \in {"starts", "next", "verify", "unlink", "spawn"} => program = "none"
  /\ worker = "check" /\ verdict = "none" => program = "none"
  /\ worker \in {"result", "publish"} => program = "none" /\ resource = "free"
  /\ closer # NoCloser => program = "none"
  /\ closer.at \in {"result", "publish"} => resource = "free"
  /\ resource = "held" => ~CleanupConfirmed
  /\ worker \in {"spawn", "record", "release"} => ~ack \/ ~CleanupRequired
  /\ worker = "release" => provider # 0
  /\ TerminalClean

\* A case that ran had its dependencies passed.
Sound(cases) == \A c \in Cases : cases[c] # "not-run" => \A d \in Depends[c] : cases[d] = "passed"
Passed(cases) == {c \in Cases : cases[c] = "passed"}
Vouched(evidence) == Sound(evidence.cases) /\ Passed(evidence.cases) \subseteq vouched

\* What the worker knows of its cases: those behind it have all passed, or one
\* of them has not; those before it have not run.
CasesInv ==
  /\ worker = "starts" => case = 1
  /\ Sound(outcomes)
  /\ Passed(outcomes) \subseteq vouched \cup (IF worker = "check" THEN {case} ELSE {})
  /\ worker \in AtCase => case <= Size /\ Ready(case)
  /\ worker \in {"starts", "next"} \cup AtCase =>
       \A c \in Cases : c > case \/ (c = case /\ worker # "check") => outcomes[c] = "not-run"
  /\ worker \in {"next"} \cup AtCase =>
       \/ \E c \in Cases : c < case /\ outcomes[c] \in {"failed", "blocked"}
       \/ \A c \in Cases : c < case => outcomes[c] = "passed"
  /\ worker = "check" => outcomes[case] # "not-run" /\ verdict # "succeeded"
  /\ worker \in {"next"} \cup AtCase /\ verdict = "none" => assess
  /\ worker \in Closing /\ verdict = "succeeded" => assess /\ \A c \in Cases : outcomes[c] = "passed"

\* What is in the files of the batch.
ResultInv ==
  /\ Vouched(progress) /\ Vouched(result.evidence)
  /\ result.kind # "none" => result.state # "none"
  /\ result.state = "succeeded" => result.evidence.assess /\ \A c \in Cases : result.evidence.cases[c] = "passed"
  /\ result.evidence.assess => verdict # "none"
  /\ worker = "publish" => result.kind = "final" /\ result.state = verdict
  /\ closer.at = "publish" => result.kind = "final"
  /\ Ended => result.kind = "final" /\ result.state = status

\* One sender at a time, which nobody has answered before it; what it was told to
\* send is still true.
NoticeInv ==
  /\ \A d \in Senders : sender[d] = "sends" <=> noticeLock = d
  /\ \A k \in Kinds : sent[k] <= 1 + retries[k] /\ (notice[k] = "none" => sent[k] = 0)
  /\ \A d \in Senders : sender[d] = "sends" =>
       notice[about[d]] # "none" /\ sent[about[d]] <= retries[about[d]]
  /\ \A d \in Senders : sender[d] # "idle" /\ about[d] = "terminal" => Ended
  /\ told.kind # "none" => Ended /\ told = result
  /\ sender["worker"] # "idle" => worker = "notifying" /\ (about["worker"] = "attention" => ~Ended)
  /\ sender["guardian"] # "idle" =>
       guardian \in {"notifying", "leaving"} /\ (about["guardian"] = "attention" => ~Ended)

BatchTypes == FileTypes /\ NoticeTypes /\ ProcessTypes
BatchInv == BatchTypes /\ LifeInv /\ CleanInv /\ CasesInv /\ ResultInv /\ NoticeInv

-----------------------------------------------------------------------------
(* What a step leaves alone stays as it was. *)

LEMMA NoticesUntouched ==
  ASSUME BatchInv, UNCHANGED <<noticeVars, status, result, guardian>>,
         worker' = worker \/ worker # "notifying"
  PROVE  NoticeTypes' /\ NoticeInv'
<1>1. NoticeTypes'
  BY DEF BatchInv, BatchTypes, NoticeTypes, noticeVars
<1>2. NoticeInv'
  BY DEF BatchInv, NoticeInv, noticeVars, Ended
<1>. QED
  BY <1>1, <1>2

LEMMA ResultUntouched ==
  ASSUME BatchInv, UNCHANGED <<status, result, progress>>, vouched \subseteq vouched',
         verdict' \in {verdict} \cup Terminal,
         worker' # "publish" \/ UNCHANGED <<worker, verdict>>,
         closer'.at # "publish" \/ UNCHANGED closer
  PROVE  ResultInv'
<1>1. Vouched(progress)' /\ Vouched(result.evidence)'
  BY DEF BatchInv, ResultInv, Vouched
<1>2. verdict # "none" => verdict' # "none"
  BY DEF Terminal
<1>. QED
  BY <1>1, <1>2 DEF BatchInv, ResultInv, Ended

LEMMA CasesUntouched ==
  ASSUME BatchInv, UNCHANGED <<worker, verdict, vouched, caseVars>>
  PROVE  CasesInv'
BY DEF BatchInv, CasesInv, Ready, caseVars

LEMMA LifeUntouched ==
  ASSUME BatchInv, UNCHANGED <<status, stage, worker, verdict, guardian, closer>>
  PROVE  LifeInv'
BY DEF BatchInv, LifeInv, Ended

LEMMA CleanUntouched ==
  ASSUME BatchInv, UNCHANGED <<status, ack, provider, program, resource, worker, verdict, closer>>
  PROVE  CleanInv'
BY DEF BatchInv, CleanInv, CleanupConfirmed, TerminalClean, Ended

LEMMA FilesUntouched ==
  ASSUME BatchInv, UNCHANGED fileVars
  PROVE  FileTypes'
BY DEF BatchInv, BatchTypes, FileTypes, fileVars

LEMMA ForgottenCases ==
  ASSUME ForgetsCases
  PROVE  /\ case' = 1 /\ outcomes' \in [Cases -> Outcomes] /\ assess' = FALSE /\ 1 \in 1 .. Size + 1
         /\ \A c \in Cases : outcomes'[c] = "not-run"
         /\ Sound(outcomes') /\ Passed(outcomes') = {}
<1>1. NoEvidence.cases = [c \in Cases |-> "not-run"]
  BY DEF NoEvidence
<1>. QED
  BY <1>1, BatchAssumption DEF ForgetsCases, Outcomes, Sound, Passed

\* A supervisor that has made its attempt leaves, or watches on.
LEMMA AttemptKeeps ==
  ASSUME BatchInv, NEW d \in Senders, Attempted(d), UNCHANGED <<fileVars, worldVars>>,
         d = "worker" => worker = "notifying", d = "guardian" => guardian \in {"notifying", "leaving"}
  PROVE  ProcessTypes' /\ LifeInv' /\ CleanInv' /\ CasesInv' /\ ResultInv'
<1>1. UNCHANGED <<verdict, vouched, closer, status, stage, result, progress, ack, provider, cancel, inputs,
                  resource, program>>
  BY DEF Attempted, fileVars, worldVars
<1>2. CASE d = "worker"
  <2>1. worker = "notifying" /\ worker' = "gone" /\ ForgetsCases /\ UNCHANGED guardian
    BY <1>2 DEF Attempted
  <2>2. ProcessTypes'
    BY <1>1, <2>1, ForgottenCases DEF BatchInv, BatchTypes, ProcessTypes, Points, After
  <2>3. LifeInv'
    BY <1>1, <2>1 DEF BatchInv, LifeInv, Ended, Gone, After, AtCase, Closing
  <2>4. CleanInv'
    BY <1>1, <2>1 DEF BatchInv, CleanInv, CleanupConfirmed, TerminalClean, Ended
  <2>5. CasesInv'
    BY <2>1, ForgottenCases DEF AtCase, Closing, CasesInv
  <2>6. ResultInv'
    BY <1>1, <2>1, ResultUntouched
  <2>. QED
    BY <2>2, <2>3, <2>4, <2>5, <2>6
<1>3. CASE d # "worker"
  <2>1. UNCHANGED <<worker, caseVars>> /\ (guardian' = guardian \/ (guardian = "leaving" /\ guardian' = "gone")
                                          \/ (guardian = "notifying" /\ guardian' = "watching"))
    BY <1>3 DEF Attempted
  <2>2. ProcessTypes'
    BY <1>1, <2>1 DEF BatchInv, BatchTypes, ProcessTypes, caseVars
  <2>3. LifeInv'
    BY <1>1, <2>1 DEF BatchInv, LifeInv, Ended, Gone
  <2>. QED
    BY <1>1, <2>1, <2>2, <2>3, CleanUntouched, CasesUntouched, ResultUntouched
<1>. QED
  BY <1>2, <1>3

\* Whoever dies no longer sends; what it sent counts once.
LEMMA LosesKeeps ==
  ASSUME BatchInv, NEW d \in Senders, Loses(d), UNCHANGED fileVars,
         worker' = worker \/ d = "worker", guardian' = guardian \/ d = "guardian"
  PROVE  NoticeTypes' /\ NoticeInv'
<1>1. NoticeTypes'
  BY DEF BatchInv, BatchTypes, NoticeTypes, Loses, Forgets, Accepts, Kinds
<1>2. UNCHANGED <<notice, retries, told, status, result>> /\ sender'[d] = "idle" /\ noticeLock' # d
      /\ \A e \in Senders \ {d} : sender'[e] = sender[e] /\ about'[e] = about[e] /\ (noticeLock' = e <=> noticeLock = e)
  BY BatchAssumption DEF BatchInv, BatchTypes, NoticeTypes, Loses, Forgets, fileVars, Senders
<1>3. sent' = sent \/ (sender[d] = "sends" /\ Accepts(about[d]))
  BY DEF Loses
<1>4. \A k \in Kinds : sent'[k] <= 1 + retries[k] /\ (notice[k] = "none" => sent'[k] = 0)
  BY <1>3 DEF BatchInv, BatchTypes, NoticeTypes, NoticeInv, Accepts
<1>5. \A e \in Senders \ {d} : sender[e] = "sends" => sender[d] # "sends"
  BY DEF BatchInv, NoticeInv
<1>6. NoticeInv'
  BY <1>2, <1>3, <1>4 DEF BatchInv, NoticeInv, Ended, Senders
<1>. QED
  BY <1>1, <1>6

-----------------------------------------------------------------------------
(* Every step *)

LEMMA ExecuteBeginsKeeps ==
  ASSUME BatchInv, ExecuteBegins
  PROVE  BatchInv'
<1>1. FileTypes'
  BY DEF BatchInv, BatchTypes, FileTypes, Evidence, NoEvidence, Outcomes, ExecuteBegins
<1>2. ProcessTypes'
  BY DEF BatchInv, BatchTypes, ProcessTypes, Closing, Points, Terminal, ExecuteBegins, Filed, Ends, Interrupted,
     worldVars, closeVars
<1>3. LifeInv'
  BY DEF BatchInv, LifeInv, Ended, Gone, AtCase, Closing, After, ExecuteBegins, Filed, Ends, Interrupted, closeVars
<1>4. CleanInv'
  BY DEF BatchInv, CleanInv, TerminalClean, CleanupConfirmed, Ended, ExecuteBegins, Filed, Ends, worldVars, closeVars
<1>5. CasesInv'
  BY DEF BatchInv, CasesInv, AtCase, Closing, Cases, ExecuteBegins, Ends, Interrupted
<1>6. ResultInv'
  BY DEF BatchInv, ResultInv, Vouched, Sound, Passed, Ended, NoEvidence, ExecuteBegins, Filed, Ends, Interrupted,
     closeVars
<1>. QED
  BY <1>1, <1>2, <1>3, <1>4, <1>5, <1>6, NoticesUntouched DEF BatchInv, BatchTypes, ExecuteBegins, Filed, closeVars

LEMMA SkipsCaseKeeps ==
  ASSUME BatchInv, SkipsCase
  PROVE  BatchInv'
<1>1. ProcessTypes'
  BY BatchAssumption DEF BatchInv, BatchTypes, ProcessTypes, SkipsCase, OnlyWork, Filed, worldVars, closeVars
<1>2. CasesInv'
  BY BatchAssumption DEF BatchInv, BatchTypes, ProcessTypes, CasesInv, Ready, Closing, Cases, SkipsCase
<1>. QED
  BY <1>1, <1>2, FilesUntouched, NoticesUntouched, LifeUntouched, CleanUntouched, ResultUntouched DEF BatchInv,
     BatchTypes, SkipsCase, OnlyWork, Filed, fileVars, worldVars, closeVars

LEMMA TakesCaseKeeps ==
  ASSUME BatchInv, TakesCase
  PROVE  BatchInv'
<1>1. ProcessTypes'
  BY DEF BatchInv, BatchTypes, ProcessTypes, AtCase, Points, TakesCase, Goes, OnlyWork, Filed, worldVars, caseVars,
     closeVars
<1>2. LifeInv'
  BY DEF BatchInv, LifeInv, Ended, Gone, Closing, After, TakesCase, Goes, OnlyWork, Filed, fileVars, closeVars
<1>3. CleanInv'
  BY DEF BatchInv, CleanInv, TerminalClean, CleanupConfirmed, Ended, TakesCase, Goes, OnlyWork, Filed, fileVars,
     worldVars, closeVars
<1>4. CasesInv'
  BY DEF BatchInv, LifeInv, CasesInv, Ready, TakesCase, Goes, caseVars
<1>. QED
  BY <1>1, <1>2, <1>3, <1>4, FilesUntouched, NoticesUntouched, ResultUntouched DEF BatchInv, BatchTypes, TakesCase,
     Goes, OnlyWork, Filed, fileVars, closeVars

LEMMA StopsBetweenCasesKeeps ==
  ASSUME BatchInv, StopsBetweenCases
  PROVE  BatchInv'
<1>1. ProcessTypes'
  BY DEF BatchInv, BatchTypes, ProcessTypes, Closing, Points, Terminal, StopsBetweenCases, Ends, Interrupted,
     OnlyWork, Filed, worldVars, closeVars
<1>2. LifeInv'
  BY DEF BatchInv, LifeInv, Ended, Gone, AtCase, After, StopsBetweenCases, Ends, Interrupted, OnlyWork, Filed,
     fileVars, closeVars
<1>3. CleanInv'
  BY DEF BatchInv, CleanInv, TerminalClean, CleanupConfirmed, Ended, StopsBetweenCases, Ends, OnlyWork, Filed,
     fileVars, worldVars, closeVars
<1>4. CasesInv'
  BY DEF BatchInv, CasesInv, AtCase, StopsBetweenCases, Ends, Interrupted
<1>. QED
  BY <1>1, <1>2, <1>3, <1>4, FilesUntouched, NoticesUntouched, ResultUntouched DEF BatchInv, BatchTypes,
     StopsBetweenCases, Ends, Interrupted, OnlyWork, Filed, fileVars, closeVars, Terminal

LEMMA AllCasesDoneKeeps ==
  ASSUME BatchInv, AllCasesDone
  PROVE  BatchInv'
<1>1. ProcessTypes'
  BY DEF BatchInv, BatchTypes, ProcessTypes, Closing, Points, Terminal, AllCasesDone, Ends, OnlyWork, Filed,
     worldVars, closeVars
<1>2. LifeInv'
  BY DEF BatchInv, LifeInv, Ended, Gone, AtCase, After, AllCasesDone, Ends, OnlyWork, Filed, fileVars, closeVars
<1>3. CleanInv'
  BY DEF BatchInv, CleanInv, TerminalClean, CleanupConfirmed, Ended, AllCasesDone, Ends, OnlyWork, Filed, fileVars,
     worldVars, closeVars
<1>4. CasesInv'
  BY BatchAssumption DEF BatchInv, BatchTypes, ProcessTypes, LifeInv, CasesInv, AtCase, Cases, AllCasesDone, Ends
<1>. QED
  BY <1>1, <1>2, <1>3, <1>4, FilesUntouched, NoticesUntouched, ResultUntouched DEF BatchInv, BatchTypes, AllCasesDone,
     Ends, OnlyWork, Filed, fileVars, closeVars, Terminal

\* A case that is given up before its program is looked at.
LEMMA InvalidCases ==
  ASSUME BatchInv, worker \in {"verify", "spawn"}, Invalid, UNCHANGED <<case, vouched>>
  PROVE  CasesInv'
<1>1. case \in Cases /\ outcomes \in [Cases -> Outcomes] /\ \A c \in Cases : Depends[c] \subseteq Cases
  BY BatchAssumption DEF BatchInv, BatchTypes, ProcessTypes, CasesInv, AtCase, Cases
<1>2. outcomes[case] = "not-run" /\ Ready(case) /\ Sound(outcomes) /\ Passed(outcomes) \subseteq vouched
  BY <1>1 DEF BatchInv, CasesInv, AtCase
<1>3. /\ outcomes'[case] = "failed" /\ \A c \in Cases : c # case => outcomes'[c] = outcomes[c]
      /\ worker' = "closing" /\ verdict' = "failed" /\ vouched' = vouched
  BY <1>1 DEF Invalid, Ends
<1>4. \A c \in Cases : /\ outcomes'[c] = "passed" <=> outcomes[c] = "passed"
                       /\ outcomes'[c] # "not-run" => c = case \/ outcomes[c] # "not-run"
  BY <1>2, <1>3
<1>5. Sound(outcomes')
  BY <1>1, <1>2, <1>4 DEF Sound, Ready
<1>6. Passed(outcomes') \subseteq vouched'
  BY <1>2, <1>3, <1>4 DEF Passed
<1>. QED
  BY <1>3, <1>5, <1>6 DEF CasesInv, AtCase, Closing

LEMMA VerifiesInputsKeeps ==
  ASSUME BatchInv, VerifiesInputs
  PROVE  BatchInv'
<1>1. ProcessTypes'
  BY DEF BatchInv, BatchTypes, ProcessTypes, LifeInv, AtCase, Closing, Points, Terminal, Outcomes, VerifiesInputs,
     Invalid, Ends, OnlyWork, Filed, worldVars, closeVars
<1>2. LifeInv'
  BY DEF BatchInv, LifeInv, Ended, Gone, AtCase, Closing, After, VerifiesInputs, Invalid, Ends, OnlyWork, Filed,
     fileVars, closeVars
<1>3. CleanInv'
  BY DEF BatchInv, CleanInv, TerminalClean, CleanupConfirmed, Ended, VerifiesInputs, Invalid, Ends, OnlyWork, Filed,
     fileVars, worldVars, closeVars
<1>4. CasesInv'
  <2>1. CASE worker' = "unlink" /\ UNCHANGED <<outcomes, assess, verdict, case, vouched>>
    BY <2>1 DEF BatchInv, CasesInv, Ready, AtCase, Closing, VerifiesInputs
  <2>2. CASE Invalid
    BY <2>2, InvalidCases DEF VerifiesInputs
  <2>. QED
    BY <2>1, <2>2 DEF VerifiesInputs
<1>. QED
  BY <1>1, <1>2, <1>3, <1>4, FilesUntouched, NoticesUntouched, ResultUntouched DEF BatchInv, BatchTypes,
     VerifiesInputs, Invalid, Ends, OnlyWork, Filed, fileVars, closeVars, Terminal

LEMMA UnlinksAckKeeps ==
  ASSUME BatchInv, UnlinksAck
  PROVE  BatchInv'
<1>1. FileTypes'
  BY DEF BatchInv, BatchTypes, FileTypes, UnlinksAck
<1>2. ProcessTypes'
  BY DEF BatchInv, BatchTypes, ProcessTypes, AtCase, Points, UnlinksAck, Goes, Filed, worldVars, caseVars, closeVars
<1>3. LifeInv'
  BY DEF BatchInv, LifeInv, Ended, Gone, AtCase, Closing, After, UnlinksAck, Goes, Filed, closeVars
<1>4. CleanInv'
  BY DEF BatchInv, BatchTypes, FileTypes, LifeInv, CleanInv, TerminalClean, CleanupConfirmed, Ended, After,
     UnlinksAck, Goes, Filed, worldVars, closeVars
<1>5. CasesInv'
  BY DEF BatchInv, CasesInv, Ready, AtCase, Closing, UnlinksAck, Goes, caseVars
<1>. QED
  BY <1>1, <1>2, <1>3, <1>4, <1>5, NoticesUntouched, ResultUntouched DEF BatchInv, BatchTypes, UnlinksAck, Goes,
     Filed, closeVars

LEMMA SpawnsCaseKeeps ==
  ASSUME BatchInv, SpawnsCase
  PROVE  BatchInv'
<1>1. ProcessTypes'
  BY DEF BatchInv, BatchTypes, ProcessTypes, LifeInv, AtCase, Closing, Points, Terminal, Outcomes, SpawnsCase,
     Invalid, Ends, closeVars
<1>2. LifeInv'
  BY DEF BatchInv, LifeInv, Ended, Gone, AtCase, Closing, After, SpawnsCase, Invalid, Ends, fileVars, closeVars
<1>3. CleanInv'
  BY DEF BatchInv, LifeInv, CleanInv, TerminalClean, CleanupConfirmed, Ended, Gone, After, SpawnsCase, Invalid, Ends,
     fileVars, closeVars
<1>4. CasesInv'
  <2>1. CASE worker' = "record" /\ UNCHANGED <<outcomes, assess, verdict, case, vouched>>
    BY <2>1 DEF BatchInv, CasesInv, Ready, AtCase, Closing, SpawnsCase
  <2>2. CASE Invalid
    BY <2>2, InvalidCases DEF SpawnsCase
  <2>. QED
    BY <2>1, <2>2 DEF SpawnsCase
<1>. QED
  BY <1>1, <1>2, <1>3, <1>4, FilesUntouched, NoticesUntouched, ResultUntouched DEF BatchInv, BatchTypes, SpawnsCase,
     Invalid, Ends, fileVars, closeVars, Terminal

LEMMA RecordsCaseKeeps ==
  ASSUME BatchInv, RecordsCase
  PROVE  BatchInv'
<1>1. FileTypes'
  BY DEF BatchInv, BatchTypes, FileTypes, ProcessTypes, CasesInv, AtCase, RecordsCase, Goes
<1>2. ProcessTypes'
  BY DEF BatchInv, BatchTypes, ProcessTypes, AtCase, Points, RecordsCase, Goes, Filed, worldVars, caseVars, closeVars
<1>3. LifeInv'
  BY DEF BatchInv, LifeInv, Ended, Gone, AtCase, Closing, After, RecordsCase, Goes, Filed, closeVars
<1>4. CleanInv'
  BY DEF BatchInv, BatchTypes, ProcessTypes, CleanInv, TerminalClean, CleanupConfirmed, Ended, RecordsCase, Goes,
     Filed, worldVars, closeVars
<1>5. CasesInv'
  BY DEF BatchInv, CasesInv, Ready, AtCase, Closing, RecordsCase, Goes, caseVars
<1>. QED
  BY <1>1, <1>2, <1>3, <1>4, <1>5, NoticesUntouched, ResultUntouched DEF BatchInv, BatchTypes, RecordsCase, Goes,
     Filed, closeVars

LEMMA ReleasesCaseKeeps ==
  ASSUME BatchInv, ReleasesCase
  PROVE  BatchInv'
<1>1. ProcessTypes'
  BY DEF BatchInv, BatchTypes, ProcessTypes, AtCase, Points, ReleasesCase, Goes, closeVars
<1>2. LifeInv'
  BY DEF BatchInv, LifeInv, Ended, Gone, AtCase, Closing, After, ReleasesCase, Goes, fileVars, closeVars
<1>3. CleanInv'
  BY DEF BatchInv, CleanInv, TerminalClean, CleanupConfirmed, Ended, NoCloser, ReleasesCase, Goes, fileVars, closeVars
<1>4. CasesInv'
  BY DEF BatchInv, CasesInv, Ready, AtCase, Closing, ReleasesCase, Goes
<1>. QED
  BY <1>1, <1>2, <1>3, <1>4, FilesUntouched, NoticesUntouched, ResultUntouched DEF BatchInv, BatchTypes, ReleasesCase,
     Goes, fileVars, closeVars

LEMMA CaseEndsKeeps ==
  ASSUME BatchInv, CaseEnds
  PROVE  BatchInv'
<1>1. ProcessTypes'
  BY DEF BatchInv, BatchTypes, ProcessTypes, LifeInv, AtCase, Points, Terminal, Outcomes, Cases, CaseEnds, Goes,
     closeVars
<1>2. LifeInv'
  BY DEF BatchInv, LifeInv, Ended, Gone, Closing, After, CaseEnds, Goes, fileVars, closeVars
<1>3. CleanInv'
  BY DEF BatchInv, CleanInv, TerminalClean, CleanupConfirmed, Ended, CaseEnds, Goes, fileVars, closeVars
<1>4. CasesInv'
  <2>1. PICK o \in Outcomes \ {"not-run"} : outcomes' = [outcomes EXCEPT ![case] = o]
    BY DEF CaseEnds
  <2>2. worker = "wait" /\ worker' = "check" /\ UNCHANGED <<case, vouched>>
    BY DEF CaseEnds, Goes
  <2>3. (verdict = "none" /\ verdict' = "none" /\ assess' = assess) \/ verdict' = "failed"
    BY DEF CaseEnds, Goes, BatchInv, LifeInv, AtCase
  <2>4. outcomes'[case] = o /\ \A c \in Cases \ {case} : outcomes'[c] = outcomes[c]
    BY <2>1, <2>2 DEF BatchInv, BatchTypes, ProcessTypes, CasesInv, AtCase, Cases
  <2>5. case \in Cases /\ outcomes[case] = "not-run" /\ Ready(case) /\ case \notin Depends[case]
    BY <2>2, BatchAssumption DEF BatchInv, BatchTypes, ProcessTypes, CasesInv, AtCase, Cases
  <2>6. Ready(case)'
    BY <2>2, <2>4, <2>5, BatchAssumption DEF Ready
  <2>7. Sound(outcomes') /\ Passed(outcomes') \subseteq vouched \cup {case}
    BY <2>4, <2>5, BatchAssumption DEF BatchInv, CasesInv, Sound, Passed, Ready
  <2>. QED
    BY <2>2, <2>3, <2>4, <2>6, <2>7 DEF BatchInv, CasesInv, AtCase, Cases
<1>. QED
  BY <1>1, <1>2, <1>3, <1>4, FilesUntouched, NoticesUntouched, ResultUntouched DEF BatchInv, BatchTypes, CaseEnds,
     Goes, fileVars, closeVars, Terminal

LEMMA CaseStoppedKeeps ==
  ASSUME BatchInv, CaseStopped
  PROVE  BatchInv'
<1>1. ProcessTypes'
  BY DEF BatchInv, BatchTypes, ProcessTypes, CasesInv, AtCase, Points, Terminal, Outcomes, Cases, CaseStopped, Goes,
     Interrupted, closeVars
<1>2. LifeInv'
  BY DEF BatchInv, LifeInv, Ended, Gone, Closing, After, CaseStopped, Goes, fileVars, closeVars
<1>3. CleanInv'
  BY DEF BatchInv, CleanInv, TerminalClean, CleanupConfirmed, Ended, CaseStopped, Goes, fileVars, closeVars
<1>4. CasesInv'
  BY DEF BatchInv, BatchTypes, ProcessTypes, CasesInv, Sound, Passed, Ready, AtCase, Cases, CaseStopped, Goes,
     Interrupted
<1>. QED
  BY <1>1, <1>2, <1>3, <1>4, FilesUntouched, NoticesUntouched, ResultUntouched DEF BatchInv, BatchTypes, CaseStopped,
     Goes, Interrupted, fileVars, closeVars, Terminal

LEMMA CaseStopRefusedKeeps ==
  ASSUME BatchInv, CaseStopRefused
  PROVE  BatchInv'
<1>1. ProcessTypes'
  BY DEF BatchInv, BatchTypes, ProcessTypes, CasesInv, AtCase, Points, Terminal, Outcomes, Cases, CaseStopRefused,
     Goes, worldVars, closeVars
<1>2. LifeInv'
  BY DEF BatchInv, LifeInv, Ended, Gone, After, CaseStopRefused, Goes, fileVars, closeVars
<1>3. CleanInv'
  BY DEF BatchInv, CleanInv, TerminalClean, CleanupConfirmed, Ended, CaseStopRefused, Goes, fileVars, worldVars,
     closeVars
<1>4. CasesInv'
  BY DEF BatchInv, BatchTypes, ProcessTypes, CasesInv, Sound, Passed, Ready, AtCase, Cases, CaseStopRefused, Goes
<1>. QED
  BY <1>1, <1>2, <1>3, <1>4, FilesUntouched, NoticesUntouched, ResultUntouched DEF BatchInv, BatchTypes,
     CaseStopRefused, Goes, fileVars, closeVars, Terminal

LEMMA ChecksInputsKeeps ==
  ASSUME BatchInv, ChecksInputs
  PROVE  BatchInv'
<1>1. worker = "check" /\ case \in Cases /\ Ready(case) /\ case \notin Depends[case]
      /\ UNCHANGED <<status, stage, result, ack, provider, cancel, noticeVars, worldVars, closeVars, countVars>>
  BY BatchAssumption DEF ChecksInputs, Filed, BatchInv, BatchTypes, ProcessTypes, CasesInv, AtCase, Cases
<1>2. CASE inputs
  <2>1. progress' = Gathered /\ vouched' = vouched \cup {case} /\ UNCHANGED <<outcomes, assess>>
    BY <1>2 DEF ChecksInputs, Recorded
  <2>2. IF verdict = "none" THEN worker' = "next" /\ case' = case + 1 /\ UNCHANGED verdict
        ELSE worker' = "closing" /\ UNCHANGED <<verdict, case>>
    BY <1>2 DEF ChecksInputs, Recorded, Ends
  <2>3. Vouched(progress)'
    BY <2>1 DEF BatchInv, CasesInv, Vouched, Gathered
  <2>4. FileTypes'
    BY <1>1, <2>1 DEF BatchInv, BatchTypes, FileTypes, ProcessTypes, Evidence, Gathered
  <2>5. ProcessTypes'
    <3>1. case' \in 1 .. Size + 1 /\ worker' \in Points
      BY <1>1, <2>2, BatchAssumption DEF Points, Closing, Cases
    <3>2. vouched' \subseteq Cases
      BY <1>1, <2>1 DEF BatchInv, BatchTypes, ProcessTypes
    <3>3. UNCHANGED <<inputs, resource, program, guardian, closer, outcomes, assess, verdict>>
      BY <1>1, <2>1, <2>2 DEF worldVars, closeVars
    <3>. QED
      BY <3>1, <3>2, <3>3 DEF BatchInv, BatchTypes, ProcessTypes
  <2>6. LifeInv'
    BY <1>1, <2>2 DEF BatchInv, LifeInv, Ended, Gone, AtCase, Closing, After, closeVars
  <2>7. CleanInv'
    BY <1>1, <2>2 DEF BatchInv, CleanInv, CleanupConfirmed, TerminalClean, Ended, worldVars, closeVars
  <2>8. CasesInv'
    <3>1. Sound(outcomes') /\ Passed(outcomes') \subseteq vouched'
      BY <2>1 DEF BatchInv, CasesInv
    <3>2. outcomes[case] \in {"passed", "failed", "blocked"}
      BY <1>1 DEF BatchInv, BatchTypes, ProcessTypes, CasesInv, Outcomes
    <3>3. CASE verdict = "none"
      <4>1. worker' = "next" /\ case' = case + 1 /\ verdict' = "none" /\ assess'
        BY <1>1, <2>1, <2>2, <3>3 DEF BatchInv, CasesInv, AtCase
      <4>2. \A c \in Cases : (c > case' \/ c = case') => outcomes'[c] = "not-run"
        BY <1>1, <2>1, <4>1 DEF BatchInv, CasesInv, AtCase, Cases
      <4>3. \/ \E c \in Cases : c < case' /\ outcomes'[c] \in {"failed", "blocked"}
            \/ \A c \in Cases : c < case' => outcomes'[c] = "passed"
        BY <1>1, <2>1, <3>2, <4>1 DEF BatchInv, CasesInv, AtCase, Cases
      <4>. QED
        BY <3>1, <4>1, <4>2, <4>3 DEF CasesInv, AtCase
    <3>4. CASE verdict # "none"
      <4>1. worker' = "closing" /\ verdict' = verdict
        BY <2>2, <3>4
      <4>2. verdict # "succeeded"
        BY <1>1 DEF BatchInv, CasesInv
      <4>. QED
        BY <3>1, <4>1, <4>2 DEF CasesInv, AtCase
    <3>. QED
      BY <3>3, <3>4
  <2>9. ResultInv'
    BY <1>1, <2>1, <2>2, <2>3 DEF BatchInv, ResultInv, Vouched, Ended, closeVars
  <2>. QED
    BY <1>1, <2>4, <2>5, <2>6, <2>7, <2>8, <2>9, NoticesUntouched DEF BatchInv, BatchTypes, closeVars
<1>3. CASE ~inputs
  <2>1. outcomes' = [outcomes EXCEPT ![case] = "failed"] /\ ~assess' /\ worker' = "closing" /\ verdict' = "failed"
        /\ UNCHANGED <<progress, vouched, case>>
    BY <1>3 DEF ChecksInputs, Invalid, Ends
  <2>2. outcomes'[case] = "failed" /\ \A c \in Cases \ {case} : outcomes'[c] = outcomes[c]
    BY <1>1, <2>1 DEF BatchInv, BatchTypes, ProcessTypes
  <2>3. ProcessTypes'
    <3>1. outcomes' \in [Cases -> Outcomes] /\ assess' \in BOOLEAN
      BY <1>1, <1>3, <2>1 DEF BatchInv, BatchTypes, ProcessTypes, Outcomes, ChecksInputs, Invalid
    <3>2. UNCHANGED <<inputs, resource, program, guardian, closer, case, vouched>>
      BY <1>1, <2>1 DEF worldVars, closeVars
    <3>. QED
      BY <2>1, <3>1, <3>2 DEF BatchInv, BatchTypes, ProcessTypes, Points, Closing, Terminal
  <2>4. LifeInv'
    BY <1>1, <2>1 DEF BatchInv, LifeInv, Ended, Gone, AtCase, After, closeVars
  <2>5. CleanInv'
    BY <1>1, <2>1 DEF BatchInv, CleanInv, CleanupConfirmed, TerminalClean, Ended, worldVars, closeVars
  <2>6. Sound(outcomes') /\ Passed(outcomes') \subseteq vouched
    BY <1>1, <2>2, BatchAssumption DEF BatchInv, CasesInv, Sound, Passed, AtCase
  <2>7. CasesInv'
    BY <2>1, <2>6 DEF CasesInv, AtCase, Closing
  <2>. QED
    BY <1>1, <2>1, <2>3, <2>4, <2>5, <2>7, NoticesUntouched, ResultUntouched, FilesUntouched DEF BatchInv, BatchTypes,
       closeVars, fileVars, Terminal
<1>. QED
  BY <1>2, <1>3

LEMMA CleansUpKeeps ==
  ASSUME BatchInv, CleansUp
  PROVE  BatchInv'
<1>1. ProcessTypes'
  BY DEF BatchInv, BatchTypes, ProcessTypes, Closing, Points, CleansUp, Stopped, Refused, caseVars, closeVars
<1>2. LifeInv'
  BY DEF BatchInv, LifeInv, Ended, Gone, AtCase, Closing, After, CleansUp, fileVars, closeVars
<1>3. CleanInv'
  BY DEF BatchInv, BatchTypes, ProcessTypes, CleanInv, TerminalClean, CleanupConfirmed, Ended, CleansUp, Stopped,
     Refused, fileVars, closeVars
<1>4. CasesInv'
  BY DEF BatchInv, CasesInv, AtCase, Closing, CleansUp, caseVars
<1>. QED
  BY <1>1, <1>2, <1>3, <1>4, FilesUntouched, NoticesUntouched, ResultUntouched DEF BatchInv, BatchTypes, CleansUp,
     fileVars, closeVars

LEMMA WritesResultKeeps ==
  ASSUME BatchInv, WritesResult
  PROVE  BatchInv'
<1>1. NoticeTypes'
  BY DEF BatchInv, BatchTypes, NoticeTypes, WritesResult, Filed, noticeVars
<1>2. FileTypes'
  BY DEF BatchInv, BatchTypes, FileTypes, ProcessTypes, Evidence, Results, WritesResult, Gathered
<1>3. ProcessTypes'
  BY DEF BatchInv, BatchTypes, ProcessTypes, Closing, Points, WritesResult, Goes, Filed, worldVars, caseVars,
     closeVars
<1>4. LifeInv'
  BY DEF BatchInv, LifeInv, Ended, Gone, AtCase, Closing, After, WritesResult, Goes, Filed, closeVars
<1>5. CleanInv'
  BY DEF BatchInv, CleanInv, TerminalClean, CleanupConfirmed, Ended, WritesResult, Goes, Filed, worldVars, closeVars
<1>6. CasesInv'
  BY DEF BatchInv, CasesInv, AtCase, Closing, WritesResult, Goes, caseVars
<1>7. ResultInv'
  BY BatchAssumption DEF BatchInv, LifeInv, CasesInv, ResultInv, Vouched, Ended, Gone, Closing, After, NoCloser,
     WritesResult, Goes, Gathered, Filed, closeVars
<1>8. NoticeInv'
  BY DEF BatchInv, LifeInv, NoticeInv, Gone, After, WritesResult, Goes, Filed, noticeVars
<1>. QED
  BY <1>1, <1>2, <1>3, <1>4, <1>5, <1>6, <1>7, <1>8 DEF BatchInv, BatchTypes

LEMMA PublishesKeeps ==
  ASSUME BatchInv, Publishes
  PROVE  BatchInv'
<1>1. NoticeTypes'
  BY DEF BatchInv, BatchTypes, NoticeTypes, Publishes, Filed, noticeVars
<1>2. FileTypes'
  <2>1. verdict \in Terminal \/ worker # "publish"
    BY DEF BatchInv, BatchTypes, ProcessTypes, LifeInv, Closing
  <2>. QED
    BY <2>1 DEF BatchInv, BatchTypes, FileTypes, Publishes, Goes
<1>3. ProcessTypes'
  BY DEF BatchInv, BatchTypes, ProcessTypes, After, Points, Publishes, Goes, Filed, worldVars, caseVars, closeVars
<1>4. LifeInv'
  BY DEF BatchInv, LifeInv, Ended, Gone, AtCase, Closing, After, Publishes, Goes, Filed, closeVars
<1>5. CleanInv'
  BY DEF BatchInv, CleanInv, TerminalClean, CleanupConfirmed, Ended, Publishes, Goes, Filed, worldVars, closeVars
<1>6. CasesInv'
  BY DEF BatchInv, CasesInv, AtCase, Closing, Publishes, Goes, caseVars
<1>7. ResultInv'
  BY DEF BatchInv, ResultInv, Vouched, Ended, Publishes, Goes, Filed, closeVars
<1>8. NoticeInv'
  BY DEF BatchInv, LifeInv, NoticeInv, Gone, After, Publishes, Goes, Filed, noticeVars
<1>. QED
  BY <1>1, <1>2, <1>3, <1>4, <1>5, <1>6, <1>7, <1>8 DEF BatchInv, BatchTypes

LEMMA GuardianStopsKeeps ==
  ASSUME BatchInv, GuardianStops
  PROVE  BatchInv'
<1>1. NoticeTypes'
  BY DEF BatchInv, BatchTypes, NoticeTypes, GuardianStops, noticeVars
<1>2. ProcessTypes'
  BY DEF BatchInv, BatchTypes, ProcessTypes, Closers, GuardianStops, Stopped, Refused, caseVars, workVars, closeVars
<1>3. LifeInv'
  BY BatchAssumption DEF BatchInv, LifeInv, Ended, GuardianStops, fileVars, workVars, closeVars
<1>4. CleanInv'
  BY DEF BatchInv, CleanInv, TerminalClean, CleanupConfirmed, Ended, Gone, GuardianStops, Stopped, Refused, fileVars,
     workVars, closeVars
<1>5. ResultInv'
  BY DEF BatchInv, ResultInv, Vouched, Ended, GuardianStops, fileVars, workVars, closeVars
<1>6. NoticeInv'
  BY DEF BatchInv, NoticeInv, Ended, GuardianStops, fileVars, noticeVars, workVars
<1>. QED
  BY <1>1, <1>2, <1>3, <1>4, <1>5, <1>6, FilesUntouched, CasesUntouched DEF BatchInv, BatchTypes, GuardianStops,
     workVars

LEMMA JudgesKeeps ==
  ASSUME BatchInv, Judges
  PROVE  BatchInv'
<1>1. NoticeTypes'
  BY DEF BatchInv, BatchTypes, NoticeTypes, Judges, Closed, noticeVars
<1>2. FileTypes'
  <2>1. stage' \in {TRUE, stage} /\ UNCHANGED <<status, result, progress, ack, provider, cancel>>
    BY DEF Judges, Returned, Closed
  <2>. QED
    BY <2>1 DEF BatchInv, BatchTypes, FileTypes
<1>3. ProcessTypes'
  BY DEF BatchInv, BatchTypes, ProcessTypes, Closers, NoCloser, Judges, Returned, Closed, worldVars, caseVars,
     workVars
<1>4. LifeInv'
  BY DEF BatchInv, BatchTypes, ProcessTypes, LifeInv, Ended, Gone, After, NoCloser, Closers, Judges, Returned, Closed,
     workVars
<1>5. CleanInv'
  BY DEF BatchInv, BatchTypes, ProcessTypes, CleanInv, TerminalClean, CleanupConfirmed, Ended, NoCloser, Judges,
     Returned, Closed, worldVars, workVars
<1>6. ResultInv'
  BY DEF BatchInv, BatchTypes, ProcessTypes, ResultInv, Vouched, Ended, NoCloser, Closers, Judges, Returned, Closed,
     workVars
<1>7. NoticeInv'
  BY DEF BatchInv, NoticeInv, Ended, Judges, Returned, Closed, noticeVars, workVars
<1>. QED
  BY <1>1, <1>2, <1>3, <1>4, <1>5, <1>6, <1>7, CasesUntouched DEF BatchInv, BatchTypes, Judges, Closed, workVars

LEMMA ClosesResultKeeps ==
  ASSUME BatchInv, ClosesResult
  PROVE  BatchInv'
<1>1. NoticeTypes'
  BY DEF BatchInv, BatchTypes, NoticeTypes, ClosesResult, Closed, noticeVars
<1>2. FileTypes'
  BY DEF BatchInv, BatchTypes, FileTypes, Evidence, Results, Terminal, ClosesResult, Recovered, ClosingState
<1>3. ProcessTypes'
  BY DEF BatchInv, BatchTypes, ProcessTypes, LifeInv, Closers, NoCloser, ClosesResult, Closed, worldVars, caseVars,
     workVars
<1>4. LifeInv'
  BY DEF BatchInv, LifeInv, Ended, NoCloser, ClosesResult, Closed, workVars
<1>5. CleanInv'
  BY DEF BatchInv, CleanInv, TerminalClean, NoCloser, ClosesResult, Closed, worldVars, workVars
<1>6. ResultInv'
  BY DEF BatchInv, LifeInv, ResultInv, Vouched, Ended, Gone, NoCloser, ClosesResult, Recovered, ClosingState, Closed,
     workVars
<1>7. NoticeInv'
  BY DEF BatchInv, LifeInv, NoticeInv, Ended, Gone, NoCloser, ClosesResult, Closed, noticeVars
<1>. QED
  BY <1>1, <1>2, <1>3, <1>4, <1>5, <1>6, <1>7, CasesUntouched DEF BatchInv, BatchTypes, ClosesResult, Closed, workVars

LEMMA ClosesStatusKeeps ==
  ASSUME BatchInv, ClosesStatus
  PROVE  BatchInv'
<1>1. result.state \in Terminal /\ closer # NoCloser /\ closer' = NoCloser
  BY DEF BatchInv, BatchTypes, FileTypes, Results, ResultInv, ClosesStatus, Returned, NoCloser
<1>2. ~stage' /\ ~Ended /\ Ended' /\ Gone(worker) /\ guardian \notin {"notifying", "leaving"}
  BY <1>1 DEF BatchInv, BatchTypes, ProcessTypes, LifeInv, ClosesStatus, Ended, Closers, Gone
<1>3. UNCHANGED <<worker, verdict, vouched, case, outcomes, assess, result, progress, ack, provider, cancel,
                  program, resource, inputs, noticeVars>>
  BY DEF ClosesStatus, Closed, workVars, worldVars, caseVars
<1>4. FileTypes'
  BY <1>1, <1>3 DEF BatchInv, BatchTypes, FileTypes, ClosesStatus
<1>5. ProcessTypes'
  BY <1>3 DEF BatchInv, BatchTypes, ProcessTypes, ClosesStatus, Returned
<1>6. LifeInv'
  BY <1>1, <1>2, <1>3 DEF BatchInv, LifeInv, Gone, After
<1>7. CleanInv'
  BY <1>1, <1>3 DEF BatchInv, CleanInv, TerminalClean, ClosesStatus
<1>8. ResultInv'
  BY <1>3 DEF BatchInv, ResultInv, ClosesStatus, Vouched
<1>9. NoticeTypes'
  BY <1>3 DEF BatchInv, BatchTypes, NoticeTypes, noticeVars
<1>10. NoticeInv'
  <2>1. sender["worker"] = "idle" /\ sender["guardian"] = "idle"
    BY <1>2 DEF BatchInv, NoticeInv, Gone
  <2>. QED
    BY <1>2, <1>3, <2>1 DEF BatchInv, NoticeInv, noticeVars
<1>. QED
  BY <1>3, <1>4, <1>5, <1>6, <1>7, <1>8, <1>9, <1>10, CasesUntouched DEF BatchInv, BatchTypes, caseVars

LEMMA ProgramEndsKeeps ==
  ASSUME BatchInv, ProgramEnds
  PROVE  BatchInv'
<1>1. ProcessTypes'
  BY DEF BatchInv, BatchTypes, ProcessTypes, ProgramEnds, caseVars, workVars, closeVars
<1>2. CleanInv'
  BY DEF BatchInv, CleanInv, TerminalClean, CleanupConfirmed, Ended, ProgramEnds, fileVars, workVars, closeVars
<1>. QED
  BY <1>1, <1>2, FilesUntouched, NoticesUntouched, LifeUntouched, CasesUntouched, ResultUntouched DEF BatchInv,
     BatchTypes, ProgramEnds, fileVars, workVars, closeVars

LEMMA RunnerReleasesKeeps ==
  ASSUME BatchInv, RunnerReleases
  PROVE  BatchInv'
<1>1. ProcessTypes'
  BY DEF BatchInv, BatchTypes, ProcessTypes, RunnerReleases, caseVars, workVars, closeVars
<1>2. CleanInv'
  BY DEF BatchInv, CleanInv, TerminalClean, Ended, RunnerReleases, fileVars, workVars, closeVars
<1>. QED
  BY <1>1, <1>2, FilesUntouched, NoticesUntouched, LifeUntouched, CasesUntouched, ResultUntouched DEF BatchInv,
     BatchTypes, RunnerReleases, fileVars, workVars, closeVars

LEMMA RunnerAcknowledgesKeeps ==
  ASSUME BatchInv, RunnerAcknowledges
  PROVE  BatchInv'
<1>1. FileTypes'
  BY DEF BatchInv, BatchTypes, FileTypes, RunnerAcknowledges
<1>2. ProcessTypes'
  BY DEF BatchInv, BatchTypes, ProcessTypes, RunnerAcknowledges, worldVars, caseVars, workVars, closeVars
<1>3. CleanInv'
  BY DEF BatchInv, LifeInv, CleanInv, TerminalClean, Ended, After, RunnerAcknowledges, RunnerActs, worldVars,
     workVars, closeVars
<1>. QED
  BY <1>1, <1>2, <1>3, NoticesUntouched, LifeUntouched, CasesUntouched, ResultUntouched DEF BatchInv, BatchTypes,
     RunnerAcknowledges, workVars, closeVars

LEMMA InputsChangeKeeps ==
  ASSUME BatchInv, InputsChange
  PROVE  BatchInv'
<1>1. ProcessTypes'
  BY DEF BatchInv, BatchTypes, ProcessTypes, InputsChange, caseVars, workVars, closeVars
<1>. QED
  BY <1>1, FilesUntouched, NoticesUntouched, LifeUntouched, CleanUntouched, CasesUntouched, ResultUntouched
     DEF BatchInv, BatchTypes, InputsChange, fileVars, workVars, closeVars

LEMMA CancelsKeeps ==
  ASSUME BatchInv, Cancels
  PROVE  BatchInv'
<1>1. FileTypes'
  BY DEF BatchInv, BatchTypes, FileTypes, Cancels
<1>2. ProcessTypes'
  BY DEF BatchInv, BatchTypes, ProcessTypes, Cancels, worldVars, caseVars, workVars, closeVars
<1>. QED
  BY <1>1, <1>2, NoticesUntouched, LifeUntouched, CleanUntouched, CasesUntouched, ResultUntouched DEF BatchInv,
     BatchTypes, Cancels, worldVars, workVars, closeVars

LEMMA WorkerKilledKeeps ==
  ASSUME BatchInv, WorkerKilled
  PROVE  BatchInv'
<1>1. ProcessTypes'
  <2>1. program' \in {program, "none"} /\ worker' = "killed" /\ closer' \in {closer, NoCloser}
    BY DEF WorkerKilled, Loses
  <2>2. ForgetsCases /\ UNCHANGED <<verdict, vouched, inputs, resource, guardian>>
    BY DEF WorkerKilled
  <2>. QED
    BY <2>1, <2>2, ForgottenCases DEF BatchInv, BatchTypes, ProcessTypes, Points, After
<1>2. LifeInv'
  BY DEF BatchInv, LifeInv, Ended, AtCase, Closing, After, WorkerKilled, Loses, fileVars
<1>3. CleanInv'
  BY DEF BatchInv, CleanInv, TerminalClean, CleanupConfirmed, Ended, NoCloser, WorkerKilled, Loses, fileVars
<1>4. CasesInv'
  BY ForgottenCases DEF WorkerKilled, CasesInv, AtCase, Closing
<1>5. ResultInv'
  BY DEF BatchInv, ResultInv, Vouched, Ended, NoCloser, WorkerKilled, Loses, fileVars
<1>. QED
  BY <1>1, <1>2, <1>3, <1>4, <1>5, FilesUntouched, LosesKeeps DEF BatchInv, BatchTypes, WorkerKilled, Senders

LEMMA GuardianKilledKeeps ==
  ASSUME BatchInv, GuardianKilled
  PROVE  BatchInv'
<1>1. ProcessTypes'
  BY DEF BatchInv, BatchTypes, ProcessTypes, GuardianKilled, Loses, worldVars, caseVars, workVars
<1>2. LifeInv'
  BY DEF BatchInv, LifeInv, Ended, GuardianKilled, Loses, fileVars, workVars
<1>3. CleanInv'
  BY DEF BatchInv, CleanInv, TerminalClean, CleanupConfirmed, Ended, NoCloser, GuardianKilled, Loses, fileVars,
     worldVars, workVars
<1>4. ResultInv'
  BY DEF BatchInv, ResultInv, Vouched, Ended, NoCloser, GuardianKilled, Loses, fileVars, workVars
<1>. QED
  BY <1>1, <1>2, <1>3, <1>4, FilesUntouched, LosesKeeps, CasesUntouched DEF BatchInv, BatchTypes, GuardianKilled,
     workVars, Senders

LEMMA CallerStopsKeeps ==
  ASSUME BatchInv, NEW c \in Callers, CallerStops(c)
  PROVE  BatchInv'
<1>1. ProcessTypes'
  BY DEF BatchInv, BatchTypes, ProcessTypes, Closers, CallerStops, Stopped, Refused, caseVars, workVars
<1>2. LifeInv'
  BY BatchAssumption DEF BatchInv, LifeInv, Ended, CallerStops, fileVars, workVars
<1>3. CleanInv'
  BY DEF BatchInv, CleanInv, TerminalClean, CleanupConfirmed, Ended, Gone, CallerStops, Stopped, Refused, fileVars,
     workVars
<1>. QED
  BY <1>1, <1>2, <1>3, FilesUntouched, NoticesUntouched, CasesUntouched, ResultUntouched DEF BatchInv, BatchTypes,
     CallerStops, fileVars, workVars

LEMMA CallerKilledKeeps ==
  ASSUME BatchInv, NEW c \in Callers, CallerKilled(c)
  PROVE  BatchInv'
<1>1. ProcessTypes'
  BY DEF BatchInv, BatchTypes, ProcessTypes, CallerKilled, Loses, worldVars, caseVars, workVars
<1>2. LifeInv'
  BY DEF BatchInv, LifeInv, Ended, CallerKilled, Loses, fileVars, workVars
<1>3. CleanInv'
  BY DEF BatchInv, CleanInv, TerminalClean, CleanupConfirmed, Ended, NoCloser, CallerKilled, Loses, fileVars,
     worldVars, workVars
<1>4. ResultInv'
  BY DEF BatchInv, ResultInv, Vouched, Ended, NoCloser, CallerKilled, Loses, fileVars, workVars
<1>. QED
  BY <1>1, <1>2, <1>3, <1>4, FilesUntouched, LosesKeeps, CasesUntouched DEF BatchInv, BatchTypes, CallerKilled,
     workVars, Senders

LEMMA ReadsKeeps ==
  ASSUME BatchInv, NEW d \in Senders, NEW again \in BOOLEAN, Reads(d, again)
  PROVE  BatchInv'
<1>1. CASE Due
  <2>1. /\ sender' = [sender EXCEPT ![d] = "waits"] /\ retry' = [retry EXCEPT ![d] = again]
        /\ about' = [about EXCEPT ![d] = IF stage THEN "attention" ELSE "terminal"]
        /\ UNCHANGED <<notice, noticeLock, sent, retries, told, fileVars, worldVars, workVars, closeVars>>
    BY <1>1 DEF Reads
  <2>2. Attempts(d)
    BY DEF Reads
  <2>3. NoticeTypes'
    BY <2>1 DEF BatchInv, BatchTypes, NoticeTypes, Kinds
  <2>4. UNCHANGED <<status, stage, result, worker, guardian>> /\ sender'[d] = "waits" /\ sender[d] = "idle"
        /\ about'[d] = (IF stage THEN "attention" ELSE "terminal")
        /\ \A e \in Senders \ {d} : sender'[e] = sender[e] /\ about'[e] = about[e]
    BY <2>1, <2>2 DEF BatchInv, BatchTypes, NoticeTypes, fileVars, workVars, closeVars, Attempts
  <2>5. (stage => ~Ended) /\ (~stage => Ended)
    BY <1>1 DEF BatchInv, LifeInv, Due
  <2>6. NoticeInv'
    BY <2>1, <2>2, <2>4, <2>5 DEF BatchInv, NoticeInv, Ended, Attempts
  <2>7. ProcessTypes'
    BY <2>1 DEF BatchInv, BatchTypes, ProcessTypes, worldVars, workVars, caseVars, closeVars
  <2>. QED
    BY <2>1, <2>3, <2>6, <2>7, LifeUntouched, CleanUntouched, CasesUntouched, ResultUntouched, FilesUntouched
       DEF BatchInv, BatchTypes, fileVars, worldVars, workVars, closeVars
<1>2. CASE ~Due
  <2>1. /\ Attempted(d) /\ Attempts(d)
        /\ UNCHANGED <<sender, about, retry, notice, noticeLock, sent, retries, told, fileVars, worldVars>>
    BY <1>2 DEF Reads
  <2>2. ProcessTypes' /\ LifeInv' /\ CleanInv' /\ CasesInv' /\ ResultInv'
    BY <2>1, AttemptKeeps DEF Attempts
  <2>3. NoticeTypes'
    BY <2>1 DEF BatchInv, BatchTypes, NoticeTypes
  <2>4. sender[d] = "idle" /\ (d # "worker" => worker' = worker) /\ (d # "guardian" => guardian' = guardian)
    BY <2>1 DEF Attempts, Attempted
  <2>5. NoticeInv'
    BY <2>1, <2>4 DEF BatchInv, NoticeInv, Ended, fileVars
  <2>. QED
    BY <2>1, <2>2, <2>3, <2>5, FilesUntouched DEF BatchInv, BatchTypes
<1>. QED
  BY <1>1, <1>2

LEMMA LocksKeeps ==
  ASSUME BatchInv, NEW d \in Senders, Locks(d)
  PROVE  BatchInv'
<1>1. sender[d] = "waits" /\ noticeLock = "none" /\ UNCHANGED <<sent, fileVars, worldVars>>
  BY DEF Locks
<1>2. CASE StillToSend(d)
  <2>. DEFINE k == about[d]
  <2>1. /\ noticeLock' = d /\ sender' = [sender EXCEPT ![d] = "sends"] /\ notice' = [notice EXCEPT ![k] = "sending"]
        /\ told' = IF k = "terminal" THEN result ELSE told
        /\ UNCHANGED <<workVars, closeVars, about, retry>>
    BY <1>2 DEF Locks
  <2>2. /\ k \in Kinds /\ retries' \in [Kinds -> Nat] /\ sent[k] <= retries'[k]
        /\ \A j \in Kinds : retries[j] <= retries'[j]
    <3>1. k \in Kinds
      BY DEF BatchInv, BatchTypes, NoticeTypes
    <3>2. CASE retry[d] /\ notice[k] # "none"
      <4>1. retries' = [retries EXCEPT ![k] = @ + 1]
        BY <1>2, <3>2 DEF Locks
      <4>. QED
        BY <4>1 DEF BatchInv, BatchTypes, NoticeTypes, NoticeInv
    <3>3. CASE ~(retry[d] /\ notice[k] # "none")
      <4>1. retries' = retries /\ notice[k] = "none"
        BY <1>2, <3>3 DEF Locks, StillToSend, Answered
      <4>. QED
        BY <4>1 DEF BatchInv, BatchTypes, NoticeTypes, NoticeInv
    <3>. QED
      BY <3>2, <3>3
  <2>3. NoticeTypes'
    BY <1>1, <2>1, <2>2 DEF BatchInv, BatchTypes, FileTypes, NoticeTypes
  <2>4. /\ UNCHANGED <<status, stage, result, worker, guardian>> /\ notice'[k] # "none"
        /\ \A j \in Kinds : j # k => notice'[j] = notice[j]
    BY <1>1, <2>1 DEF BatchInv, BatchTypes, NoticeTypes, fileVars, workVars, closeVars
  <2>5. sender'[d] = "sends" /\ \A e \in Senders \ {d} : sender'[e] = sender[e] /\ sender[e] # "sends"
    BY <1>1, <2>1, BatchAssumption DEF BatchInv, BatchTypes, NoticeTypes, NoticeInv, Senders
  <2>6. NoticeInv'
    <3>1. \A j \in Kinds : sent'[j] <= 1 + retries'[j] /\ (notice'[j] = "none" => sent'[j] = 0)
      BY <1>1, <2>2, <2>4 DEF BatchInv, BatchTypes, NoticeTypes, NoticeInv
    <3>2. told'.kind # "none" => Ended' /\ told' = result'
      BY <1>1, <2>1, <2>4 DEF BatchInv, NoticeInv, Ended
    <3>. QED
      BY <1>1, <2>1, <2>2, <2>4, <2>5, <3>1 DEF BatchInv, NoticeInv, Ended
  <2>7. ProcessTypes'
    BY <1>1, <2>1 DEF BatchInv, BatchTypes, ProcessTypes, worldVars, workVars, caseVars, closeVars
  <2>. QED
    BY <1>1, <2>1, <2>3, <2>6, <2>7, LifeUntouched, CleanUntouched, CasesUntouched, ResultUntouched, FilesUntouched
       DEF BatchInv, BatchTypes, fileVars, worldVars, workVars, closeVars
<1>3. CASE ~StillToSend(d)
  <2>1. /\ Attempted(d) /\ Forgets(d) /\ sender' = [sender EXCEPT ![d] = "idle"]
        /\ UNCHANGED <<notice, noticeLock, retries, told>>
    BY <1>3 DEF Locks
  <2>2. (d = "worker" => worker = "notifying") /\ (d = "guardian" => guardian \in {"notifying", "leaving"})
    BY <1>1 DEF BatchInv, NoticeInv
  <2>3. ProcessTypes' /\ LifeInv' /\ CleanInv' /\ CasesInv' /\ ResultInv'
    BY <1>1, <2>1, <2>2, AttemptKeeps
  <2>4. NoticeTypes'
    BY <1>1, <2>1 DEF BatchInv, BatchTypes, NoticeTypes, Forgets, Kinds
  <2>5. NoticeInv'
    BY <1>1, <2>1 DEF BatchInv, BatchTypes, NoticeTypes, NoticeInv, Forgets, Attempted, Ended, fileVars
  <2>. QED
    BY <1>1, <2>3, <2>4, <2>5, FilesUntouched DEF BatchInv, BatchTypes
<1>. QED
  BY <1>2, <1>3

LEMMA SendEndsKeeps ==
  ASSUME BatchInv, NEW d \in Senders, SendEnds(d)
  PROVE  BatchInv'
<1>1. /\ sender[d] = "sends" /\ noticeLock' = "none" /\ sender' = [sender EXCEPT ![d] = "idle"]
      /\ Attempted(d) /\ Forgets(d) /\ UNCHANGED <<retries, told, fileVars, worldVars>>
  BY DEF SendEnds
<1>2. (sent' = sent \/ Accepts(about[d])) /\ \E x \in {"queued", "failed"} : notice' = [notice EXCEPT ![about[d]] = x]
  BY DEF SendEnds
<1>3. (d = "worker" => worker = "notifying") /\ (d = "guardian" => guardian \in {"notifying", "leaving"})
  BY <1>1 DEF BatchInv, NoticeInv
<1>4. ProcessTypes' /\ LifeInv' /\ CleanInv' /\ CasesInv' /\ ResultInv'
  BY <1>1, <1>3, AttemptKeeps
<1>5. NoticeTypes'
  BY <1>1, <1>2 DEF BatchInv, BatchTypes, NoticeTypes, Forgets, Accepts, Kinds
<1>6. NoticeInv'
  <2>1. \A k \in Kinds : sent'[k] <= 1 + retries'[k] /\ (notice'[k] = "none" => sent'[k] = 0)
    BY <1>1, <1>2 DEF BatchInv, BatchTypes, NoticeTypes, NoticeInv, Accepts
  <2>2. \A e \in Senders : sender'[e] # "sends" /\ noticeLock' # e
    BY <1>1, BatchAssumption DEF BatchInv, BatchTypes, NoticeTypes, NoticeInv, Senders
  <2>3. \A e \in Senders \ {d} : sender'[e] = sender[e] /\ about'[e] = about[e]
    BY <1>1 DEF Forgets
  <2>4. sender'[d] = "idle" /\ (d # "worker" => worker' = worker) /\ (d # "guardian" => guardian' = guardian)
    BY <1>1 DEF BatchInv, BatchTypes, NoticeTypes, Attempted
  <2>. QED
    BY <1>1, <2>1, <2>2, <2>3, <2>4 DEF BatchInv, NoticeInv, Ended, fileVars, Senders
<1>. QED
  BY <1>1, <1>4, <1>5, <1>6, FilesUntouched DEF BatchInv, BatchTypes

LEMMA BatchInvInit == Init => BatchInv
<1>. SUFFICES ASSUME Init PROVE BatchInv
  OBVIOUS
<1>1. NoEvidence \in Evidence /\ NoEvidence.cases = [c \in Cases |-> "not-run"] /\ ~NoEvidence.assess
  BY DEF NoEvidence, Evidence, Outcomes
<1>2. NoResult \in Results /\ NoResult.evidence = NoEvidence /\ NoResult.kind = "none" /\ NoResult.state = "none"
  BY <1>1 DEF NoResult, Results
<1>3. Vouched(NoEvidence)
  BY <1>1 DEF Vouched, Sound, Passed
<1>4. FileTypes
  <2>1. provider \in 0 .. Size
    BY BatchAssumption DEF Init
  <2>. QED
    BY <1>1, <1>2, <2>1 DEF Init, FileTypes
<1>5. NoticeTypes
  BY <1>2 DEF Init, NoticeTypes, Kinds
<1>6. ProcessTypes
  <2>1. case \in 1 .. Size + 1 /\ outcomes \in [Cases -> Outcomes]
    BY BatchAssumption DEF Init, Outcomes
  <2>. QED
    BY <2>1 DEF Init, ProcessTypes, Points
<1>7. LifeInv /\ CleanInv
  BY DEF Init, LifeInv, CleanInv, TerminalClean, Ended, Terminal, Closing
<1>8. CasesInv
  BY DEF Init, CasesInv, Sound, Passed, AtCase
<1>9. ResultInv
  BY <1>1, <1>2, <1>3 DEF Init, ResultInv, Ended, Terminal, NoCloser
<1>10. NoticeInv
  BY <1>2, BatchAssumption DEF Init, NoticeInv, Senders
<1>. QED
  BY <1>4, <1>5, <1>6, <1>7, <1>8, <1>9, <1>10 DEF BatchInv, BatchTypes

LEMMA BatchInvStutter ==
  ASSUME BatchInv, UNCHANGED vars
  PROVE  BatchInv'
<1>1. UNCHANGED <<fileVars, noticeVars, worldVars, workVars, closeVars>>
  BY DEF vars
<1>2. ProcessTypes'
  BY <1>1 DEF BatchInv, BatchTypes, ProcessTypes, worldVars, workVars, caseVars, closeVars
<1>. QED
  BY <1>1, <1>2, FilesUntouched, NoticesUntouched, ResultUntouched, CasesUntouched, LifeUntouched, CleanUntouched
     DEF BatchInv, BatchTypes, fileVars, worldVars, workVars, closeVars

-----------------------------------------------------------------------------
(* Theorems *)

\* BatchInv holds all along: files, locks and the points of worker, guardian and
\* callers agree, whoever is killed and whatever a case or a message ends with
\* (Worker.execute, finish, finish_cleanup, deliver).
THEOREM BatchInvariant == Spec => []BatchInv
<1>1. BatchInv /\ [Next]_vars => BatchInv'
  <2>. SUFFICES ASSUME BatchInv, [Next]_vars PROVE BatchInv'
    OBVIOUS
  <2>1. CASE Executes
    BY <2>1, ExecuteBeginsKeeps, SkipsCaseKeeps, TakesCaseKeeps, StopsBetweenCasesKeeps, AllCasesDoneKeeps,
       VerifiesInputsKeeps, UnlinksAckKeeps, SpawnsCaseKeeps, RecordsCaseKeeps, ReleasesCaseKeeps, CaseEndsKeeps,
       CaseStoppedKeeps, CaseStopRefusedKeeps, ChecksInputsKeeps, CleansUpKeeps, WritesResultKeeps, PublishesKeeps
       DEF Executes
  <2>2. CASE GuardianStops \/ Closes
    BY <2>2, GuardianStopsKeeps, JudgesKeeps, ClosesResultKeeps, ClosesStatusKeeps DEF Closes
  <2>3. CASE Delivers
    BY <2>3, ReadsKeeps, LocksKeeps, SendEndsKeeps DEF Delivers
  <2>4. CASE World
    BY <2>4, ProgramEndsKeeps, RunnerReleasesKeeps, RunnerAcknowledgesKeeps, InputsChangeKeeps, CancelsKeeps,
       WorkerKilledKeeps, GuardianKilledKeeps, CallerKilledKeeps, CallerStopsKeeps DEF World
  <2>5. CASE UNCHANGED vars
    BY <2>5, BatchInvStutter
  <2>. QED
    BY <2>1, <2>2, <2>3, <2>4, <2>5 DEF Next, Supervises
<1>. QED
  BY <1>1, BatchInvInit, PTL DEF Spec

\* For every set of cases and callers and any number of kills, a batch ends only
\* when its programs are gone and what it held is released (cleanup_confirmed,
\* _run_case).
THEOREM TerminalIsClean == Spec => []TerminalClean
<1>1. BatchInv => TerminalClean
  BY DEF BatchInv, CleanInv
<1>. QED
  BY <1>1, BatchInvariant, PTL

\* A published result vouches for no more than was looked at, whoever published it
\* (execute, finish, recover_result).
THEOREM EvidenceIsPublished == Spec => []PublishedEvidence
<1>1. BatchInv => PublishedEvidence
  BY DEF BatchInv, ResultInv, Vouched, Sound, Passed, PublishedEvidence, Ended, Terminal
<1>. QED
  BY <1>1, BatchInvariant, PTL

\* Each notice goes out at most once, and once more per explicit retry; the final
\* one is about the result that stays (deliver, finish, finish_cleanup).
THEOREM NoticesAreTrue == Spec => []NoticesTrue
<1>1. BatchInv => NoticesTrue
  BY DEF BatchInv, NoticeInv, NoticesTrue
<1>. QED
  BY <1>1, BatchInvariant, PTL

\* A supervisor never sends that ownership remains held after the batch has ended
\* (deliver).
THEOREM AttentionIsTrue == Spec => AttentionTrue
<1>1. BatchInv /\ [Next]_vars =>
        [\A d \in {"worker", "guardian"} :
           sender[d] = "waits" /\ sender'[d] = "sends" /\ about[d] = "attention" => ~Ended]_vars
  BY DEF BatchInv, NoticeInv
<1>. QED
  BY <1>1, BatchInvariant, PTL DEF Spec, AttentionTrue

=============================================================================
