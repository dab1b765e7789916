----------------------- MODULE ContextDelivery_proofs -----------------------
(***************************************************************************)
(* What every run of ContextDelivery keeps, for every number of hooks,     *)
(* sessions and lock files, every allowance and every mode: the charges of *)
(* a receipt cover what left for the service, and no text goes out with a  *)
(* source that was not scored as it was read.                              *)
(***************************************************************************)
EXTENDS ContextDelivery, FiniteSetTheorems, SequenceTheorems, TLAPS

Items == UNION {[names -> Nat] : names \in SUBSET {Required, Optional}}
Receipts == [exists : BOOLEAN, packet : Items, routing : Nat, refresh : BOOLEAN,
             events : Nat, bytes : Nat, requests : Nat]
Resolving == {"resolving", "scanning", "scoring", "rechecking", "rereading", "assembling"}
Points == Resolving \cup {"rest", "waiting", "locked", "staging", "publishing", "correcting", "rendering", "emitting"}
Processes == [at : Points, kind : {"none", "command", "prompt", "compact", "end", "refresh"},
              session : Sessions \cup {"none"}, state : Receipts, routing : Nat, allowance : {0, 1},
              base : Nat, snap : Nat, relevant : BOOLEAN, made : {0, 1}, items : Items,
              todo : SUBSET {Required, Optional}]

ContextTypes ==
  /\ source \in [{Required, Optional, Profile} -> Nat] /\ mode \in Modes
  /\ receipt \in [Sessions -> Receipts] /\ hook \in [Hooks -> Processes]
  /\ locked \in [Range(Bucket) -> Hooks \cup {NoHook}]
  /\ packets \in Seq(Items) /\ publisher \in Hooks \cup {NoHook}
  /\ calls \in Nat /\ sourceEdits \in Nat
  /\ sent \in [Sessions -> Nat] /\ submitted \in [Sessions -> Nat]

-----------------------------------------------------------------------------
\* From its lock to the write that precedes its text, a hook is alone with the
\* receipt of its session: another hook of that session waits.
InSession(p) == hook[p].kind # "command" /\ hook[p].at \notin {"rest", "waiting", "emitting"}

\* Which points a call of each kind reaches.
PathOf(p) ==
  /\ hook[p].kind = "none" <=> At(p, "rest")
  /\ hook[p].kind = "command" => ~At(p, "waiting") /\ ~At(p, "locked") /\ ~At(p, "correcting")
  /\ hook[p].kind \in {"end", "refresh"} => At(p, "waiting") \/ At(p, "locked")
  /\ hook[p].kind = "compact" => hook[p].at \in {"waiting", "locked", "rendering", "emitting"}
  /\ hook[p].kind \in {"prompt", "compact", "end", "refresh"} => hook[p].session \in Sessions

LockInv == \A p \in Hooks : InSession(p) => locked[Bucket[hook[p].session]] = p

\* What a hook holds of its receipt, and how far it is ahead of it.
Reserved == Resolving \cup {"staging", "publishing", "correcting"}
Charge(p) == IF mode = "off" THEN 0 ELSE hook[p].allowance
Matches(p) ==
  LET state == hook[p].state   file == receipt[hook[p].session] IN
  file.packet = state.packet /\ file.events = state.events /\ file.bytes = state.bytes

AheadOf(p) ==
  InSession(p) =>
    LET state == hook[p].state   file == receipt[hook[p].session] IN
    /\ Matches(p)
    /\ At(p, "locked") => file.requests = state.requests
    /\ hook[p].at \in Reserved =>
         /\ file.requests = state.requests + Charge(p) /\ state.requests + hook[p].allowance <= MaxRequests
         /\ hook[p].made <= Charge(p) /\ sent[hook[p].session] <= state.requests + hook[p].made
    /\ At(p, "rendering") => file.requests = state.requests
    /\ ~At(p, "locked") => state.events < MaxEvents

\* What a packet is made of while it is chosen, published and rendered.
Chooses(p) ==
  /\ hook[p].at \in Resolving \ {"resolving"} => hook[p].base # 0 /\ mode # "off" /\ hook[p].allowance = 1
  /\ hook[p].at \in {"waiting", "locked", "resolving", "scanning", "scoring"} => hook[p].made = 0
  /\ hook[p].at \in {"scoring", "rechecking", "assembling"} => hook[p].snap # 0
  /\ At(p, "assembling") => hook[p].relevant /\ mode = "on"
  /\ At(p, "rendering") => hook[p].todo \subseteq DOMAIN hook[p].items
  /\ At(p, "rendering") /\ hook[p].kind = "compact" => hook[p].items = hook[p].state.packet
  /\ (hook[p].at \in {"staging", "publishing", "correcting", "rendering"} /\ hook[p].kind # "compact"
      /\ {Required, Optional} \subseteq DOMAIN hook[p].items) =>
       mode = "on" /\ hook[p].relevant /\ hook[p].items = Expected(p)

PathInv == \A p \in Hooks : PathOf(p)
ReceiptInv == \A p \in Hooks : AheadOf(p)
ChoiceInv == \A p \in Hooks : Chooses(p)

\* The directory: one process publishes at a time.
DirectoryInv ==
  /\ \A p \in Hooks : At(p, "publishing") <=> publisher = p
  /\ staged = {} \/ \E p \in Hooks : staged = {p}
  /\ Len(packets) <= MaxPackets /\ IsInjective(packets)

ChargedFor(s) ==
  /\ sent[s] <= receipt[s].requests /\ receipt[s].requests <= MaxRequests
  /\ submitted[s] = receipt[s].events /\ receipt[s].events <= MaxEvents /\ receipt[s].bytes <= MaxSubmitted
  /\ submitted[s] > 0 => receipt[s].packet # NoItems
ReceiptsCharged == \A s \in Sessions : ChargedFor(s)

ContextInv ==
  ContextTypes /\ PathInv /\ LockInv /\ ReceiptInv /\ ChoiceInv /\ DirectoryInv /\ ReceiptsCharged

-----------------------------------------------------------------------------
(* Packets and the files of sessions. *)

LEMMA ItemsBuilt ==
  ASSUME source \in [{Required, Optional, Profile} -> Nat]
  PROVE  /\ NoItems \in Items /\ \A v \in Nat : [i \in {Required} |-> v] \in Items
         /\ \A names \in SUBSET {Required, Optional} : Readable(names) \in Items
<1>1. NoItems \in [{} -> Nat] /\ \A v \in Nat : [i \in {Required} |-> v] \in [{Required} -> Nat]
  BY DEF NoItems
<1>2. NoItems \in Items
  BY <1>1 DEF Items
<1>3. ASSUME NEW v \in Nat
      PROVE  [i \in {Required} |-> v] \in Items
  <2>1. {Required} \in SUBSET {Required, Optional}
    OBVIOUS
  <2>. QED
    BY <1>1, <2>1 DEF Items
<1>4. ASSUME NEW names \in SUBSET {Required, Optional}
      PROVE  Readable(names) \in Items
  <2>1. Readable(names) \in [{j \in names : source[j] # 0} -> Nat]
    BY DEF Readable
  <2>2. {j \in names : source[j] # 0} \in SUBSET {Required, Optional}
    OBVIOUS
  <2>. QED
    BY <2>1, <2>2 DEF Items
<1>. QED
  BY <1>2, <1>3, <1>4

LEMMA ItemsHeld ==
  ASSUME NEW x \in Items
  PROVE  /\ DOMAIN x \subseteq {Required, Optional} /\ Cardinality(DOMAIN x) \in Nat
         /\ Required \in DOMAIN x => x # NoItems
<1>1. DOMAIN x \subseteq {Required, Optional}
  BY DEF Items
<1>2. IsFiniteSet({Required} \cup {Optional})
  BY FS_AddElement, FS_Singleton
<1>3. {Required} \cup {Optional} = {Required, Optional}
  OBVIOUS
<1>4. Cardinality(DOMAIN x) \in Nat
  BY <1>1, <1>2, <1>3, FS_Subset, FS_CardinalityType
<1>. QED
  BY <1>1, <1>4 DEF NoItems

LEMMA LeastOfTwo ==
  ASSUME NEW m \in Nat, NEW n \in Nat
  PROVE  Min({m, n}) \in {m, n} /\ Min({m, n}) <= m /\ Min({m, n}) <= n
<1>1. \E x \in {m, n} : \A y \in {m, n} : x <= y
  OBVIOUS
<1>2. Min({m, n}) \in {m, n} /\ \A y \in {m, n} : Min({m, n}) <= y
  BY <1>1 DEF Min
<1>. QED
  BY <1>2

LEMMA BucketsHeld ==
  \A s \in Sessions : Bucket[s] \in Range(Bucket)
BY ContextAssumption DEF Range

-----------------------------------------------------------------------------
(* A step of one process leaves what the others rely on. *)

Alone(p) == hook' \in [Hooks -> Processes] /\ \A q \in Hooks \ {p} : hook'[q] = hook[q]

LEMMA OthersChoose ==
  ASSUME ContextInv, NEW p \in Hooks, Alone(p), UNCHANGED mode, PathOf(p)', Chooses(p)'
  PROVE  PathInv' /\ ChoiceInv'
<1>1. ASSUME NEW q \in Hooks \ {p}
      PROVE  PathOf(q)' /\ Chooses(q)'
  <2>1. PathOf(q) /\ Chooses(q) /\ hook'[q] = hook[q]
    BY DEF ContextInv, PathInv, ChoiceInv, Alone
  <2>2. Expected(q)' = Expected(q)
    BY <2>1 DEF Expected
  <2>. QED
    BY <2>1, <2>2 DEF PathOf, Chooses, At
<1>. QED
  BY <1>1 DEF PathInv, ChoiceInv

LEMMA OthersLocked ==
  ASSUME ContextInv, NEW p \in Hooks, Alone(p),
         \A b \in Range(Bucket) : locked[b] \in {p, NoHook} \/ locked'[b] = locked[b],
         InSession(p)' => locked'[Bucket[hook'[p].session]] = p
  PROVE  LockInv'
<1>1. ASSUME NEW q \in Hooks \ {p}, InSession(q)'
      PROVE  locked'[Bucket[hook'[q].session]] = q
  <2>1. hook'[q] = hook[q] /\ InSession(q) /\ PathOf(q) /\ hook[q] \in Processes
    BY <1>1 DEF ContextInv, ContextTypes, PathInv, InSession, Alone
  <2>2. hook[q].session \in Sessions
    BY <2>1 DEF PathOf, At, InSession, Processes
  <2>. QED
    BY <2>1, <2>2, BucketsHeld, ContextAssumption DEF ContextInv, LockInv
<1>. QED
  BY <1>1 DEF LockInv

\* Only the session a process holds the lock of changes under its hands.
LEMMA OthersAhead ==
  ASSUME ContextInv, NEW p \in Hooks, Alone(p), UNCHANGED mode, AheadOf(p)',
         \A s \in Sessions : (InSession(p) /\ s = hook[p].session)
                             \/ (receipt'[s] = receipt[s] /\ sent'[s] = sent[s])
  PROVE  ReceiptInv'
<1>1. ASSUME NEW q \in Hooks \ {p}, InSession(q)'
      PROVE  AheadOf(q)'
  <2>1. hook'[q] = hook[q] /\ InSession(q) /\ AheadOf(q) /\ PathOf(q) /\ hook[q] \in Processes
    BY <1>1 DEF ContextInv, ContextTypes, PathInv, ReceiptInv, InSession, Alone
  <2>2. hook[q].session \in Sessions
    BY <2>1 DEF PathOf, At, InSession, Processes
  <2>3. ~(InSession(p) /\ hook[q].session = hook[p].session)
    BY <2>1 DEF ContextInv, LockInv
  <2>. QED
    BY <2>1, <2>2, <2>3 DEF AheadOf, Matches, Charge, At, InSession
<1>2. \A q \in Hooks \ {p} : AheadOf(q)'
  BY <1>1 DEF AheadOf
<1>. QED
  BY <1>2 DEF ReceiptInv

LEMMA OthersCharged ==
  ASSUME ContextInv,
         \A s \in Sessions : ChargedFor(s)'
                             \/ (receipt'[s] = receipt[s] /\ sent'[s] = sent[s] /\ submitted'[s] = submitted[s])
  PROVE  ReceiptsCharged'
<1>1. ASSUME NEW s \in Sessions
      PROVE  ChargedFor(s)'
  BY DEF ContextInv, ReceiptsCharged, ChargedFor
<1>. QED
  BY <1>1 DEF ReceiptsCharged

LEMMA DirectoryUntouched ==
  ASSUME ContextInv, NEW p \in Hooks, Alone(p), UNCHANGED <<packets, publisher, staged>>,
         ~At(p, "publishing"), ~At(p, "publishing")'
  PROVE  DirectoryInv'
BY DEF ContextInv, DirectoryInv, Alone, At

LEMMA PointsAre ==
  /\ "rest" \in Points /\ "waiting" \in Points /\ "locked" \in Points /\ "resolving" \in Points
  /\ "scanning" \in Points /\ "scoring" \in Points /\ "rechecking" \in Points /\ "rereading" \in Points
  /\ "assembling" \in Points /\ "staging" \in Points /\ "publishing" \in Points /\ "correcting" \in Points
  /\ "rendering" \in Points /\ "emitting" \in Points
BY DEF Points, Resolving

LEMMA RestIsTyped ==
  AtRest \in Processes /\ NoReceipt \in Receipts
<1>1. NoItems \in Items
  BY DEF NoItems, Items
<1>2. NoReceipt \in Receipts
  BY <1>1 DEF NoReceipt, Receipts
<1>. QED
  BY <1>1, <1>2, PointsAre DEF AtRest, Processes

LEMMA LocksReleased ==
  ASSUME ContextInv, NEW p \in Hooks, Held(p) \/ UNCHANGED locked
  PROVE  /\ locked' \in [Range(Bucket) -> Hooks \cup {NoHook}]
         /\ \A b \in Range(Bucket) : locked[b] \in {p, NoHook} \/ locked'[b] = locked[b]
BY DEF ContextInv, ContextTypes, Held

\* Whoever answers, gives up or is killed rests.
LEMMA Rests ==
  ASSUME ContextInv, NEW p \in Hooks, hook' = [hook EXCEPT ![p] = AtRest], Held(p) \/ UNCHANGED locked, UNCHANGED mode,
         \A s \in Sessions : (InSession(p) /\ s = hook[p].session)
                             \/ (receipt'[s] = receipt[s] /\ sent'[s] = sent[s])
  PROVE  /\ hook' \in [Hooks -> Processes] /\ locked' \in [Range(Bucket) -> Hooks \cup {NoHook}]
         /\ PathInv' /\ LockInv' /\ ReceiptInv' /\ ChoiceInv' /\ Alone(p) /\ At(p, "rest")'
<1>1. hook'[p] = AtRest /\ Alone(p)
  BY RestIsTyped DEF ContextInv, ContextTypes, Alone
<1>2. hook'[p].at = "rest" /\ hook'[p].kind = "none"
  BY <1>1 DEF AtRest
<1>3. PathOf(p)' /\ Chooses(p)' /\ AheadOf(p)' /\ ~InSession(p)'
  BY <1>2 DEF PathOf, Chooses, AheadOf, InSession, At, Resolving
<1>4. PathInv' /\ ChoiceInv'
  BY <1>1, <1>3, OthersChoose
<1>5. LockInv'
  BY <1>1, <1>3, LocksReleased, OthersLocked
<1>6. ReceiptInv'
  BY <1>1, <1>3, OthersAhead
<1>. QED
  BY <1>1, <1>2, <1>4, <1>5, <1>6, LocksReleased DEF Alone, At

\* A process at work on an answer, that keeps its lock and its receipt.
LEMMA WorksOn ==
  ASSUME ContextInv, NEW p \in Hooks, hook'[p] \in Processes, hook' = [hook EXCEPT ![p] = hook'[p]],
         UNCHANGED <<mode, receipt, locked>>,
         hook'[p].kind = hook[p].kind, hook'[p].session = hook[p].session,
         hook[p].at \notin {"rest", "waiting", "emitting"}, hook'[p].at \notin {"rest", "waiting", "emitting"},
         \A s \in Sessions : (InSession(p) /\ s = hook[p].session) \/ sent'[s] = sent[s],
         PathOf(p)', Chooses(p)', AheadOf(p)'
  PROVE  /\ hook' \in [Hooks -> Processes] /\ Alone(p)
         /\ PathInv' /\ LockInv' /\ ReceiptInv' /\ ChoiceInv'
<1>1. Alone(p)
  BY DEF ContextInv, ContextTypes, Alone
<1>2. InSession(p)' => InSession(p)
  BY DEF InSession
<1>3. LockInv'
  BY <1>1, <1>2, OthersLocked DEF ContextInv, LockInv
<1>. QED
  BY <1>1, <1>3, OthersChoose, OthersAhead DEF Alone

-----------------------------------------------------------------------------
(* Every step *)

LEMMA EditSourceKeeps ==
  ASSUME ContextInv, EditSource
  PROVE  ContextInv'
<1>1. ContextTypes'
  <2>1. source' \in [{Required, Optional, Profile} -> Nat]
    <3>1. source[Profile] + 1 \in Nat
      BY DEF ContextInv, ContextTypes
    <3>2. source \in [{Required, Optional, Profile} -> Nat]
      BY DEF ContextInv, ContextTypes
    <3>3. \/ \E i \in {Required, Optional}, v \in {0, 1, 2} : source' = [source EXCEPT ![i] = v]
          \/ source' = [source EXCEPT ![Profile] = source[Profile] + 1]
      BY DEF EditSource
    <3>4. CASE \E i \in {Required, Optional}, v \in {0, 1, 2} : source' = [source EXCEPT ![i] = v]
      BY <3>2, <3>4
    <3>5. CASE source' = [source EXCEPT ![Profile] = source[Profile] + 1]
      BY <3>1, <3>2, <3>5
    <3>. QED
      BY <3>3, <3>4, <3>5
  <2>2. sourceEdits' \in Nat
    BY DEF ContextInv, ContextTypes, EditSource
  <2>. QED
    BY <2>1, <2>2 DEF ContextInv, ContextTypes, EditSource, told
<1>2. \A p \in Hooks : Expected(p)' = Expected(p)
  BY DEF EditSource, Expected
<1>3. PathInv' /\ LockInv' /\ ReceiptInv'
  BY DEF ContextInv, PathInv, PathOf, LockInv, InSession, ReceiptInv, AheadOf, Matches, Charge, At, EditSource, told
<1>4. ChoiceInv'
  BY <1>2 DEF ContextInv, ChoiceInv, Chooses, At, EditSource
<1>5. DirectoryInv' /\ ReceiptsCharged'
  BY DEF ContextInv, DirectoryInv, At, ReceiptsCharged, ChargedFor, EditSource, told
<1>. QED
  BY <1>1, <1>3, <1>4, <1>5 DEF ContextInv

LEMMA CallKeeps ==
  ASSUME ContextInv, NEW p \in Hooks, Call(p)
  PROVE  ContextInv'
<1>1. UNCHANGED <<files, told, receipt, locked>> /\ calls' = calls + 1 /\ At(p, "rest")
  BY DEF Call
<1>2. UNCHANGED <<files, told, receipt, locked>> /\ calls' \in Nat /\ At(p, "rest")
  BY <1>1 DEF ContextInv, ContextTypes
<1>3. ReceiptsCharged'
  BY <1>2, OthersCharged DEF told
<1>4. CASE UNCHANGED hook
  <2>1. ContextTypes'
    BY <1>2, <1>4 DEF ContextInv, ContextTypes, files, told
  <2>2. PathInv' /\ LockInv' /\ ReceiptInv' /\ DirectoryInv'
    BY <1>2, <1>4 DEF ContextInv, PathInv, PathOf, LockInv, InSession, ReceiptInv, AheadOf, Matches, Charge, At,
      DirectoryInv, files, told
  <2>3. ChoiceInv'
    BY <1>2, <1>4 DEF ContextInv, ChoiceInv, Chooses, Expected, At, files
  <2>. QED
    BY <1>3, <2>1, <2>2, <2>3 DEF ContextInv
<1>5. ASSUME NEW r \in Processes, hook' = [hook EXCEPT ![p] = r],
             r.made = 0,
             \/ r.at = "resolving" /\ r.kind = "command"
             \/ r.at = "waiting" /\ r.kind \in {"prompt", "compact", "end", "refresh"} /\ r.session \in Sessions
      PROVE  ContextInv'
  <2>1. hook'[p] = r /\ Alone(p)
    BY <1>5 DEF ContextInv, ContextTypes, Alone
  <2>2. PathOf(p)' /\ Chooses(p)' /\ AheadOf(p)' /\ ~InSession(p)'
    BY <1>5, <2>1 DEF PathOf, Chooses, AheadOf, InSession, At, Resolving
  <2>3. ContextTypes'
    BY <1>2, <2>1 DEF ContextInv, ContextTypes, Alone, files, told
  <2>4. PathInv' /\ ChoiceInv' /\ LockInv' /\ ReceiptInv'
    BY <1>2, <2>1, <2>2, OthersChoose, OthersLocked, OthersAhead DEF files, told
  <2>5. DirectoryInv'
    BY <1>2, <1>5, <2>1, DirectoryUntouched DEF files, At
  <2>. QED
    BY <1>3, <2>3, <2>4, <2>5 DEF ContextInv
<1>6. CASE hook' = [hook EXCEPT ![p] = [AtRest EXCEPT !.at = "resolving", !.kind = "command", !.allowance = 1]]
  <2>1. [AtRest EXCEPT !.at = "resolving", !.kind = "command", !.allowance = 1] \in Processes
    BY RestIsTyped, PointsAre DEF Processes
  <2>. QED
    BY <1>5, <1>6, <2>1 DEF AtRest
<1>7. ASSUME NEW s \in Sessions, NEW kind \in {"prompt", "compact", "end", "refresh"},
             hook' = [hook EXCEPT ![p] = [AtRest EXCEPT !.at = "waiting", !.kind = kind, !.session = s]]
      PROVE  ContextInv'
  <2>1. [AtRest EXCEPT !.at = "waiting", !.kind = kind, !.session = s] \in Processes
    BY RestIsTyped, PointsAre DEF Processes
  <2>. QED
    BY <1>5, <1>7, <2>1 DEF AtRest
<1>. QED
  BY <1>4, <1>6, <1>7 DEF Call

LEMMA TakeLockKeeps ==
  ASSUME ContextInv, NEW p \in Hooks, TakeLock(p)
  PROVE  ContextInv'
<1>1. hook'[p] = [hook[p] EXCEPT !.at = "locked", !.state = receipt[hook[p].session], !.routing = source[Profile]]
  BY DEF ContextInv, ContextTypes, Processes, TakeLock
<1>2. hook[p].session \in Sessions /\ hook[p].kind \notin {"none", "command"} /\ At(p, "waiting") /\ hook[p].made = 0
  BY DEF ContextInv, ContextTypes, Processes, TakeLock, PathInv, PathOf, ChoiceInv, Chooses, At
<1>3. receipt[hook[p].session] \in Receipts /\ source[Profile] \in Nat
  BY <1>2 DEF ContextInv, ContextTypes
<1>4. /\ hook'[p].at = "locked" /\ hook'[p].kind = hook[p].kind /\ hook'[p].session = hook[p].session
      /\ hook'[p].state = receipt[hook[p].session] /\ hook'[p].made = hook[p].made
  BY <1>1, <1>2, <1>3 DEF ContextInv, ContextTypes, Processes
<1>5. hook'[p] \in Processes
  <2>1. hook[p] \in Processes
    BY DEF ContextInv, ContextTypes
  <2>2. "locked" \in Points
    BY DEF Points
  <2>. QED
    BY <1>1, <1>3, <2>1, <2>2 DEF Processes
<1>6. Alone(p)
  BY <1>4, <1>5 DEF ContextInv, ContextTypes, TakeLock, Alone
<1>7. ContextTypes'
  BY <1>2, <1>6, BucketsHeld DEF ContextInv, ContextTypes, TakeLock, Alone, files, told
<1>8. PathOf(p)' /\ Chooses(p)' /\ AheadOf(p)'
  BY <1>2, <1>4 DEF PathOf, Chooses, AheadOf, Matches, At, Resolving, Reserved, TakeLock, files, told
<1>9. InSession(p)' => locked'[Bucket[hook'[p].session]] = p
  BY <1>2, <1>4, BucketsHeld DEF ContextInv, ContextTypes, TakeLock
<1>10. ReceiptsCharged'
  BY DEF ContextInv, ReceiptsCharged, ChargedFor, TakeLock, told
<1>11. LockInv' /\ ReceiptInv' /\ PathInv' /\ ChoiceInv' /\ DirectoryInv'
  BY <1>2, <1>4, <1>6, <1>8, <1>9, OthersChoose, OthersLocked, OthersAhead, DirectoryUntouched
   DEF TakeLock, files, told, At, ContextInv, ContextTypes
<1>. QED
  BY <1>7, <1>10, <1>11 DEF ContextInv

LEMMA LockTimeoutKeeps ==
  ASSUME ContextInv, NEW p \in Hooks, LockTimeout(p)
  PROVE  ContextInv'
<1>1. /\ hook' \in [Hooks -> Processes] /\ PathInv' /\ LockInv' /\ ReceiptInv' /\ ChoiceInv'
      /\ Alone(p) /\ At(p, "rest")'
  BY Rests DEF LockTimeout, files, told
<1>2. ContextTypes' /\ ReceiptsCharged'
  BY <1>1, OthersCharged DEF ContextInv, ContextTypes, LockTimeout, files, told
<1>3. DirectoryInv'
  BY <1>1, DirectoryUntouched DEF LockTimeout, files, At
<1>. QED
  BY <1>1, <1>2, <1>3 DEF ContextInv

LEMMA EndSessionKeeps ==
  ASSUME ContextInv, NEW p \in Hooks, EndSession(p)
  PROVE  ContextInv'
<1>1. At(p, "locked") /\ InSession(p) /\ hook[p].session \in Sessions
  BY DEF EndSession, InSession, At, ContextInv, PathInv, PathOf
<1>2. /\ UNCHANGED <<files, calls>>
      /\ receipt' = [receipt EXCEPT ![hook[p].session] = NoReceipt]
      /\ sent' = [sent EXCEPT ![hook[p].session] = 0] /\ submitted' = [submitted EXCEPT ![hook[p].session] = 0]
  BY DEF EndSession
<1>3. \A s \in Sessions \ {hook[p].session} :
        receipt'[s] = receipt[s] /\ sent'[s] = sent[s] /\ submitted'[s] = submitted[s]
  BY <1>2 DEF ContextInv, ContextTypes
<1>4. /\ hook' \in [Hooks -> Processes] /\ locked' \in [Range(Bucket) -> Hooks \cup {NoHook}]
      /\ PathInv' /\ LockInv' /\ ReceiptInv' /\ ChoiceInv' /\ Alone(p) /\ At(p, "rest")'
  BY <1>1, <1>2, <1>3, Rests DEF EndSession, Answers, files
<1>5. ContextTypes'
  BY <1>2, <1>4, RestIsTyped DEF ContextInv, ContextTypes, files
<1>6. ReceiptsCharged'
  <2>1. LET s == hook[p].session IN receipt'[s] = NoReceipt /\ sent'[s] = 0 /\ submitted'[s] = 0
    BY <1>1, <1>2 DEF ContextInv, ContextTypes
  <2>2. \A s \in Sessions : s = hook[p].session => ChargedFor(s)'
    BY <2>1, ContextAssumption DEF ChargedFor, NoReceipt
  <2>. QED
    BY <1>3, <2>2, OthersCharged
<1>7. DirectoryInv'
  BY <1>1, <1>2, <1>4, DirectoryUntouched DEF files, At
<1>. QED
  BY <1>4, <1>5, <1>6, <1>7 DEF ContextInv

LEMMA RefreshKeeps ==
  ASSUME ContextInv, NEW p \in Hooks, Refresh(p)
  PROVE  ContextInv'
<1>1. At(p, "locked") /\ InSession(p) /\ hook[p].session \in Sessions /\ hook[p].state \in Receipts
  BY DEF Refresh, InSession, At, ContextInv, ContextTypes, Processes, PathInv, PathOf
<1>2. /\ UNCHANGED <<files, told, calls>>
      /\ receipt' = [receipt EXCEPT ![hook[p].session] = [hook[p].state EXCEPT !.refresh = TRUE, !.exists = TRUE]]
  BY <1>1 DEF Refresh, Writes, Receipts
<1>3. [hook[p].state EXCEPT !.refresh = TRUE, !.exists = TRUE] \in Receipts
  BY <1>1 DEF Receipts
<1>4. \A s \in Sessions \ {hook[p].session} : receipt'[s] = receipt[s]
  BY <1>2 DEF ContextInv, ContextTypes
<1>5. /\ hook' \in [Hooks -> Processes] /\ locked' \in [Range(Bucket) -> Hooks \cup {NoHook}]
      /\ PathInv' /\ LockInv' /\ ReceiptInv' /\ ChoiceInv' /\ Alone(p) /\ At(p, "rest")'
  BY <1>1, <1>2, <1>4, Rests DEF Refresh, Answers, files, told
<1>6. ContextTypes'
  BY <1>2, <1>3, <1>5 DEF ContextInv, ContextTypes, files, told
<1>7. ReceiptsCharged'
  <2>1. LET s == hook[p].session IN
          receipt'[s].requests = receipt[s].requests /\ receipt'[s].events = receipt[s].events
          /\ receipt'[s].bytes = receipt[s].bytes /\ receipt'[s].packet = receipt[s].packet
    BY <1>1, <1>2 DEF ContextInv, ContextTypes, Receipts, ReceiptInv, AheadOf, Matches
  <2>2. \A s \in Sessions : s = hook[p].session => ChargedFor(s)'
    BY <1>2, <2>1 DEF ContextInv, ReceiptsCharged, ChargedFor, told
  <2>. QED
    BY <1>2, <1>4, <2>2, OthersCharged DEF told
<1>8. DirectoryInv'
  BY <1>1, <1>2, <1>5, DirectoryUntouched DEF files, At
<1>. QED
  BY <1>5, <1>6, <1>7, <1>8 DEF ContextInv

LEMMA DeclineKeeps ==
  ASSUME ContextInv, NEW p \in Hooks, Decline(p)
  PROVE  ContextInv'
<1>1. UNCHANGED <<files, told, receipt, calls>> /\ Answers(p) /\ ~At(p, "publishing")
  BY DEF Decline, At
<1>2. /\ hook' \in [Hooks -> Processes] /\ locked' \in [Range(Bucket) -> Hooks \cup {NoHook}]
      /\ PathInv' /\ LockInv' /\ ReceiptInv' /\ ChoiceInv' /\ Alone(p) /\ At(p, "rest")'
  BY <1>1, Rests DEF Answers, files, told
<1>3. ContextTypes' /\ ReceiptsCharged'
  BY <1>1, <1>2, OthersCharged DEF ContextInv, ContextTypes, files, told
<1>4. DirectoryInv'
  BY <1>1, <1>2, DirectoryUntouched DEF files, At
<1>. QED
  BY <1>2, <1>3, <1>4 DEF ContextInv

LEMMA IncompleteKeeps ==
  ASSUME ContextInv, NEW p \in Hooks, Incomplete(p)
  PROVE  ContextInv'
<1>1. UNCHANGED <<files, told, receipt, calls>> /\ Answers(p) /\ ~At(p, "publishing")
  BY DEF Incomplete, At
<1>2. /\ hook' \in [Hooks -> Processes] /\ locked' \in [Range(Bucket) -> Hooks \cup {NoHook}]
      /\ PathInv' /\ LockInv' /\ ReceiptInv' /\ ChoiceInv' /\ Alone(p) /\ At(p, "rest")'
  BY <1>1, Rests DEF Answers, files, told
<1>3. ContextTypes' /\ ReceiptsCharged'
  BY <1>1, <1>2, OthersCharged DEF ContextInv, ContextTypes, files, told
<1>4. DirectoryInv'
  BY <1>1, <1>2, DirectoryUntouched DEF files, At
<1>. QED
  BY <1>2, <1>3, <1>4 DEF ContextInv

LEMMA EmitKeeps ==
  ASSUME ContextInv, NEW p \in Hooks, Emit(p)
  PROVE  ContextInv'
<1>1. UNCHANGED <<files, told, receipt, calls>> /\ Answers(p) /\ ~At(p, "publishing")
  BY DEF Emit, At
<1>2. /\ hook' \in [Hooks -> Processes] /\ locked' \in [Range(Bucket) -> Hooks \cup {NoHook}]
      /\ PathInv' /\ LockInv' /\ ReceiptInv' /\ ChoiceInv' /\ Alone(p) /\ At(p, "rest")'
  BY <1>1, Rests DEF Answers, files, told
<1>3. ContextTypes' /\ ReceiptsCharged'
  BY <1>1, <1>2, OthersCharged DEF ContextInv, ContextTypes, files, told
<1>4. DirectoryInv'
  BY <1>1, <1>2, DirectoryUntouched DEF files, At
<1>. QED
  BY <1>2, <1>3, <1>4 DEF ContextInv

LEMMA KillHookKeeps ==
  ASSUME ContextInv, NEW p \in Hooks, KillHook(p)
  PROVE  ContextInv'
<1>1. UNCHANGED <<source, mode, receipt, packets, staged, calls, sourceEdits, told>> /\ Answers(p)
      /\ publisher' = IF publisher = p THEN NoHook ELSE publisher
  BY DEF KillHook
<1>2. /\ hook' \in [Hooks -> Processes] /\ locked' \in [Range(Bucket) -> Hooks \cup {NoHook}]
      /\ PathInv' /\ LockInv' /\ ReceiptInv' /\ ChoiceInv' /\ Alone(p) /\ At(p, "rest")'
  BY <1>1, Rests DEF Answers, told
<1>3. ContextTypes' /\ ReceiptsCharged'
  BY <1>1, <1>2, OthersCharged DEF ContextInv, ContextTypes, told
<1>4. DirectoryInv'
  BY <1>1, <1>2, ContextAssumption DEF ContextInv, DirectoryInv, Alone, At
<1>. QED
  BY <1>2, <1>3, <1>4 DEF ContextInv

\* What a process at work does with its own record, and the rest of a step.
LEMMA WorkKeeps ==
  ASSUME ContextInv, NEW p \in Hooks, hook'[p] \in Processes, hook' = [hook EXCEPT ![p] = hook'[p]],
         UNCHANGED <<source, mode, receipt, locked, packets, publisher, staged, calls, sourceEdits, sent, submitted>>,
         hook'[p].kind = hook[p].kind, hook'[p].session = hook[p].session,
         hook[p].at \notin {"rest", "waiting", "emitting", "publishing"},
         hook'[p].at \notin {"rest", "waiting", "emitting", "publishing"},
         PathOf(p)', Chooses(p)', AheadOf(p)'
  PROVE  ContextInv'
<1>1. /\ hook' \in [Hooks -> Processes] /\ Alone(p)
      /\ PathInv' /\ LockInv' /\ ReceiptInv' /\ ChoiceInv'
  BY WorksOn
<1>2. DirectoryInv'
  BY <1>1, DirectoryUntouched DEF At
<1>3. ContextTypes' /\ ReceiptsCharged'
  BY <1>1, OthersCharged DEF ContextInv, ContextTypes
<1>. QED
  BY <1>1, <1>2, <1>3 DEF ContextInv

LEMMA ReplayKeeps ==
  ASSUME ContextInv, NEW p \in Hooks, Replay(p)
  PROVE  ContextInv'
<1>1. hook[p] \in Processes /\ hook[p].state \in Receipts /\ hook[p].state.packet \in Items
      /\ hook[p].state.events \in Nat
  BY DEF ContextInv, ContextTypes, Processes, Receipts
<1>2. /\ UNCHANGED <<files, told, receipt, locked, calls>>
      /\ hook[p].at = "locked" /\ hook[p].kind = "compact" /\ hook[p].state.events < MaxEvents
      /\ hook' = [hook EXCEPT ![p] = Renders(p, hook[p].state.packet)]
  BY <1>1, ContextAssumption DEF Replay, Declines, At
<1>3. hook'[p] = [hook[p] EXCEPT !.at = "rendering", !.items = hook[p].state.packet,
                                 !.todo = DOMAIN hook[p].state.packet]
  BY <1>2 DEF ContextInv, ContextTypes, Renders
<1>4. hook'[p] \in Processes
  BY <1>1, <1>3, ItemsHeld, PointsAre DEF Processes
<1>5. /\ hook'[p].at = "rendering" /\ hook'[p].kind = hook[p].kind /\ hook'[p].session = hook[p].session
      /\ hook'[p].state = hook[p].state /\ hook'[p].items = hook[p].state.packet
      /\ hook'[p].todo = DOMAIN hook[p].state.packet
  BY <1>1, <1>3 DEF Processes
<1>6. PathOf(p)' /\ Chooses(p)'
  BY <1>2, <1>5 DEF PathOf, Chooses, At, Resolving, ContextInv, PathInv
<1>7. AheadOf(p)'
  BY <1>2, <1>5 DEF AheadOf, Matches, InSession, At, Reserved, Resolving, ContextInv, ReceiptInv
<1>. QED
  BY <1>2, <1>3, <1>4, <1>5, <1>6, <1>7, WorkKeeps DEF files, told

LEMMA ReserveKeeps ==
  ASSUME ContextInv, NEW p \in Hooks, Reserve(p)
  PROVE  ContextInv'
<1> DEFINE s == hook[p].session
           state == hook[p].state
           allowance == Min({1, MaxRequests - state.requests})
           charge == IF mode = "off" THEN 0 ELSE allowance
<1>1. /\ UNCHANGED <<files, told, locked, calls>>
      /\ hook[p].at = "locked" /\ hook[p].kind = "prompt"
      /\ hook' = [hook EXCEPT ![p].at = "resolving", ![p].allowance = allowance]
      /\ receipt' = [receipt EXCEPT ![s] = [[state EXCEPT !.requests = @ + charge] EXCEPT !.exists = TRUE]]
  BY DEF Reserve, Writes, At, ContextInv, ContextTypes
<1>2. hook[p] \in Processes
  BY DEF ContextInv, ContextTypes
<1>3. /\ s \in Sessions /\ state \in Receipts /\ receipt[s] \in Receipts /\ InSession(p)
      /\ receipt[s].requests = state.requests /\ Matches(p) /\ ChargedFor(s) /\ hook[p].made = 0
  <2>1. PathOf(p) /\ AheadOf(p) /\ Chooses(p) /\ InSession(p)
    BY <1>1 DEF ContextInv, PathInv, ReceiptInv, ChoiceInv, InSession
  <2>2. s \in Sessions /\ hook[p].made = 0 /\ receipt[s].requests = state.requests /\ Matches(p)
    BY <1>1, <2>1 DEF PathOf, AheadOf, Chooses, At
  <2>. QED
    BY <1>2, <2>1, <2>2 DEF ContextInv, ContextTypes, Processes, ReceiptsCharged
<1>4. allowance \in {0, 1} /\ state.requests + allowance <= MaxRequests /\ charge \in {0, 1} /\ charge <= allowance
  <2>1. MaxRequests - state.requests \in Nat
    BY <1>3, ContextAssumption DEF ChargedFor, Receipts
  <2>2. allowance \in {0, 1} /\ allowance <= MaxRequests - state.requests
    BY <2>1, LeastOfTwo
  <2>. QED
    BY <1>3, <2>2, ContextAssumption DEF Receipts
<1>5. state.events < MaxEvents
  BY <1>1, <1>3, ContextAssumption DEF Reserve, Declines, Receipts
<1> HIDE DEF allowance, charge
<1>6. /\ receipt'[s] \in Receipts /\ receipt'[s].requests = state.requests + charge
      /\ receipt'[s].events = state.events /\ receipt'[s].bytes = state.bytes /\ receipt'[s].packet = state.packet
      /\ receipt' \in [Sessions -> Receipts] /\ \A t \in Sessions \ {s} : receipt'[t] = receipt[t]
  <2>1. [[state EXCEPT !.requests = @ + charge] EXCEPT !.exists = TRUE] \in Receipts
    <3>1. state.requests + charge \in Nat
      BY <1>3, <1>4 DEF Receipts
    <3>2. [state EXCEPT !.requests = @ + charge] \in Receipts
      BY <1>3, <3>1 DEF Receipts
    <3>. QED
      BY <3>2 DEF Receipts
  <2>2. receipt'[s] = [[state EXCEPT !.requests = @ + charge] EXCEPT !.exists = TRUE]
    BY <1>1, <1>3 DEF ContextInv, ContextTypes
  <2>3. receipt' \in [Sessions -> Receipts] /\ \A t \in Sessions \ {s} : receipt'[t] = receipt[t]
    BY <1>1, <2>1 DEF ContextInv, ContextTypes
  <2>. QED
    BY <1>3, <2>1, <2>2, <2>3 DEF Receipts
<1>7. hook'[p] = [hook[p] EXCEPT !.at = "resolving", !.allowance = allowance]
  BY <1>1 DEF ContextInv, ContextTypes, Processes
<1>8. hook'[p] \in Processes
  BY <1>2, <1>4, <1>7, PointsAre DEF Processes
<1>9. /\ hook'[p].at = "resolving" /\ hook'[p].kind = hook[p].kind /\ hook'[p].session = s
      /\ hook'[p].state = state /\ hook'[p].allowance = allowance /\ hook'[p].made = hook[p].made
  BY <1>2, <1>7 DEF Processes
<1>10. Alone(p) /\ hook' \in [Hooks -> Processes]
  BY <1>1, <1>8 DEF ContextInv, ContextTypes, Alone
<1>11. PathOf(p)' /\ Chooses(p)'
  BY <1>1, <1>3, <1>9 DEF PathOf, Chooses, At, Resolving
<1>12. AheadOf(p)'
  <2>1. Matches(p)'
    BY <1>3, <1>6, <1>9 DEF Matches
  <2>2. Charge(p)' = charge
    BY <1>1, <1>9 DEF Charge, charge, files
  <2>3. sent' = sent /\ sent[s] <= state.requests
    BY <1>1, <1>3 DEF ChargedFor, told
  <2>4. hook'[p].made = 0 /\ charge \in {0, 1} /\ state.requests + 0 = state.requests
    BY <1>3, <1>4, <1>9 DEF Receipts
  <2>. QED
    BY <1>4, <1>5, <1>6, <1>9, <2>1, <2>2, <2>3, <2>4 DEF AheadOf, At
<1>13. ReceiptsCharged'
  <2>. state.requests \in Nat
    BY <1>3 DEF Receipts
  <2>. sent[s] \in Nat
    BY <1>3 DEF ContextInv, ContextTypes
  <2>. allowance \in Nat /\ charge \in Nat
    BY <1>4
  <2>1. receipt'[s].requests <= MaxRequests /\ sent[s] <= receipt'[s].requests
    BY <1>3, <1>4, <1>6, ContextAssumption DEF ChargedFor
  <2>2. \A t \in Sessions : t = s => ChargedFor(t)'
    BY <1>1, <1>3, <1>6, <2>1 DEF ChargedFor, Matches, told
  <2>. QED
    BY <1>1, <1>3, <1>6, <2>2, OthersCharged DEF told
<1>14. PathInv' /\ ChoiceInv' /\ LockInv' /\ ReceiptInv' /\ DirectoryInv'
  <2>1. LockInv'
    BY <1>1, <1>3, <1>9, <1>10, OthersLocked DEF ContextInv, LockInv
  <2>2. ReceiptInv'
    BY <1>1, <1>3, <1>6, <1>10, <1>12, OthersAhead DEF files, told
  <2>3. PathInv' /\ ChoiceInv' /\ DirectoryInv'
    BY <1>1, <1>9, <1>10, <1>11, OthersChoose, DirectoryUntouched DEF files, At
  <2>. QED
    BY <2>1, <2>2, <2>3
<1>15. ContextTypes'
  BY <1>1, <1>6, <1>10 DEF ContextInv, ContextTypes, files, told
<1>. QED
  BY <1>13, <1>14, <1>15 DEF ContextInv

\* The fields a chosen packet changes.
LEMMA ChosenFields ==
  ASSUME NEW p \in Hooks, hook \in [Hooks -> Processes], NEW x \in Items
  PROVE  LET c == Chosen(p, x) IN
         /\ c \in Processes /\ c.at = "staging" /\ c.items = x /\ c.kind = hook[p].kind /\ c.session = hook[p].session
         /\ c.state = hook[p].state /\ c.made = hook[p].made /\ c.allowance = hook[p].allowance
         /\ c.base = hook[p].base /\ c.snap = hook[p].snap /\ c.relevant = hook[p].relevant
<1>1. hook[p] \in Processes
  OBVIOUS
<1>. QED
  BY <1>1, PointsAre DEF Chosen, Processes

\* A packet with the required source alone, or with none, has nothing to answer for.
LEMMA AloneChooses ==
  ASSUME ContextInv, NEW p \in Hooks, hook[p].at \in Resolving, hook'[p].at = "staging",
         Optional \notin DOMAIN hook'[p].items, hook'[p].kind = hook[p].kind,
         hook'[p].session = hook[p].session
  PROVE  PathOf(p)' /\ Chooses(p)'
<1>1. PathOf(p)'
  BY DEF ContextInv, PathInv, PathOf, At, Resolving
<1>. QED
  BY <1>1 DEF Chooses, At, Resolving

LEMMA ResolvingKeeps ==
  ASSUME ContextInv, NEW p \in Hooks, hook[p].at \in Resolving, hook'[p].at \in Resolving \cup {"staging"},
         hook'[p].kind = hook[p].kind, hook'[p].session = hook[p].session, hook'[p].state = hook[p].state,
         hook'[p].allowance = hook[p].allowance, UNCHANGED <<mode, receipt>>,
         \/ hook'[p].made = hook[p].made /\ UNCHANGED sent
         \/ /\ hook[p].made = 0 /\ hook'[p].made = 1 /\ Charge(p) = 1
            /\ InSession(p) => sent'[hook[p].session] = sent[hook[p].session] + 1
  PROVE  AheadOf(p)'
<1>1. ASSUME InSession(p)'
      PROVE  InSession(p) /\ AheadOf(p) /\ hook[p].session \in Sessions /\ hook[p].state.requests \in Nat
  <2>1. InSession(p) /\ hook[p].kind # "none"
    BY <1>1 DEF InSession, Resolving, ContextInv, PathInv, PathOf, At
  <2>2. hook[p].kind \in {"none", "command", "prompt", "compact", "end", "refresh"} /\ hook[p].state \in Receipts
    BY DEF ContextInv, ContextTypes, Processes
  <2>. QED
    BY <2>1, <2>2 DEF InSession, ContextInv, ReceiptInv, PathInv, PathOf, Receipts
<1>2. hook[p].session \in Sessions => sent[hook[p].session] \in Nat
  BY DEF ContextInv, ContextTypes
<1>. QED
  BY <1>1, <1>2 DEF AheadOf, Matches, Charge, At, Reserved, Resolving

\* A step of the choice of a packet in which nothing leaves.
LEMMA ResolvingStep ==
  ASSUME ContextInv, NEW p \in Hooks, UNCHANGED quiet, UNCHANGED sent, hook[p].at \in Resolving,
         NEW r \in Processes, hook' = [hook EXCEPT ![p] = r],
         r.kind = hook[p].kind, r.session = hook[p].session, r.state = hook[p].state,
         r.allowance = hook[p].allowance, r.made = hook[p].made,
         \/ r.at = "staging" /\ Optional \notin DOMAIN r.items
         \/ r.at \in Resolving \cup {"staging"} /\ Chooses(p)'
  PROVE  ContextInv'
<1>1. hook'[p] = r /\ PathOf(p)
  BY DEF ContextInv, ContextTypes, PathInv
<1>2. AheadOf(p)'
  BY <1>1, ResolvingKeeps DEF quiet
<1>3. PathOf(p)'
  BY <1>1 DEF PathOf, At, Resolving
<1>4. Chooses(p)'
  BY <1>1, AloneChooses
<1>. QED
  BY <1>1, <1>2, <1>3, <1>4, WorkKeeps DEF quiet, Resolving

LEMMA ResolveKeeps ==
  ASSUME ContextInv, NEW p \in Hooks, Resolve(p)
  PROVE  ContextInv'
<1>1. UNCHANGED quiet /\ UNCHANGED sent /\ hook[p].at = "resolving" /\ hook[p].at \in Resolving
  BY DEF Resolve, At, Resolving
<1>2. hook \in [Hooks -> Processes] /\ hook[p] \in Processes /\ source \in [{Required, Optional, Profile} -> Nat]
      /\ hook[p].made = 0 /\ PathOf(p)
  BY <1>1 DEF ContextInv, ContextTypes, ChoiceInv, Chooses, PathInv
<1>3. NoItems \in Items /\ Readable({Required}) \in Items /\ Optional \notin DOMAIN NoItems
      /\ Optional \notin DOMAIN Readable({Required}) /\ source[Required] \in Nat
  BY <1>2, ItemsBuilt DEF Readable, NoItems, Required, Optional
<1>4. ASSUME NEW r \in Processes, hook' = [hook EXCEPT ![p] = r],
             r.kind = hook[p].kind, r.session = hook[p].session, r.state = hook[p].state,
             r.allowance = hook[p].allowance, r.made = hook[p].made,
             \/ r.at = "staging" /\ Optional \notin DOMAIN r.items
             \/ r.at = "scanning" /\ r.base # 0 /\ mode # "off" /\ r.allowance = 1
      PROVE  ContextInv'
  <2>1. hook'[p] = r
    BY <1>2, <1>4
  <2>2. r.at = "scanning" => Chooses(p)'
    BY <1>1, <1>2, <1>4, <2>1 DEF Chooses, At, Resolving, quiet
  <2>. QED
    BY <1>1, <1>4, <2>2, ResolvingStep DEF Resolving
<1>5. CASE hook' = [hook EXCEPT ![p] = Chosen(p, NoItems)]
  <2> DEFINE r == Chosen(p, NoItems)
  <2>1. /\ r \in Processes /\ r.at = "staging" /\ r.items = NoItems /\ r.kind = hook[p].kind
        /\ r.session = hook[p].session /\ r.state = hook[p].state /\ r.made = hook[p].made
        /\ r.allowance = hook[p].allowance
    BY <1>2, <1>3, ChosenFields
  <2>2. hook' = [hook EXCEPT ![p] = r]
    BY <1>5
  <2> HIDE DEF r
  <2>3. Optional \notin DOMAIN r.items
    BY <1>3, <2>1
  <2>. QED
    BY <1>4, <2>1, <2>2, <2>3
<1>6. CASE /\ source[Required] # 0
           /\ hook' = [hook EXCEPT ![p] = [hook[p] EXCEPT !.base = source[Required], !.at = "staging",
                                                          !.items = Readable({Required})]]
  <2> DEFINE r == [hook[p] EXCEPT !.base = source[Required], !.at = "staging", !.items = Readable({Required})]
  <2>1. r \in Processes
    BY <1>2, <1>3, PointsAre DEF Processes
  <2>2. /\ r.kind = hook[p].kind /\ r.session = hook[p].session /\ r.state = hook[p].state
        /\ r.allowance = hook[p].allowance /\ r.made = hook[p].made /\ r.at = "staging"
              /\ r.items = Readable({Required})
    BY <1>2 DEF Processes
  <2>3. hook' = [hook EXCEPT ![p] = r]
    BY <1>6
  <2> HIDE DEF r
  <2>. QED
    BY <1>3, <1>4, <2>1, <2>2, <2>3
<1>7. CASE /\ source[Required] # 0 /\ mode # "off" /\ hook[p].allowance >= 1
           /\ hook' = [hook EXCEPT ![p] = [hook[p] EXCEPT !.base = source[Required], !.at = "scanning"]]
  <2> DEFINE r == [hook[p] EXCEPT !.base = source[Required], !.at = "scanning"]
  <2>1. r \in Processes
    BY <1>2, <1>3, PointsAre DEF Processes
  <2>2. /\ r.kind = hook[p].kind /\ r.session = hook[p].session /\ r.state = hook[p].state
        /\ r.allowance = hook[p].allowance /\ r.made = hook[p].made /\ r.at = "scanning" /\ r.base = source[Required]
    BY <1>2 DEF Processes
  <2>3. hook' = [hook EXCEPT ![p] = r]
    BY <1>7
  <2>4. hook[p].allowance = 1
    BY <1>2, <1>7 DEF Processes
  <2> HIDE DEF r
  <2>. QED
    BY <1>4, <1>7, <2>1, <2>2, <2>3, <2>4
<1>. QED
  BY <1>5, <1>6, <1>7 DEF Resolve


LEMMA BaselineItems ==
  ASSUME ContextInv, NEW p \in Hooks
  PROVE  /\ [i \in {Required} |-> hook[p].base] \in Items
         /\ Optional \notin DOMAIN [i \in {Required} |-> hook[p].base]
<1>1. hook[p].base \in Nat /\ source \in [{Required, Optional, Profile} -> Nat]
  BY DEF ContextInv, ContextTypes, Processes
<1>. QED
  BY <1>1, ItemsBuilt DEF Required, Optional

LEMMA BaselineIs ==
  ASSUME ContextInv, NEW p \in Hooks
  PROVE  /\ Baseline(p) \in Processes /\ Baseline(p).at = "staging" /\ Optional \notin DOMAIN Baseline(p).items
         /\ Baseline(p).kind = hook[p].kind /\ Baseline(p).session = hook[p].session
         /\ Baseline(p).state = hook[p].state /\ Baseline(p).made = hook[p].made
         /\ Baseline(p).allowance = hook[p].allowance
<1> DEFINE items == [i \in {Required} |-> hook[p].base]
<1>1. items \in Items /\ Optional \notin DOMAIN items /\ hook \in [Hooks -> Processes]
  BY BaselineItems DEF ContextInv, ContextTypes
<1>2. Baseline(p) = Chosen(p, items)
  BY DEF Baseline
<1> HIDE DEF items
<1>. QED
  BY <1>1, <1>2, ChosenFields

\* What a hook that falls back to the required source leaves behind.
LEMMA BaselineKeeps ==
  ASSUME ContextInv, NEW p \in Hooks, UNCHANGED quiet, UNCHANGED sent, hook[p].at \in Resolving,
         hook' = [hook EXCEPT ![p] = Baseline(p)]
  PROVE  ContextInv'
<1> DEFINE r == Baseline(p)
<1>1. /\ r \in Processes /\ r.at = "staging" /\ Optional \notin DOMAIN r.items
      /\ r.kind = hook[p].kind /\ r.session = hook[p].session
      /\ r.state = hook[p].state /\ r.made = hook[p].made /\ r.allowance = hook[p].allowance
  BY BaselineIs
<1>2. hook' = [hook EXCEPT ![p] = r]
  OBVIOUS
<1> HIDE DEF r
<1>. QED
  BY <1>1, <1>2, ResolvingStep

LEMMA ScanKeeps ==
  ASSUME ContextInv, NEW p \in Hooks, Scan(p)
  PROVE  ContextInv'
<1>1. UNCHANGED quiet /\ UNCHANGED sent /\ hook[p].at = "scanning" /\ hook[p].at \in Resolving
  BY DEF Scan, At, Resolving
<1>2. hook \in [Hooks -> Processes] /\ hook[p] \in Processes /\ Chooses(p) /\ source[Optional] \in Nat
  BY DEF ContextInv, ContextTypes, ChoiceInv
<1>3. CASE hook' = [hook EXCEPT ![p] = Baseline(p)]
  BY <1>1, <1>3, BaselineKeeps
<1>4. CASE source[Optional] # 0 /\ hook' = [hook EXCEPT ![p].at = "scoring", ![p].snap = source[Optional]]
  <2> DEFINE r == [hook[p] EXCEPT !.at = "scoring", !.snap = source[Optional]]
  <2>1. r \in Processes
    BY <1>2, PointsAre DEF Processes
  <2>2. hook' = [hook EXCEPT ![p] = r]
    BY <1>2, <1>4 DEF Processes
  <2>3. /\ r.kind = hook[p].kind /\ r.session = hook[p].session /\ r.state = hook[p].state /\ r.base = hook[p].base
        /\ r.allowance = hook[p].allowance /\ r.made = hook[p].made /\ r.at = "scoring" /\ r.snap = source[Optional]
    BY <1>2 DEF Processes
  <2> HIDE DEF r
  <2>4. Chooses(p)'
    BY <1>1, <1>2, <1>4, <2>2, <2>3 DEF Chooses, At, Resolving, quiet
  <2>. QED
    BY <1>1, <2>1, <2>2, <2>3, <2>4, ResolvingStep DEF Resolving
<1>. QED
  BY <1>3, <1>4 DEF Scan

LEMMA RecheckKeeps ==
  ASSUME ContextInv, NEW p \in Hooks, Recheck(p)
  PROVE  ContextInv'
<1>1. UNCHANGED quiet /\ UNCHANGED sent /\ hook[p].at = "rechecking" /\ hook[p].at \in Resolving
  BY DEF Recheck, At, Resolving
<1>2. hook \in [Hooks -> Processes] /\ hook[p] \in Processes /\ Chooses(p) /\ mode \in {"off", "shadow", "on"}
  BY ContextAssumption DEF ContextInv, ContextTypes, ChoiceInv
<1>3. ASSUME NEW where \in {"rereading", "assembling"}, GoesTo(p, where),
             where = "assembling" => ~(mode = "shadow" \/ ~hook[p].relevant)
      PROVE  ContextInv'
  <2> DEFINE r == [hook[p] EXCEPT !.at = where]
  <2>1. r \in Processes
    BY <1>2, PointsAre DEF Processes
  <2>2. hook' = [hook EXCEPT ![p] = r]
    BY <1>2, <1>3 DEF Processes, GoesTo
  <2>3. /\ r.kind = hook[p].kind /\ r.session = hook[p].session /\ r.state = hook[p].state /\ r.base = hook[p].base
        /\ r.allowance = hook[p].allowance /\ r.made = hook[p].made /\ r.at = where /\ r.snap = hook[p].snap
        /\ r.relevant = hook[p].relevant
    BY <1>2 DEF Processes
  <2> HIDE DEF r
  <2>4. Chooses(p)'
    BY <1>1, <1>2, <1>3, <2>2, <2>3 DEF Chooses, At, Resolving, quiet
  <2>. QED
    BY <1>1, <1>3, <2>1, <2>2, <2>3, <2>4, ResolvingStep DEF Resolving
<1>4. CASE hook' = [hook EXCEPT ![p] = Baseline(p)]
  BY <1>1, <1>4, BaselineKeeps
<1>. QED
  BY <1>3, <1>4 DEF Recheck

\* Two packets with the same two sources at the same versions are one.
LEMMA SamePacket ==
  ASSUME NEW p \in Hooks, {Required, Optional} \subseteq DOMAIN Readable({Required, Optional}),
         \A i \in DOMAIN Readable({Required, Optional}) : Readable({Required, Optional})[i] = Expected(p)[i]
  PROVE  Readable({Required, Optional}) = Expected(p)
<1>1. DOMAIN Readable({Required, Optional}) = {Required, Optional}
  BY DEF Readable
<1>2. Readable({Required, Optional}) = [i \in {Required, Optional} |-> source[i]]
  BY <1>1 DEF Readable
<1>3. \A i \in {Required, Optional} : source[i] = Expected(p)[i]
  BY <1>1, <1>2
<1>. QED
  BY <1>2, <1>3 DEF Expected

LEMMA AssembleKeeps ==
  ASSUME ContextInv, NEW p \in Hooks, Assemble(p)
  PROVE  ContextInv'
<1> DEFINE items == Readable({Required, Optional})
<1>1. UNCHANGED quiet /\ UNCHANGED sent /\ hook[p].at = "assembling" /\ hook[p].at \in Resolving
  BY DEF Assemble, At, Resolving
<1>2. /\ hook \in [Hooks -> Processes] /\ hook[p] \in Processes /\ Chooses(p)
      /\ source \in [{Required, Optional, Profile} -> Nat]
  BY DEF ContextInv, ContextTypes, ChoiceInv
<1>3. items \in Items
  BY <1>2, ItemsBuilt
<1>4. CASE GoesTo(p, "rereading")
  <2> DEFINE r == [hook[p] EXCEPT !.at = "rereading"]
  <2>1. r \in Processes
    BY <1>2, PointsAre DEF Processes
  <2>2. hook' = [hook EXCEPT ![p] = r]
    BY <1>2, <1>4 DEF Processes, GoesTo
  <2>3. /\ r.kind = hook[p].kind /\ r.session = hook[p].session /\ r.state = hook[p].state /\ r.base = hook[p].base
        /\ r.allowance = hook[p].allowance /\ r.made = hook[p].made /\ r.at = "rereading"
    BY <1>2 DEF Processes
  <2> HIDE DEF r
  <2>4. Chooses(p)'
    BY <1>1, <1>2, <2>2, <2>3 DEF Chooses, At, Resolving, quiet
  <2>. QED
    BY <1>1, <2>1, <2>2, <2>3, <2>4, ResolvingStep DEF Resolving
<1>5. CASE /\ \A i \in DOMAIN items : items[i] = Expected(p)[i]
           /\ hook' = [hook EXCEPT ![p] = Chosen(p, items)]
  <2> DEFINE r == Chosen(p, items)
  <2>1. /\ r \in Processes /\ hook' = [hook EXCEPT ![p] = r] /\ hook'[p] = r
        /\ r.kind = hook[p].kind /\ r.session = hook[p].session /\ r.state = hook[p].state /\ r.base = hook[p].base
        /\ r.allowance = hook[p].allowance /\ r.made = hook[p].made /\ r.at = "staging" /\ r.snap = hook[p].snap
        /\ r.relevant = hook[p].relevant /\ r.items = items
    BY <1>2, <1>3, <1>5, ChosenFields
  <2> HIDE DEF r
  <2>2. Expected(p)' = Expected(p)
    BY <2>1 DEF Expected
  <2>3. {Required, Optional} \subseteq DOMAIN items => items = Expected(p)
    BY <1>5, SamePacket
  <2> HIDE DEF items
  <2>4. Chooses(p)'
    BY <1>1, <1>2, <2>1, <2>2, <2>3 DEF Chooses, At, Resolving, quiet
  <2>. QED
    BY <1>1, <2>1, <2>4, ResolvingStep DEF Resolving
<1>. QED
  BY <1>4, <1>5 DEF Assemble

LEMMA RereadKeeps ==
  ASSUME ContextInv, NEW p \in Hooks, Reread(p)
  PROVE  ContextInv'
<1>1. UNCHANGED quiet /\ UNCHANGED sent /\ hook[p].at \in Resolving
      /\ hook' = [hook EXCEPT ![p] = Chosen(p, Readable({Required}))]
  BY DEF Reread, At, Resolving
<1>2. hook \in [Hooks -> Processes] /\ source \in [{Required, Optional, Profile} -> Nat]
  BY DEF ContextInv, ContextTypes
<1>3. Readable({Required}) \in Items /\ Optional \notin DOMAIN Readable({Required})
  BY <1>2, ItemsBuilt DEF Readable, Required, Optional
<1> DEFINE r == Chosen(p, Readable({Required}))
<1>4. /\ r \in Processes /\ r.at = "staging" /\ Optional \notin DOMAIN r.items /\ r.kind = hook[p].kind
      /\ r.session = hook[p].session /\ r.state = hook[p].state /\ r.made = hook[p].made
      /\ r.allowance = hook[p].allowance
  BY <1>2, <1>3, ChosenFields
<1>5. hook' = [hook EXCEPT ![p] = r]
  BY <1>1
<1> HIDE DEF r
<1>. QED
  BY <1>1, <1>4, <1>5, ResolvingStep

LEMMA ScoreKeeps ==
  ASSUME ContextInv, NEW p \in Hooks, Score(p)
  PROVE  ContextInv'
<1>1. /\ UNCHANGED quiet /\ hook[p].at = "scoring" /\ hook[p].at \in Resolving
      /\ sent' = IF hook[p].kind = "command" THEN sent ELSE [sent EXCEPT ![hook[p].session] = @ + 1]
  BY DEF Score, At, Resolving
<1>2. /\ hook \in [Hooks -> Processes] /\ hook[p] \in Processes /\ Chooses(p) /\ PathOf(p) /\ AheadOf(p)
      /\ hook[p].made = 0 /\ Charge(p) = 1 /\ sent \in [Sessions -> Nat]
  BY <1>1 DEF ContextInv, ContextTypes, ChoiceInv, PathInv, ReceiptInv, Chooses, Charge, Resolving
<1>3. ASSUME NEW r \in Processes, hook' = [hook EXCEPT ![p] = r],
             r.kind = hook[p].kind, r.session = hook[p].session, r.state = hook[p].state,
             r.allowance = hook[p].allowance, r.made = 1,
             \/ r.at = "staging" /\ Optional \notin DOMAIN r.items
             \/ r.at = "rechecking" /\ r.base = hook[p].base /\ r.snap = hook[p].snap
      PROVE  ContextInv'
  <2>1. hook'[p] = r
    BY <1>2, <1>3
  <2>2. hook[p].kind = "prompt" \/ hook[p].kind = "command"
    BY <1>1, <1>2 DEF PathOf, At, Processes
  <2>3. InSession(p) => hook[p].kind = "prompt" /\ hook[p].session \in Sessions
    BY <1>2, <2>2 DEF InSession, PathOf
  <2>4. InSession(p) => sent'[hook[p].session] = sent[hook[p].session] + 1
    BY <1>1, <1>2, <2>3
  <2>5. \A s \in Sessions : (InSession(p) /\ s = hook[p].session) \/ sent'[s] = sent[s]
    BY <1>1, <1>2 DEF InSession
  <2>6. AheadOf(p)'
    BY <1>1, <1>2, <1>3, <2>1, <2>4, ResolvingKeeps DEF quiet, Resolving
  <2>7. Chooses(p)' /\ PathOf(p)'
    <3>1. CASE r.at = "staging"
      BY <1>1, <1>3, <2>1, <3>1, AloneChooses
    <3>2. CASE r.at = "rechecking"
      BY <1>1, <1>2, <1>3, <2>1, <3>2 DEF PathOf, Chooses, At, Resolving, quiet
    <3>. QED
      BY <1>3, <3>1, <3>2
  <2>8. /\ hook' \in [Hooks -> Processes] /\ Alone(p)
        /\ PathInv' /\ LockInv' /\ ReceiptInv' /\ ChoiceInv'
    BY <1>1, <1>3, <2>1, <2>5, <2>6, <2>7, WorksOn DEF quiet
  <2>9. ReceiptsCharged'
    <3>1. ASSUME NEW s \in Sessions, InSession(p), s = hook[p].session
          PROVE  ChargedFor(s)'
      <4>1. /\ sent[s] <= hook[p].state.requests /\ receipt[s].requests = hook[p].state.requests + 1
            /\ sent[s] \in Nat /\ hook[p].state.requests \in Nat
        BY <1>1, <1>2, <3>1 DEF AheadOf, Reserved, Processes, Receipts
      <4>2. sent'[s] <= receipt[s].requests
        BY <2>4, <3>1, <4>1
      <4>. QED
        BY <1>1, <4>2 DEF ContextInv, ReceiptsCharged, ChargedFor, quiet
    <3>. QED
      BY <1>1, <2>5, <3>1, OthersCharged DEF quiet
  <2>10. sent' \in [Sessions -> Nat]
    <3>1. hook[p].kind # "command" => hook[p].session \in Sessions
      BY <1>2, <2>2 DEF PathOf
    <3>. QED
      BY <1>1, <1>2, <3>1
  <2>11. ContextTypes'
    BY <1>1, <2>8, <2>10 DEF ContextInv, ContextTypes, quiet
  <2>12. DirectoryInv'
    BY <1>1, <1>3, <2>1, <2>8, DirectoryUntouched DEF quiet, At
  <2>. QED
    BY <2>8, <2>9, <2>11, <2>12 DEF ContextInv
<1>4. CASE hook' = [hook EXCEPT ![p] = [Baseline(p) EXCEPT !.made = 1]]
  <2> DEFINE r == [Baseline(p) EXCEPT !.made = 1]
  <2>1. /\ Baseline(p) \in Processes /\ Baseline(p).at = "staging" /\ Baseline(p).kind = hook[p].kind
        /\ Baseline(p).session = hook[p].session /\ Baseline(p).state = hook[p].state
        /\ Baseline(p).allowance = hook[p].allowance /\ Optional \notin DOMAIN Baseline(p).items
    BY BaselineIs
  <2>2. /\ r \in Processes /\ r.kind = hook[p].kind /\ r.session = hook[p].session /\ r.state = hook[p].state
        /\ r.allowance = hook[p].allowance /\ r.made = 1 /\ r.at = "staging" /\ r.items = Baseline(p).items
    BY <2>1 DEF Processes
  <2>3. hook' = [hook EXCEPT ![p] = r]
    BY <1>4
  <2> HIDE DEF r
  <2>. QED
    BY <1>3, <2>1, <2>2, <2>3
<1>5. ASSUME NEW relevant \in BOOLEAN,
             hook' = [hook EXCEPT ![p].at = "rechecking", ![p].made = 1, ![p].relevant = relevant]
      PROVE  ContextInv'
  <2> DEFINE r == [hook[p] EXCEPT !.at = "rechecking", !.made = 1, !.relevant = relevant]
  <2>1. r \in Processes
    BY <1>2, PointsAre DEF Processes
  <2>2. hook' = [hook EXCEPT ![p] = r]
    BY <1>2, <1>5 DEF Processes
  <2>3. /\ r.kind = hook[p].kind /\ r.session = hook[p].session /\ r.state = hook[p].state /\ r.base = hook[p].base
        /\ r.allowance = hook[p].allowance /\ r.made = 1 /\ r.at = "rechecking" /\ r.snap = hook[p].snap
    BY <1>2 DEF Processes
  <2> HIDE DEF r
  <2>. QED
    BY <1>3, <2>1, <2>2, <2>3
<1>. QED
  BY <1>4, <1>5 DEF Score

-----------------------------------------------------------------------------
(* The directory: the published packets, newest first. *)

LEMMA PrunedIsBounded ==
  ASSUME NEW x \in Items, NEW q \in Seq(Items), IsInjective(q), \A i \in 1 .. Len(q) : q[i] # x
  PROVE  Pruned(x, q) \in Seq(Items) /\ Len(Pruned(x, q)) <= MaxPackets /\ IsInjective(Pruned(x, q))
<1> DEFINE all == <<x>> \o q
           m == Min({MaxPackets, Len(q) + 1})
<1>1. /\ all \in Seq(Items) /\ Len(all) = Len(q) + 1
      /\ \A i \in 1 .. Len(q) + 1 : all[i] = IF i = 1 THEN x ELSE q[i - 1]
  <2>1. <<x>> \in Seq(Items) /\ Len(<<x>>) = 1 /\ <<x>>[1] = x /\ Len(q) \in Nat
    OBVIOUS
  <2>. QED
    BY <2>1, ConcatProperties
<1>2. m \in Nat /\ m <= MaxPackets /\ m <= Len(q) + 1 /\ m >= 1
  BY LeastOfTwo, ContextAssumption
<1>3. /\ SubSeq(all, 1, m) \in Seq(Items) /\ Len(SubSeq(all, 1, m)) = m
      /\ \A i \in 1 .. m : SubSeq(all, 1, m)[i] = all[i]
  <2>1. \A i \in 1 .. m : all[i] \in Items
    BY <1>1, <1>2
  <2> HIDE DEF all, m
  <2>. QED
    BY <1>2, <2>1, SubSeqProperties
<1>4. \A i, j \in 1 .. Len(q) + 1 : all[i] = all[j] => i = j
  <2> HIDE DEF all
  <2>. QED
    BY <1>1 DEF IsInjective
<1> HIDE DEF all, m
<1>5. IsInjective(SubSeq(all, 1, m))
  BY <1>2, <1>3, <1>4 DEF IsInjective
<1>. QED
  BY <1>2, <1>3, <1>5 DEF Pruned, all, m

LEMMA RemovedIsGone ==
  ASSUME NEW q \in Seq(Items), IsInjective(q), NEW k \in 1 .. Len(q)
  PROVE  /\ RemoveAt(q, k) \in Seq(Items) /\ IsInjective(RemoveAt(q, k))
         /\ \A i \in 1 .. Len(RemoveAt(q, k)) : RemoveAt(q, k)[i] # q[k]
<1> DEFINE before == SubSeq(q, 1, k - 1)
           after == SubSeq(q, k + 1, Len(q))
<1>1. Len(q) \in Nat /\ k \in Int /\ k >= 1 /\ k <= Len(q) /\ \A i \in 1 .. Len(q) : q[i] \in Items
  OBVIOUS
<1>2. before \in Seq(Items) /\ Len(before) = k - 1 /\ \A i \in 1 .. k - 1 : before[i] = q[i]
  BY <1>1, SubSeqProperties
<1>3. after \in Seq(Items) /\ Len(after) = Len(q) - k /\ \A i \in 1 .. Len(q) - k : after[i] = q[k + i]
  BY <1>1, SubSeqProperties
<1> HIDE DEF before, after
<1>4. /\ before \o after \in Seq(Items) /\ Len(before \o after) = Len(q) - 1
      /\ \A i \in 1 .. Len(q) - 1 : (before \o after)[i] = IF i < k THEN q[i] ELSE q[i + 1]
  <2>1. /\ before \o after \in Seq(Items) /\ Len(before \o after) = Len(before) + Len(after)
        /\ \A i \in 1 .. Len(before) + Len(after) :
             (before \o after)[i] = IF i <= Len(before) THEN before[i] ELSE after[i - Len(before)]
    BY <1>2, <1>3, ConcatProperties
  <2>2. Len(before) + Len(after) = Len(q) - 1
    BY <1>1, <1>2, <1>3
  <2>3. ASSUME NEW i \in 1 .. Len(q) - 1
        PROVE  (before \o after)[i] = IF i < k THEN q[i] ELSE q[i + 1]
    <3>1. CASE i < k
      BY <1>1, <1>2, <2>1, <2>2, <3>1
    <3>2. CASE i >= k
      <4>1. i - (k - 1) \in 1 .. Len(q) - k /\ k + (i - (k - 1)) = i + 1
        BY <1>1, <3>2
      <4>2. (before \o after)[i] = after[i - (k - 1)]
        BY <1>1, <1>2, <2>1, <2>2, <3>2
      <4>3. after[i - (k - 1)] = q[i + 1]
        BY <1>3, <4>1
      <4>. QED
        BY <1>1, <3>2, <4>2, <4>3
    <3>3. i < k \/ i >= k
      BY <1>1
    <3>. QED
      BY <3>1, <3>2, <3>3
  <2>. QED
    BY <2>1, <2>2, <2>3
<1>5. \A i, j \in 1 .. Len(q) : q[i] = q[j] => i = j
  BY DEF IsInjective
<1>6. \A i \in 1 .. Len(q) - 1 : (before \o after)[i] # q[k]
  BY <1>1, <1>4, <1>5
<1>7. IsInjective(before \o after)
  <2>1. DOMAIN (before \o after) = 1 .. Len(q) - 1
    BY <1>4
  <2>2. ASSUME NEW i \in 1 .. Len(q) - 1, NEW j \in 1 .. Len(q) - 1, (before \o after)[i] = (before \o after)[j]
        PROVE  i = j
    <3>1. (IF i < k THEN q[i] ELSE q[i + 1]) = IF j < k THEN q[j] ELSE q[j + 1]
      BY <1>4, <2>2
    <3>2. i \in 1 .. Len(q) /\ i + 1 \in 1 .. Len(q) /\ j \in 1 .. Len(q) /\ j + 1 \in 1 .. Len(q)
      BY <1>1
    <3>3. (IF i < k THEN i ELSE i + 1) = IF j < k THEN j ELSE j + 1
      BY <1>5, <3>1, <3>2
    <3>. QED
      BY <1>1, <3>3
  <2>. QED
    BY <2>1, <2>2 DEF IsInjective
<1>. QED
  BY <1>4, <1>6, <1>7 DEF RemoveAt, before, after

LEMMA StageKeeps ==
  ASSUME ContextInv, NEW p \in Hooks, Stage(p)
  PROVE  ContextInv'
<1>1. /\ UNCHANGED kept /\ UNCHANGED packets /\ hook[p].at = "staging" /\ publisher = NoHook /\ publisher' = p
      /\ staged' \in {{}, {p}} /\ GoesTo(p, "publishing")
  BY DEF Stage, At
<1>2. hook \in [Hooks -> Processes] /\ hook[p] \in Processes /\ Chooses(p) /\ PathOf(p) /\ AheadOf(p)
  BY DEF ContextInv, ContextTypes, ChoiceInv, PathInv, ReceiptInv
<1> DEFINE r == [hook[p] EXCEPT !.at = "publishing"]
<1>3. r \in Processes
  BY <1>2, PointsAre DEF Processes
<1>4. hook' = [hook EXCEPT ![p] = r] /\ hook'[p] = r
  BY <1>1, <1>2 DEF Processes, GoesTo
<1>5. /\ r.kind = hook[p].kind /\ r.session = hook[p].session /\ r.state = hook[p].state /\ r.base = hook[p].base
      /\ r.allowance = hook[p].allowance /\ r.made = hook[p].made /\ r.at = "publishing" /\ r.snap = hook[p].snap
      /\ r.relevant = hook[p].relevant /\ r.items = hook[p].items
  BY <1>2 DEF Processes
<1> HIDE DEF r
<1>6. Expected(p)' = Expected(p)
  BY <1>4, <1>5 DEF Expected
<1>7. PathOf(p)' /\ Chooses(p)'
  BY <1>1, <1>2, <1>4, <1>5, <1>6 DEF PathOf, Chooses, At, Resolving, kept
<1>8. AheadOf(p)'
  BY <1>1, <1>2, <1>4, <1>5 DEF AheadOf, Matches, Charge, InSession, At, Reserved, Resolving, kept, told
<1>9. /\ hook' \in [Hooks -> Processes] /\ Alone(p)
      /\ PathInv' /\ LockInv' /\ ReceiptInv' /\ ChoiceInv'
  BY <1>1, <1>3, <1>4, <1>5, <1>7, <1>8, WorksOn DEF kept, told
<1>10. DirectoryInv'
  BY <1>1, <1>4, <1>5, <1>9, ContextAssumption DEF ContextInv, DirectoryInv, Alone, At
<1>11. ContextTypes' /\ ReceiptsCharged'
  BY <1>1, <1>9, OthersCharged DEF ContextInv, ContextTypes, kept, told
<1>. QED
  BY <1>9, <1>10, <1>11 DEF ContextInv

\* What rendering starts from.
LEMMA RendersFields ==
  ASSUME NEW p \in Hooks, hook \in [Hooks -> Processes], NEW x \in Items
  PROVE  LET c == Renders(p, x) IN
         /\ c \in Processes /\ c.at = "rendering" /\ c.items = x /\ c.todo = DOMAIN x /\ c.kind = hook[p].kind
         /\ c.session = hook[p].session /\ c.state = hook[p].state /\ c.made = hook[p].made
         /\ c.allowance = hook[p].allowance /\ c.base = hook[p].base /\ c.snap = hook[p].snap
         /\ c.relevant = hook[p].relevant
<1>1. hook[p] \in Processes
  OBVIOUS
<1>. QED
  BY <1>1, PointsAre, ItemsHeld DEF Renders, Processes

LEMMA PublishKeeps ==
  ASSUME ContextInv, NEW p \in Hooks, Publish(p)
  PROVE  ContextInv'
<1> DEFINE items == hook[p].items
           r == IF hook[p].kind = "command" THEN Renders(p, items) ELSE [hook[p] EXCEPT !.at = "correcting"]
<1>1. /\ UNCHANGED kept /\ hook[p].at = "publishing" /\ publisher' = NoHook /\ staged' = staged \ {p}
      /\ hook' = [hook EXCEPT ![p] = r]
  BY DEF Publish, At
<1>2. /\ hook \in [Hooks -> Processes] /\ hook[p] \in Processes /\ Chooses(p) /\ PathOf(p) /\ AheadOf(p)
      /\ items \in Items /\ packets \in Seq(Items) /\ IsInjective(packets)
  BY DEF ContextInv, ContextTypes, ChoiceInv, PathInv, ReceiptInv, Processes, DirectoryInv
<1>3. /\ r \in Processes /\ r.kind = hook[p].kind /\ r.session = hook[p].session /\ r.state = hook[p].state
      /\ r.base = hook[p].base /\ r.allowance = hook[p].allowance /\ r.made = hook[p].made
      /\ r.at = (IF hook[p].kind = "command" THEN "rendering" ELSE "correcting") /\ r.snap = hook[p].snap
      /\ r.relevant = hook[p].relevant /\ r.items = hook[p].items /\ (r.at = "rendering" => r.todo = DOMAIN items)
  <2>1. CASE hook[p].kind = "command"
    BY <1>2, <2>1, RendersFields
  <2>2. CASE hook[p].kind # "command"
    BY <1>2, <2>2, PointsAre DEF Processes
  <2>. QED
    BY <2>1, <2>2
<1> HIDE DEF r
<1>4. hook'[p] = r
  BY <1>1, <1>2
<1>5. Expected(p)' = Expected(p)
  BY <1>3, <1>4 DEF Expected
<1>6. hook[p].kind \in {"command", "prompt"}
  BY <1>1, <1>2 DEF PathOf, At, Processes
<1>7. PathOf(p)' /\ Chooses(p)'
  BY <1>1, <1>2, <1>3, <1>4, <1>5, <1>6 DEF PathOf, Chooses, At, Resolving, kept
<1>8. AheadOf(p)'
  BY <1>1, <1>2, <1>3, <1>4 DEF AheadOf, Matches, Charge, InSession, At, Reserved, Resolving, kept, told
<1>9. /\ hook' \in [Hooks -> Processes] /\ Alone(p)
      /\ PathInv' /\ LockInv' /\ ReceiptInv' /\ ChoiceInv'
  BY <1>1, <1>3, <1>4, <1>7, <1>8, WorksOn DEF kept, told
<1>10. packets' \in Seq(Items) /\ Len(packets') <= MaxPackets /\ IsInjective(packets')
  <2>1. CASE ~Contains(packets, items) /\ packets' = Pruned(items, packets)
    BY <1>2, <2>1, PrunedIsBounded DEF Contains
  <2>2. ASSUME NEW i \in DOMAIN packets, packets[i] = items, packets' = Pruned(items, RemoveAt(packets, i))
        PROVE  packets' \in Seq(Items) /\ Len(packets') <= MaxPackets /\ IsInjective(packets')
    <3>1. i \in 1 .. Len(packets)
      BY <1>2
    <3>2. /\ RemoveAt(packets, i) \in Seq(Items) /\ IsInjective(RemoveAt(packets, i))
          /\ \A j \in 1 .. Len(RemoveAt(packets, i)) : RemoveAt(packets, i)[j] # items
      BY <1>2, <2>2, <3>1, RemovedIsGone
    <3>. QED
      BY <1>2, <2>2, <3>2, PrunedIsBounded
  <2>. QED
    BY <2>1, <2>2 DEF Publish
<1>11. DirectoryInv'
  <2>1. \A q \in Hooks : At(q, "publishing")' <=> publisher' = q
    BY <1>1, <1>3, <1>4, <1>9, ContextAssumption DEF ContextInv, DirectoryInv, Alone, At
  <2>2. staged' = {} \/ \E q \in Hooks : staged' = {q}
    BY <1>1 DEF ContextInv, DirectoryInv
  <2>. QED
    BY <1>10, <2>1, <2>2 DEF DirectoryInv
<1>12. ContextTypes' /\ ReceiptsCharged'
  BY <1>1, <1>9, <1>10, OthersCharged DEF ContextInv, ContextTypes, kept, told
<1>. QED
  BY <1>9, <1>11, <1>12 DEF ContextInv

-----------------------------------------------------------------------------
(* Submission. *)

\* A hook writes the receipt of the session whose lock it holds.
LEMMA WritesFile ==
  ASSUME ContextInv, NEW p \in Hooks, NEW state \in Receipts, Writes(p, state), hook[p].session \in Sessions
  PROVE  LET s == hook[p].session IN
         /\ receipt' \in [Sessions -> Receipts] /\ \A t \in Sessions \ {s} : receipt'[t] = receipt[t]
         /\ receipt'[s].packet = state.packet /\ receipt'[s].routing = state.routing
         /\ receipt'[s].events = state.events /\ receipt'[s].bytes = state.bytes
         /\ receipt'[s].requests = state.requests
<1> DEFINE s == hook[p].session
           file == [state EXCEPT !.exists = TRUE]
<1>1. /\ file \in Receipts /\ file.packet = state.packet /\ file.routing = state.routing
      /\ file.events = state.events /\ file.bytes = state.bytes /\ file.requests = state.requests
  BY DEF Receipts
<1>2. receipt' = [receipt EXCEPT ![s] = file] /\ receipt \in [Sessions -> Receipts]
  BY DEF Writes, ContextInv, ContextTypes
<1> HIDE DEF file
<1>. QED
  BY <1>1, <1>2

LEMMA CorrectKeeps ==
  ASSUME ContextInv, NEW p \in Hooks, Correct(p)
  PROVE  ContextInv'
<1> DEFINE s == hook[p].session
           state == [hook[p].state EXCEPT !.requests = @ + hook[p].made]
           r == [Renders(p, hook[p].items) EXCEPT !.state = state]
<1>1. /\ UNCHANGED <<files, told, locked, calls>> /\ hook[p].at = "correcting" /\ Writes(p, state)
      /\ hook' = [hook EXCEPT ![p] = r]
  BY DEF Correct, At
<1>2. /\ hook \in [Hooks -> Processes] /\ hook[p] \in Processes /\ Chooses(p) /\ PathOf(p) /\ AheadOf(p)
      /\ hook[p].items \in Items /\ hook[p].state \in Receipts /\ hook[p].made \in {0, 1}
      /\ hook[p].state.requests \in Nat
  BY DEF ContextInv, ContextTypes, ChoiceInv, PathInv, ReceiptInv, Processes, Receipts
<1>3. hook[p].kind = "prompt" /\ s \in Sessions /\ InSession(p) /\ ChargedFor(s)
  BY <1>1, <1>2 DEF PathOf, At, Processes, InSession, ContextInv, ReceiptsCharged
<1>4. /\ state \in Receipts /\ state.requests = hook[p].state.requests + hook[p].made
      /\ state.packet = hook[p].state.packet /\ state.events = hook[p].state.events /\ state.bytes = hook[p].state.bytes
  BY <1>2 DEF Receipts
<1>5. /\ r \in Processes /\ r.kind = hook[p].kind /\ r.session = s /\ r.state = state
      /\ r.base = hook[p].base /\ r.at = "rendering" /\ r.snap = hook[p].snap
      /\ r.relevant = hook[p].relevant /\ r.items = hook[p].items /\ r.todo = DOMAIN hook[p].items
  <2>1. LET c == Renders(p, hook[p].items) IN
        /\ c \in Processes /\ c.at = "rendering" /\ c.items = hook[p].items /\ c.todo = DOMAIN hook[p].items
        /\ c.kind = hook[p].kind /\ c.session = hook[p].session
        /\ c.base = hook[p].base /\ c.snap = hook[p].snap /\ c.relevant = hook[p].relevant
    BY <1>2, RendersFields
  <2> HIDE DEF state
  <2>. QED
    BY <1>4, <2>1 DEF Processes
<1> HIDE DEF r, state
<1>6. hook'[p] = r /\ hook' \in [Hooks -> Processes] /\ Alone(p)
  BY <1>1, <1>2, <1>5 DEF Alone
<1>7. /\ receipt' \in [Sessions -> Receipts] /\ \A t \in Sessions \ {s} : receipt'[t] = receipt[t]
      /\ receipt'[s].packet = state.packet /\ receipt'[s].events = state.events
      /\ receipt'[s].bytes = state.bytes /\ receipt'[s].requests = state.requests
  BY <1>1, <1>3, <1>4, WritesFile
<1>8. Expected(p)' = Expected(p)
  BY <1>5, <1>6 DEF Expected
<1>9. PathOf(p)' /\ Chooses(p)'
  BY <1>1, <1>2, <1>3, <1>5, <1>6, <1>8 DEF PathOf, Chooses, At, Resolving, files
<1>10. AheadOf(p)'
  BY <1>1, <1>2, <1>3, <1>4, <1>5, <1>6, <1>7 DEF AheadOf, Matches, InSession, At, Reserved, Resolving
<1>11. ReceiptsCharged'
  <2>1. hook[p].made <= Charge(p) /\ sent[s] <= state.requests /\ state.requests <= receipt[s].requests
    <3>1. /\ receipt[s].requests = hook[p].state.requests + Charge(p) /\ hook[p].made <= Charge(p)
          /\ sent[s] <= hook[p].state.requests + hook[p].made
      BY <1>1, <1>2, <1>3 DEF AheadOf, Reserved
    <3>2. Charge(p) \in {0, 1}
      BY <1>2 DEF Charge, Processes
    <3>. QED
      BY <1>2, <1>4, <3>1, <3>2
  <2>2. receipt[s].requests <= MaxRequests /\ receipt[s].requests \in Nat /\ state.requests \in Nat
    BY <1>3, <1>4 DEF ChargedFor, ContextInv, ContextTypes, Receipts
  <2>3. state.requests <= MaxRequests
    BY <2>1, <2>2, ContextAssumption
  <2>4. \A t \in Sessions : t = s => ChargedFor(t)'
    BY <1>1, <1>2, <1>3, <1>4, <1>7, <2>1, <2>3 DEF AheadOf, Matches, ChargedFor, told
  <2>. QED
    BY <1>1, <1>7, <2>4, OthersCharged DEF told
<1>12. LockInv' /\ ReceiptInv' /\ PathInv' /\ ChoiceInv' /\ DirectoryInv'
  <2>1. LockInv'
    BY <1>1, <1>3, <1>5, <1>6, OthersLocked DEF ContextInv, LockInv
  <2>2. ReceiptInv'
    BY <1>1, <1>3, <1>6, <1>7, <1>10, OthersAhead DEF files, told
  <2>3. PathInv' /\ ChoiceInv' /\ DirectoryInv'
    BY <1>1, <1>5, <1>6, <1>9, OthersChoose, DirectoryUntouched DEF files, At
  <2>. QED
    BY <2>1, <2>2, <2>3
<1>13. ContextTypes'
  BY <1>1, <1>6, <1>7 DEF ContextInv, ContextTypes, files, told
<1>. QED
  BY <1>11, <1>12, <1>13 DEF ContextInv

LEMMA RenderItemKeeps ==
  ASSUME ContextInv, NEW p \in Hooks, RenderItem(p)
  PROVE  ContextInv'
<1>1. PICK i : /\ UNCHANGED <<files, told, receipt, locked, calls>> /\ hook[p].at = "rendering"
               /\ hook' = [hook EXCEPT ![p].todo = @ \ {i}]
  BY DEF RenderItem, At
<1>2. hook \in [Hooks -> Processes] /\ hook[p] \in Processes /\ Chooses(p) /\ PathOf(p) /\ AheadOf(p)
  BY DEF ContextInv, ContextTypes, ChoiceInv, PathInv, ReceiptInv
<1> DEFINE r == [hook[p] EXCEPT !.todo = @ \ {i}]
<1>3. /\ r \in Processes /\ r.kind = hook[p].kind /\ r.session = hook[p].session /\ r.state = hook[p].state
      /\ r.base = hook[p].base /\ r.at = "rendering" /\ r.snap = hook[p].snap
      /\ r.relevant = hook[p].relevant /\ r.items = hook[p].items /\ r.todo \subseteq hook[p].todo
  BY <1>1, <1>2 DEF Processes
<1>4. hook' = [hook EXCEPT ![p] = r] /\ hook'[p] = r
  BY <1>1, <1>2 DEF Processes
<1> HIDE DEF r
<1>5. Expected(p)' = Expected(p)
  BY <1>3, <1>4 DEF Expected
<1>6. PathOf(p)' /\ Chooses(p)'
  BY <1>1, <1>2, <1>3, <1>4, <1>5 DEF PathOf, Chooses, At, Resolving, files
<1>7. AheadOf(p)'
  BY <1>1, <1>2, <1>3, <1>4 DEF AheadOf, Matches, InSession, At, Reserved, Resolving, files, told
<1>. QED
  BY <1>1, <1>3, <1>4, <1>6, <1>7, WorkKeeps DEF files, told

LEMMA SubmitKeeps ==
  ASSUME ContextInv, NEW p \in Hooks, Submit(p)
  PROVE  ContextInv'
<1> DEFINE h == hook[p]
           s == hook[p].session
           state == [h.state EXCEPT !.packet = h.items, !.routing = h.routing, !.refresh = FALSE,
                                    !.events = @ + 1, !.bytes = @ + Envelope(p)]
           r == [h EXCEPT !.at = "emitting"]
<1>1. /\ UNCHANGED <<files, calls, sent>> /\ h.at = "rendering" /\ Required \in DOMAIN h.items /\ ~TooLarge(p)
      /\ Held(p) /\ hook' = [hook EXCEPT ![p].at = "emitting"]
      /\ h.kind = "command" => UNCHANGED <<receipt, submitted>>
      /\ h.kind # "command" => Writes(p, state) /\ submitted' = [submitted EXCEPT ![s] = @ + 1]
  BY DEF Submit, GoesTo, At
<1>2. /\ hook \in [Hooks -> Processes] /\ h \in Processes /\ Chooses(p) /\ PathOf(p) /\ AheadOf(p)
      /\ h.items \in Items /\ h.state \in Receipts /\ h.routing \in Nat /\ Envelope(p) \in Nat /\ h.items # NoItems
      /\ h.state.events \in Nat /\ h.state.bytes \in Nat
  <2>1. h \in Processes /\ h.items \in Items /\ h.state \in Receipts /\ h.routing \in Nat
    BY DEF ContextInv, ContextTypes, Processes
  <2>. QED
    BY <1>1, <2>1, ItemsHeld DEF ContextInv, ContextTypes, ChoiceInv, PathInv, ReceiptInv, Receipts, Envelope
<1>3. h.kind # "command" => s \in Sessions /\ InSession(p) /\ ChargedFor(s)
  BY <1>1, <1>2 DEF PathOf, At, Processes, InSession, ContextInv, ReceiptsCharged
<1>4. /\ state \in Receipts /\ state.requests = h.state.requests /\ state.packet = h.items
      /\ state.events = h.state.events + 1 /\ state.bytes = h.state.bytes + Envelope(p)
  <2>1. h.state.events + 1 \in Nat /\ h.state.bytes + Envelope(p) \in Nat
    BY <1>2
  <2>. QED
    BY <1>2, <2>1 DEF Receipts
<1>5. r \in Processes /\ r.kind = h.kind /\ r.session = s /\ r.at = "emitting"
  BY <1>2, PointsAre DEF Processes
<1>6. hook' = [hook EXCEPT ![p] = r]
  BY <1>1, <1>2 DEF Processes
<1> HIDE DEF r, state
<1>7. hook'[p] = r /\ hook' \in [Hooks -> Processes] /\ Alone(p)
  BY <1>2, <1>5, <1>6 DEF Alone
<1>8. h.kind # "command" =>
        /\ receipt' \in [Sessions -> Receipts] /\ \A t \in Sessions \ {s} : receipt'[t] = receipt[t]
        /\ receipt'[s].packet = state.packet /\ receipt'[s].events = state.events
        /\ receipt'[s].bytes = state.bytes /\ receipt'[s].requests = state.requests
  BY <1>1, <1>3, <1>4, WritesFile
<1>9. PathOf(p)' /\ Chooses(p)' /\ AheadOf(p)' /\ ~InSession(p)'
  BY <1>1, <1>2, <1>5, <1>7 DEF PathOf, Chooses, AheadOf, InSession, At, Resolving, Processes
<1>10. \A t \in Sessions : (InSession(p) /\ t = s) \/ (receipt'[t] = receipt[t] /\ sent'[t] = sent[t])
  BY <1>1, <1>3, <1>8
<1>11. PathInv' /\ ChoiceInv' /\ LockInv' /\ ReceiptInv' /\ DirectoryInv'
  BY <1>1, <1>5, <1>7, <1>9, <1>10, OthersChoose, OthersLocked, OthersAhead, LocksReleased, DirectoryUntouched
   DEF files, At
<1>12. ReceiptsCharged'
  <2>1. ASSUME h.kind # "command"
        PROVE  \A t \in Sessions : t = s => ChargedFor(t)'
    <3>1. submitted'[s] = submitted[s] + 1 /\ submitted[s] \in Nat
      BY <1>1, <1>3, <2>1 DEF ContextInv, ContextTypes
    <3>2. /\ Matches(p) /\ receipt[s].requests = h.state.requests /\ h.state.events < MaxEvents
          /\ h.state.bytes + Envelope(p) <= MaxSubmitted
      BY <1>1, <1>2, <1>3, <2>1, ContextAssumption DEF AheadOf, At, TooLarge
    <3>3. /\ submitted'[s] = receipt'[s].events /\ receipt'[s].events <= MaxEvents
          /\ receipt'[s].bytes <= MaxSubmitted /\ receipt'[s].packet # NoItems
      BY <1>2, <1>3, <1>4, <1>8, <2>1, <3>1, <3>2, ContextAssumption DEF Matches, ChargedFor
    <3>. QED
      BY <1>1, <1>3, <1>4, <1>8, <2>1, <3>2, <3>3 DEF ChargedFor
  <2>2. h.kind # "command" => \A t \in Sessions \ {s} : submitted'[t] = submitted[t]
    BY <1>1 DEF ContextInv, ContextTypes
  <2>. QED
    BY <1>1, <1>8, <2>1, <2>2, OthersCharged
<1>13. ContextTypes'
  <2>1. submitted' \in [Sessions -> Nat] /\ receipt' \in [Sessions -> Receipts]
    BY <1>1, <1>3, <1>8 DEF ContextInv, ContextTypes
  <2>. QED
    BY <1>1, <1>7, <2>1, LocksReleased DEF ContextInv, ContextTypes, files
<1>. QED
  BY <1>11, <1>12, <1>13 DEF ContextInv

-----------------------------------------------------------------------------
(* Theorems *)

LEMMA ContextInvInit ==
  ContextInit => ContextInv
<1> SUFFICES ASSUME ContextInit
             PROVE  ContextInv
  OBVIOUS
<1>1. ContextTypes
  <2>1. <<>> \in Seq(Items)
    OBVIOUS
  <2>. QED
    BY <2>1, RestIsTyped DEF ContextInit, ContextTypes
<1>2. \A p \in Hooks : hook[p].at = "rest" /\ hook[p].kind = "none"
  BY DEF ContextInit, AtRest
<1>3. PathInv /\ LockInv /\ ReceiptInv /\ ChoiceInv
  BY <1>2 DEF PathInv, PathOf, LockInv, ReceiptInv, AheadOf, InSession, ChoiceInv, Chooses, At, Resolving
<1>4. DirectoryInv
  BY <1>2, ContextAssumption DEF ContextInit, DirectoryInv, At, IsInjective
<1>5. ReceiptsCharged
  BY ContextAssumption DEF ContextInit, ReceiptsCharged, ChargedFor, NoReceipt
<1>. QED
  BY <1>1, <1>3, <1>4, <1>5 DEF ContextInv

LEMMA ContextInvStutter ==
  ASSUME ContextInv, UNCHANGED contextVars
  PROVE  ContextInv'
<1>1. ContextTypes' /\ PathInv' /\ LockInv' /\ DirectoryInv' /\ ReceiptsCharged'
  BY DEF contextVars, ContextInv, ContextTypes, PathInv, PathOf, LockInv, InSession, DirectoryInv, ReceiptsCharged,
    ChargedFor, At
<1>2. ReceiptInv'
  BY DEF contextVars, ContextInv, ReceiptInv, AheadOf, InSession, Matches, Charge, At
<1>3. \A p \in Hooks : Expected(p)' = Expected(p)
  BY DEF contextVars, Expected
<1>4. ChoiceInv'
  BY <1>3 DEF contextVars, ContextInv, ChoiceInv, Chooses, At
<1>. QED
  BY <1>1, <1>2, <1>4 DEF ContextInv

\* The inductive invariant, over every run of the hooks.
THEOREM ContextInvariant ==
  ContextInit /\ [][ContextNext]_contextVars => []ContextInv
<1>1. ContextInit => ContextInv
  BY ContextInvInit
<1>2. ContextInv /\ [ContextNext]_contextVars => ContextInv'
  <2> SUFFICES ASSUME ContextInv, [ContextNext]_contextVars
               PROVE  ContextInv'
    OBVIOUS
  <2>1. CASE EditSource
    BY <2>1, EditSourceKeeps
  <2>2. ASSUME NEW p \in Hooks,
               \/ Call(p) \/ TakeLock(p) \/ LockTimeout(p) \/ EndSession(p) \/ Refresh(p) \/ Decline(p) \/ Replay(p)
               \/ Reserve(p) \/ Resolve(p) \/ Scan(p) \/ Score(p) \/ Recheck(p) \/ Assemble(p) \/ Reread(p)
               \/ Stage(p) \/ Publish(p) \/ Correct(p) \/ RenderItem(p) \/ Incomplete(p) \/ Submit(p) \/ Emit(p)
               \/ KillHook(p)
        PROVE  ContextInv'
    BY <2>2, CallKeeps, TakeLockKeeps, LockTimeoutKeeps, EndSessionKeeps, RefreshKeeps, DeclineKeeps, ReplayKeeps,
      ReserveKeeps, ResolveKeeps, ScanKeeps, ScoreKeeps, RecheckKeeps, AssembleKeeps, RereadKeeps, StageKeeps,
      PublishKeeps, CorrectKeeps, RenderItemKeeps, IncompleteKeeps, SubmitKeeps, EmitKeeps, KillHookKeeps
  <2>3. CASE UNCHANGED contextVars
    BY <2>3, ContextInvStutter
  <2>. QED
    BY <2>1, <2>2, <2>3 DEF ContextNext
<1>. QED
  BY <1>1, <1>2, PTL

\* Whatever is killed and however the calls of a session overlap, what is charged
\* to its receipt covers the requests that left and counts its submissions, no
\* allowance is passed, and the directory is bounded, without doubles and with one
\* staging directory (_packet, _submit, _session_lock, _prune_materializations).
THEOREM ChargesCover ==
  ContextInit /\ [][ContextNext]_contextVars => []Charged
<1>1. ContextInv => Charged
  <2> SUFFICES ASSUME ContextInv
               PROVE  Charged
    OBVIOUS
  <2>1. Cardinality(staged) <= 1
    <3>1. CASE staged = {}
      BY <3>1, FS_EmptySet
    <3>2. ASSUME NEW p \in Hooks, staged = {p}
          PROVE  Cardinality(staged) <= 1
      BY <3>2, FS_Singleton
    <3>. QED
      BY <3>1, <3>2 DEF ContextInv, DirectoryInv
  <2>. QED
    BY <2>1 DEF ContextInv, DirectoryInv, ReceiptsCharged, ChargedFor, Charged
<1>. QED
  BY <1>1, ContextInvariant, PTL

\* What a process renders becomes a text by being submitted, and in no other way.
LEMMA OnlySubmitEmits ==
  ASSUME ContextInv, ContextNext, NEW p \in Hooks, hook[p].at = "rendering", hook'[p].at = "emitting"
  PROVE  Submit(p)
<1>1. hook \in [Hooks -> Processes] /\ hook[p] \in Processes
  BY DEF ContextInv, ContextTypes
<1>2. ~EditSource
  BY DEF EditSource
<1>3. ASSUME NEW q \in Hooks, Call(q) PROVE FALSE
  BY <1>1, <1>3 DEF Call, At, AtRest, Processes
<1>4. ASSUME NEW q \in Hooks, TakeLock(q) PROVE FALSE
  BY <1>1, <1>4 DEF TakeLock, At, Processes
<1>5. ASSUME NEW q \in Hooks, LockTimeout(q) PROVE FALSE
  BY <1>1, <1>5 DEF LockTimeout, At, AtRest, Processes
<1>6. ASSUME NEW q \in Hooks, EndSession(q) PROVE FALSE
  BY <1>1, <1>6 DEF EndSession, At, Answers, AtRest, Processes
<1>7. ASSUME NEW q \in Hooks, Refresh(q) PROVE FALSE
  BY <1>1, <1>7 DEF Refresh, At, Answers, AtRest, Processes
<1>8. ASSUME NEW q \in Hooks, Decline(q) PROVE FALSE
  BY <1>1, <1>8 DEF Decline, At, Answers, AtRest, Processes
<1>9. ASSUME NEW q \in Hooks, Replay(q) PROVE FALSE
  BY <1>1, <1>9 DEF Replay, At, Processes
<1>10. ASSUME NEW q \in Hooks, Reserve(q) PROVE FALSE
  BY <1>1, <1>10 DEF Reserve, At, Processes
<1>11. ASSUME NEW q \in Hooks, Resolve(q) PROVE FALSE
  BY <1>1, <1>11 DEF Resolve, At, Processes
<1>12. ASSUME NEW q \in Hooks, Scan(q) PROVE FALSE
  BY <1>1, <1>12 DEF Scan, At, Processes
<1>13. ASSUME NEW q \in Hooks, Score(q) PROVE FALSE
  BY <1>1, <1>13 DEF Score, At, Processes
<1>14. ASSUME NEW q \in Hooks, Recheck(q) PROVE FALSE
  BY <1>1, <1>14 DEF Recheck, At, GoesTo, Processes
<1>15. ASSUME NEW q \in Hooks, Assemble(q) PROVE FALSE
  BY <1>1, <1>15 DEF Assemble, At, GoesTo, Processes
<1>16. ASSUME NEW q \in Hooks, Reread(q) PROVE FALSE
  BY <1>1, <1>16 DEF Reread, At, Processes
<1>17. ASSUME NEW q \in Hooks, Stage(q) PROVE FALSE
  BY <1>1, <1>17 DEF Stage, At, GoesTo, Processes
<1>18. ASSUME NEW q \in Hooks, Publish(q) PROVE FALSE
  BY <1>1, <1>18 DEF Publish, At, Processes
<1>19. ASSUME NEW q \in Hooks, Correct(q) PROVE FALSE
  BY <1>1, <1>19 DEF Correct, At, Processes
<1>20. ASSUME NEW q \in Hooks, RenderItem(q) PROVE FALSE
  BY <1>1, <1>20 DEF RenderItem, At, Processes
<1>21. ASSUME NEW q \in Hooks, Incomplete(q) PROVE FALSE
  BY <1>1, <1>21 DEF Incomplete, At, Answers, AtRest, Processes
<1>22. ASSUME NEW q \in Hooks, Emit(q) PROVE FALSE
  BY <1>1, <1>22 DEF Emit, At, Answers, AtRest, Processes
<1>23. ASSUME NEW q \in Hooks, KillHook(q) PROVE FALSE
  BY <1>1, <1>23 DEF KillHook, Answers, AtRest, Processes
<1>24. \A q \in Hooks : Submit(q) => q = p
  BY <1>1 DEF Submit, GoesTo, Processes
<1>. QED
  BY <1>2, <1>3, <1>4, <1>5, <1>6, <1>7, <1>8, <1>9, <1>10, <1>11, <1>12, <1>13, <1>14, <1>15, <1>16, <1>17, <1>18,
        <1>19, <1>20, <1>21, <1>22, <1>23, <1>24 DEF ContextNext

\* No text leaves without the required source; a replayed packet is the one its
\* receipt holds, and an optional source goes only as the version that was scored,
\* beside the required version that was read with it (select, _assemble, render).
THEOREM TextFitsItsScore ==
  ContextInit /\ [][ContextNext]_contextVars => ScoresFit
<1> DEFINE Fits(p) ==
      (hook[p].at = "rendering" /\ hook'[p].at = "emitting") =>
         LET h == hook[p] IN
         /\ Required \in DOMAIN h.items
         /\ h.kind = "compact" => h.items = receipt[h.session].packet
         /\ (h.kind # "compact" /\ Optional \in DOMAIN h.items) =>
              mode = "on" /\ h.relevant /\ h.items = Expected(p)
<1>1. ContextInv /\ [ContextNext]_contextVars => [\A p \in Hooks : Fits(p)]_contextVars
  <2> SUFFICES ASSUME ContextInv, ContextNext, NEW p \in Hooks, hook[p].at = "rendering", hook'[p].at = "emitting"
               PROVE  Fits(p)
    OBVIOUS
  <2>1. Submit(p)
    BY OnlySubmitEmits
  <2>2. hook[p].kind \in {"command", "prompt", "compact"} /\ (hook[p].kind = "compact" => InSession(p))
    BY DEF ContextInv, ContextTypes, PathInv, PathOf, Processes, InSession, At
  <2>3. Required \in DOMAIN hook[p].items
    BY <2>1 DEF Submit
  <2>4. hook[p].kind = "compact" => hook[p].items = receipt[hook[p].session].packet
    BY <2>2 DEF ContextInv, ChoiceInv, Chooses, ReceiptInv, AheadOf, Matches, At
  <2>5. (hook[p].kind # "compact" /\ Optional \in DOMAIN hook[p].items) =>
          mode = "on" /\ hook[p].relevant /\ hook[p].items = Expected(p)
    BY <2>3 DEF ContextInv, ChoiceInv, Chooses
  <2>. QED
    BY <2>3, <2>4, <2>5
<1>. QED
  BY <1>1, ContextInvariant, PTL DEF ScoresFit
=============================================================================
