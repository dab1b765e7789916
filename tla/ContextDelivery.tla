--------------------------- MODULE ContextDelivery ---------------------------
(***************************************************************************)
(* Automatic context: the hooks of a host's sessions resolve a packet of   *)
(* repository sources, have one optional source scored by an outside       *)
(* service, publish the packet in a bounded directory and submit its text  *)
(* within a receipt's allowances (context_delivery.py, context.py,         *)
(* semantic_context.py, jev.py, context_storage.py).  Sources are edited   *)
(* and hooks killed at any step.                                           *)
(*                                                                         *)
(* A source is its version, 0 when there is none; one source is required,  *)
(* one may be chosen; the profile's version is the routing's identity.     *)
(***************************************************************************)
EXTENDS Naturals, FiniteSets, Sequences, SequencesExt, FiniteSetsExt, Functions

NoHook == "no hook"

CONSTANTS
  Hooks,        \* processes: a host's hook calls and `context --task --emit-text`
  Sessions,
  Bucket,       \* Bucket[s]: which of the lock files a session uses
  Modes,        \* of semantic selection
  MaxSessions, MaxEvents, MaxSubmitted, MaxRequests, MaxPackets,
  MaxCalls, MaxSourceEdits  \* bounds on calls and on edits

ASSUME ContextAssumption ==
  /\ DOMAIN Bucket = Sessions /\ Modes \subseteq {"off", "shadow", "on"}
  /\ {MaxSessions, MaxEvents, MaxSubmitted, MaxRequests, MaxPackets, MaxCalls, MaxSourceEdits} \subseteq Nat
  /\ MaxPackets > 0 /\ NoHook \notin Hooks

VARIABLES
  source,   \* the version of each source
  mode,
  receipt,  \* the private receipt of each session
  hook,     \* what each process is doing
  locked,   \* holder of each session lock
  packets,  \* the published packets, newest first
  publisher, staged,  \* holder of the directory's lock; staging directories
  calls, sourceEdits,
  \* History, since the receipt was made: scoring requests that left, submissions.
  sent, submitted

contextVars == <<source, mode, receipt, hook, locked, packets, publisher, staged, calls, sourceEdits, sent, submitted>>

Required == "required"
Optional == "optional"
Profile == "profile"
NoItems == [i \in {} |-> 0]

NoReceipt == [exists |-> FALSE, packet |-> NoItems, routing |-> 0, refresh |-> FALSE,
              events |-> 0, bytes |-> 0, requests |-> 0]
AtRest == [at |-> "rest", kind |-> "none", session |-> "none", state |-> NoReceipt, routing |-> 0,
           allowance |-> 0, base |-> 0, snap |-> 0, relevant |-> FALSE, made |-> 0, items |-> NoItems, todo |-> {}]

ContextInit ==
  /\ source = [i \in {Required, Optional, Profile} |-> 1] /\ mode \in Modes
  /\ receipt = [s \in Sessions |-> NoReceipt] /\ hook = [p \in Hooks |-> AtRest]
  /\ locked = [b \in Range(Bucket) |-> NoHook]
  /\ packets = <<>> /\ publisher = NoHook /\ staged = {}
  /\ calls = 0 /\ sourceEdits = 0
  /\ sent = [s \in Sessions |-> 0] /\ submitted = [s \in Sessions |-> 0]

files == <<source, mode, packets, publisher, staged, sourceEdits>>
told == <<sent, submitted>>

At(p, where) == hook[p].at = where
GoesTo(p, where) == hook' = [hook EXCEPT ![p].at = where]
Held(p) == locked' = [b \in DOMAIN locked |-> IF locked[b] = p THEN NoHook ELSE locked[b]]

\* The answer: nothing, guidance, or "context is incomplete"; the lock is released.
Answers(p) == hook' = [hook EXCEPT ![p] = AtRest] /\ Held(p)

-----------------------------------------------------------------------------
(* compose: one event of a session. *)

Inventory == Cardinality({s \in Sessions : receipt[s].exists})
Full(s) == ~receipt[s].exists /\ Inventory >= MaxSessions

Call(p) ==
  /\ At(p, "rest") /\ calls < MaxCalls /\ calls' = calls + 1
  /\ \/ hook' = [hook EXCEPT ![p] = [AtRest EXCEPT !.at = "resolving", !.kind = "command", !.allowance = 1]]
     \/ \E s \in Sessions, kind \in {"prompt", "compact", "end", "refresh"} :
          IF kind \in {"prompt", "compact"} /\ Full(s) THEN UNCHANGED hook
          ELSE hook' = [hook EXCEPT ![p] = [AtRest EXCEPT !.at = "waiting", !.kind = kind, !.session = s]]
  /\ UNCHANGED <<files, told, receipt, locked>>

LockIgnored(p) ==                                                          \* faulty
  /\ At(p, "waiting") /\ UNCHANGED locked
  /\ hook' = [hook EXCEPT ![p].at = "locked", ![p].state = receipt[hook[p].session], ![p].routing = source[Profile]]
  /\ UNCHANGED <<files, told, receipt, calls>>
TakeLock(p) ==
  LET s == hook[p].session IN
  /\ At(p, "waiting") /\ locked[Bucket[s]] = NoHook /\ locked' = [locked EXCEPT ![Bucket[s]] = p]
  /\ hook' = [hook EXCEPT ![p].at = "locked", ![p].state = receipt[s], ![p].routing = source[Profile]]
  /\ UNCHANGED <<files, told, receipt, calls>>

\* TimeoutError after two seconds.
LockTimeout(p) ==
  /\ At(p, "waiting") /\ locked[Bucket[hook[p].session]] # NoHook
  /\ hook' = [hook EXCEPT ![p] = AtRest] /\ UNCHANGED <<files, told, receipt, locked, calls>>

EndSession(p) ==
  LET s == hook[p].session IN
  /\ At(p, "locked") /\ hook[p].kind = "end" /\ Answers(p)
  /\ receipt' = [receipt EXCEPT ![s] = NoReceipt]
  /\ sent' = [sent EXCEPT ![s] = 0] /\ submitted' = [submitted EXCEPT ![s] = 0]
  /\ UNCHANGED <<files, calls>>

Writes(p, state) == receipt' = [receipt EXCEPT ![hook[p].session] = [state EXCEPT !.exists = TRUE]]

Refresh(p) ==
  /\ At(p, "locked") /\ hook[p].kind = "refresh" /\ Answers(p)
  /\ Writes(p, [hook[p].state EXCEPT !.refresh = TRUE]) /\ UNCHANGED <<files, told, calls>>

Current(p) == hook[p].state.packet # NoItems /\ ~hook[p].state.refresh
Rerouted(p) == Current(p) /\ hook[p].state.routing # hook[p].routing
Changed(items) == \E i \in DOMAIN items : source[i] # items[i]

\* Nothing to say, or nothing that may be said.
Declines(p) ==
  \/ Rerouted(p)
  \/ hook[p].kind = "prompt" /\ Current(p)
  \/ hook[p].state.events >= MaxEvents
  \/ hook[p].kind = "compact" /\ (~Current(p) \/ Changed(hook[p].state.packet))

Decline(p) ==
  /\ At(p, "locked") /\ hook[p].kind \in {"prompt", "compact"} /\ Declines(p)
  /\ Answers(p) /\ UNCHANGED <<files, told, receipt, calls>>

Renders(p, items) == [hook[p] EXCEPT !.at = "rendering", !.items = items, !.todo = DOMAIN items]

Replay(p) ==
  /\ At(p, "locked") /\ hook[p].kind = "compact" /\ ~Declines(p)
  /\ hook' = [hook EXCEPT ![p] = Renders(p, hook[p].state.packet)]
  /\ UNCHANGED <<files, told, receipt, locked, calls>>

\* What may be asked of the service is charged before anything leaves.
Reserve(p) ==
  LET allowance == Min({1, MaxRequests - hook[p].state.requests}) IN
  /\ At(p, "locked") /\ hook[p].kind = "prompt" /\ ~Declines(p)
  /\ hook' = [hook EXCEPT ![p].at = "resolving", ![p].allowance = allowance]
  /\ Writes(p, [hook[p].state EXCEPT !.requests = @ + (IF mode = "off" THEN 0 ELSE allowance)])
  /\ UNCHANGED <<files, told, locked, calls>>

-----------------------------------------------------------------------------
(* resolve_context: the required source, and the choice of the optional one. *)

quiet == <<receipt, locked, calls, submitted, source, mode, packets, publisher, staged, sourceEdits>>

Chosen(p, items) == [hook[p] EXCEPT !.at = "staging", !.items = items]
Baseline(p) == Chosen(p, [i \in {Required} |-> hook[p].base])
Readable(names) == [i \in {j \in names : source[j] # 0} |-> source[i]]

Resolve(p) ==
  /\ At(p, "resolving")
  /\ LET read == [hook[p] EXCEPT !.base = source[Required]] IN
     \/ source[Required] = 0 /\ hook' = [hook EXCEPT ![p] = Chosen(p, NoItems)]
     \/ /\ source[Required] # 0  \* not ready, not authorized, or off
        /\ hook' = [hook EXCEPT ![p] = [read EXCEPT !.at = "staging", !.items = Readable({Required})]]
     \/ /\ source[Required] # 0 /\ mode # "off" /\ hook[p].allowance >= 1
        /\ hook' = [hook EXCEPT ![p] = [read EXCEPT !.at = "scanning"]]
  /\ UNCHANGED <<quiet, sent>>

\* The candidate is read and searched for secrets before any of it leaves.
Scan(p) ==
  /\ At(p, "scanning")
  /\ \/ hook' = [hook EXCEPT ![p] = Baseline(p)]
     \/ source[Optional] # 0 /\ hook' = [hook EXCEPT ![p].at = "scoring", ![p].snap = source[Optional]]
  /\ UNCHANGED <<quiet, sent>>

\* One request; its answer, no answer, or an unusable one.
Score(p) ==
  /\ At(p, "scoring")
  /\ sent' = IF hook[p].kind = "command" THEN sent ELSE [sent EXCEPT ![hook[p].session] = @ + 1]
  /\ \/ hook' = [hook EXCEPT ![p] = [Baseline(p) EXCEPT !.made = 1]]
     \/ \E relevant \in BOOLEAN :
          hook' = [hook EXCEPT ![p].at = "rechecking", ![p].made = 1, ![p].relevant = relevant]
  /\ UNCHANGED quiet

Recheck(p) ==
  /\ At(p, "rechecking")
  /\ IF source[Optional] # hook[p].snap \/ source[Required] # hook[p].base THEN GoesTo(p, "rereading")
     ELSE IF mode = "shadow" \/ ~hook[p].relevant THEN hook' = [hook EXCEPT ![p] = Baseline(p)]
     ELSE GoesTo(p, "assembling")
  /\ UNCHANGED <<quiet, sent>>

Expected(p) == [i \in {Required, Optional} |-> IF i = Required THEN hook[p].base ELSE hook[p].snap]

\* The sources are read once more; what changed since it was scored is not used.
AssembleAnything(p) ==                                                     \* faulty
  /\ At(p, "assembling")
  /\ hook' = [hook EXCEPT ![p] = Chosen(p, Readable({Required, Optional}))]
  /\ UNCHANGED <<quiet, sent>>
Assemble(p) ==
  LET items == Readable({Required, Optional}) IN
  /\ At(p, "assembling")
  /\ IF \E i \in DOMAIN items : items[i] # Expected(p)[i] THEN GoesTo(p, "rereading")
     ELSE hook' = [hook EXCEPT ![p] = Chosen(p, items)]
  /\ UNCHANGED <<quiet, sent>>

Reread(p) ==
  /\ At(p, "rereading") /\ hook' = [hook EXCEPT ![p] = Chosen(p, Readable({Required}))]
  /\ UNCHANGED <<quiet, sent>>

-----------------------------------------------------------------------------
(* _materialize: the packet is staged and renamed under the directory's    *)
(* lock; only the newest packets are kept.                                 *)

kept == <<source, mode, receipt, locked, calls, sourceEdits, told>>

Stage(p) ==
  /\ At(p, "staging") /\ publisher = NoHook /\ publisher' = p
  /\ staged' = IF Contains(packets, hook[p].items) THEN {} ELSE {p}
  /\ GoesTo(p, "publishing") /\ UNCHANGED <<kept, packets>>

Pruned(current, others) == SubSeq(<<current>> \o others, 1, Min({MaxPackets, Len(others) + 1}))

Publish(p) ==
  LET items == hook[p].items IN
  /\ At(p, "publishing") /\ publisher' = NoHook /\ staged' = staged \ {p}
  /\ \/ ~Contains(packets, items) /\ packets' = Pruned(items, packets)
     \/ \E i \in DOMAIN packets : packets[i] = items /\ packets' = Pruned(items, RemoveAt(packets, i))
  /\ hook' = [hook EXCEPT ![p] = IF hook[p].kind = "command" THEN Renders(p, items) ELSE [@ EXCEPT !.at = "correcting"]]
  /\ UNCHANGED kept

-----------------------------------------------------------------------------
(* Submission. *)

\* What was asked for replaces what was reserved.
Correct(p) ==
  LET state == [hook[p].state EXCEPT !.requests = @ + hook[p].made] IN
  /\ At(p, "correcting") /\ Writes(p, state)
  /\ hook' = [hook EXCEPT ![p] = [Renders(p, @.items) EXCEPT !.state = state]]
  /\ UNCHANGED <<files, told, locked, calls>>

Renderable(p, i) == Contains(packets, hook[p].items) /\ source[i] = hook[p].items[i]

\* A packet without its required source is blocked.
RenderItem(p) ==
  /\ At(p, "rendering") /\ Required \in DOMAIN hook[p].items
  /\ \E i \in hook[p].todo : Renderable(p, i) /\ hook' = [hook EXCEPT ![p].todo = @ \ {i}]
  /\ UNCHANGED <<files, told, receipt, locked, calls>>

Envelope(p) == Cardinality(DOMAIN hook[p].items)
TooLarge(p) == hook[p].kind # "command" /\ hook[p].state.bytes + Envelope(p) > MaxSubmitted

Incomplete(p) ==
  /\ At(p, "rendering")
  /\ \/ Required \notin DOMAIN hook[p].items
     \/ \E i \in hook[p].todo : ~Renderable(p, i)
     \/ hook[p].todo = {} /\ TooLarge(p)
  /\ Answers(p) /\ UNCHANGED <<files, told, receipt, calls>>

\* The receipt is written before the text leaves the process.
Submit(p) ==
  LET h == hook[p] IN
  /\ At(p, "rendering") /\ Required \in DOMAIN h.items /\ h.todo = {} /\ ~TooLarge(p)
  /\ Held(p)
  /\ IF h.kind = "command" THEN UNCHANGED <<receipt, submitted>>
     ELSE /\ Writes(p, [h.state EXCEPT !.packet = h.items, !.routing = h.routing, !.refresh = FALSE,
                                       !.events = @ + 1, !.bytes = @ + Envelope(p)])
          /\ submitted' = [submitted EXCEPT ![h.session] = @ + 1]
  /\ GoesTo(p, "emitting") /\ UNCHANGED <<files, calls, sent>>

Emit(p) == At(p, "emitting") /\ Answers(p) /\ UNCHANGED <<files, told, receipt, calls>>

-----------------------------------------------------------------------------
\* The host kills a hook at its own deadline, or the machine does.
KillHook(p) ==
  /\ hook[p].at \notin {"rest", "waiting"} /\ Answers(p)
  /\ publisher' = IF publisher = p THEN NoHook ELSE publisher
  /\ UNCHANGED <<source, mode, receipt, packets, staged, calls, sourceEdits, told>>

EditSource ==
  /\ sourceEdits < MaxSourceEdits /\ sourceEdits' = sourceEdits + 1
  /\ \/ \E i \in {Required, Optional}, v \in {0, 1, 2} : v # source[i] /\ source' = [source EXCEPT ![i] = v]
     \/ source' = [source EXCEPT ![Profile] = @ + 1]
  /\ UNCHANGED <<mode, receipt, hook, locked, packets, publisher, staged, calls, told>>

ContextNext ==
  \/ EditSource
  \/ \E p \in Hooks :
       \/ Call(p) \/ TakeLock(p) \/ LockTimeout(p) \/ EndSession(p) \/ Refresh(p) \/ Decline(p) \/ Replay(p)
       \/ Reserve(p) \/ Resolve(p) \/ Scan(p) \/ Score(p) \/ Recheck(p) \/ Assemble(p) \/ Reread(p)
       \/ Stage(p) \/ Publish(p) \/ Correct(p) \/ RenderItem(p) \/ Incomplete(p) \/ Submit(p) \/ Emit(p) \/ KillHook(p)

-----------------------------------------------------------------------------
(* Properties. *)

\* Whatever is killed and however calls of one session overlap, a receipt is
\* charged at least for the requests that left and counts each submission, and
\* neither passes its allowance; the directory holds at most its bound of
\* packets, the newest first, and one staging directory (_packet, _submit,
\* _session_lock, _prune_materializations, _prune_abandoned_temporaries).
Charged ==
  /\ \A s \in Sessions :
       /\ sent[s] <= receipt[s].requests /\ receipt[s].requests <= MaxRequests
       /\ submitted[s] = receipt[s].events /\ receipt[s].events <= MaxEvents /\ receipt[s].bytes <= MaxSubmitted
       /\ submitted[s] > 0 => receipt[s].packet # NoItems
  /\ Len(packets) <= MaxPackets /\ IsInjective(packets) /\ Cardinality(staged) <= 1

\* No text leaves without the required source, nor with a source that was never
\* seen current by this call; the optional one only as the version that was
\* scored, beside the required version read with it (select, _assemble, render).
ScoresFit ==
  [][\A p \in Hooks :
       (hook[p].at = "rendering" /\ hook'[p].at = "emitting") =>
         LET h == hook[p] IN
         /\ Required \in DOMAIN h.items
         /\ h.kind = "compact" => h.items = receipt[h.session].packet
         /\ (h.kind # "compact" /\ Optional \in DOMAIN h.items) =>
              mode = "on" /\ h.relevant /\ h.items = Expected(p)]_contextVars
=============================================================================
