----------------------------- MODULE ApiDispatch -----------------------------
(* What surrounds an operation in the API: the audit event that admits it    *)
(* and the one that ends it, both appended to the project's hash chain, and  *)
(* the wake of the clients that wait for changes. The operation commits in   *)
(* the worker; what fails after that fails the request and not the write.    *)
EXTENDS Naturals, FiniteSets, Sequences

CONSTANTS Operations,  \* requests that write
          Polls,       \* long polls for changes
          MaxBreaks    \* bound: failures of the audit store, the worker's answer or the control plane

ASSUME DispatchAssumption ==
  Operations \subseteq Nat \ {0} /\ Polls \subseteq Nat \ {0} /\ MaxBreaks \in Nat

VARIABLES
  trail,    \* audit_events of the project, in the order of append_sequence
  ops,      \* where each operation is
  data,     \* operations whose write is committed, external
  sender,   \* the project's watch channel: its number, its value
  polls,    \* the long polls
  breaks

dispatchVars == <<trail, ops, data, sender, polls, breaks>>

NoHead == 0
NoOp == [step |-> "new", event |-> "requested", head |-> NoHead, result |-> "none"]
NoPoll == [step |-> "new", channel |-> 0, value |-> 0, seen |-> {}]

DispatchInit ==
  /\ trail = <<>> /\ data = {} /\ breaks = 0
  /\ ops = [o \in Operations |-> NoOp] /\ polls = [p \in Polls |-> NoPoll]
  /\ sender = [channel |-> 0, value |-> 0]

Break == breaks < MaxBreaks /\ breaks' = breaks + 1

\* stream_lock_key: one transaction at a time appends to the stream.
StreamLocked == \E o \in Operations : ops[o].step \in {"locked", "built"}

\* append: the lock is a statement of its own, before the head is read.
LockStream(o) ==
  /\ ops[o].step \in {"new", "ending"} /\ ~StreamLocked
  /\ ops' = [ops EXCEPT ![o].step = "locked"]
  /\ UNCHANGED <<trail, data, sender, polls, breaks>>

\* Mutant: the head is read before the lock is held.
HeadUnlocked(o) ==
  /\ ops[o].step \in {"new", "ending"}
  /\ ops' = [ops EXCEPT ![o].step = "built", ![o].head = Len(trail)]
  /\ UNCHANGED <<trail, data, sender, polls, breaks>>

\* The newest event of the stream; build_event hashes it into the new one.
ReadHead(o) ==
  /\ ops[o].step = "locked"
  /\ ops' = [ops EXCEPT ![o].step = "built", ![o].head = Len(trail)]
  /\ UNCHANGED <<trail, data, sender, polls, breaks>>

AfterAppend(o) == IF ops[o].event = "requested" THEN "admitted" ELSE "answering"

\* The event is inserted and the transaction commits.
InsertEvent(o) ==
  /\ ops[o].step = "built"
  /\ trail' = Append(trail, [op |-> o, event |-> ops[o].event, prev |-> ops[o].head])
  /\ ops' = [ops EXCEPT ![o].step = AfterAppend(o)]
  /\ UNCHANGED <<data, sender, polls, breaks>>

\* Mutant: an operation goes on without its first event.
AfterFailureLenient(o) == IF ops[o].event = "requested" THEN "admitted" ELSE "answering"

\* The first event must be stored; the last is best effort.
AfterFailure(o) == IF ops[o].event = "requested" THEN "refused" ELSE "answering"

\* append fails: with the event stored when only the answer to the commit is lost.
AppendFails(o, stored) ==
  /\ ops[o].step = "built" /\ Break
  /\ trail' = IF stored THEN Append(trail, [op |-> o, event |-> ops[o].event, prev |-> ops[o].head])
                        ELSE trail
  /\ ops' = [ops EXCEPT ![o].step = AfterFailure(o)]
  /\ UNCHANGED <<data, sender, polls>>

Ending(o, result) == [ops EXCEPT ![o].step = "ending", ![o].event = "ended", ![o].result = result]

\* The executor answers with a result.
ExecuteCommits(o) ==
  /\ ops[o].step = "admitted"
  /\ data' = data \cup {o} /\ ops' = Ending(o, "success")
  /\ UNCHANGED <<trail, sender, polls, breaks>>

\* The worker rejects the operation.
ExecuteRejects(o) ==
  /\ ops[o].step = "admitted" /\ ops' = Ending(o, "denied")
  /\ UNCHANGED <<trail, data, sender, polls, breaks>>

\* The worker's answer is lost, or metering, the restore's check or
\* persist_control_plane_result fails after the write committed.
ExecuteBreaks(o, committed) ==
  /\ ops[o].step = "admitted" /\ Break
  /\ data' = IF committed THEN data \cup {o} ELSE data
  /\ ops' = Ending(o, "failure")
  /\ UNCHANGED <<trail, sender, polls>>

Receivers(c) == {p \in Polls : polls[p].channel = c /\ polls[p].step # "done"}

\* notify: the value of the project's channel moves on.
Notified == [sender EXCEPT !.value = IF sender.channel = 0 THEN @ ELSE @ + 1]

\* The answer: operation_wakes_sync held for the operation, and it succeeded.
AnswerOperation(o) ==
  /\ ops[o].step = "answering"
  /\ ops' = [ops EXCEPT ![o].step = "done"]
  /\ sender' = IF ops[o].result = "success" THEN Notified ELSE sender
  /\ UNCHANGED <<trail, data, polls, breaks>>

\* Mutant: every poll gets a channel of its own.
ChannelFresh == [channel |-> sender.channel + 1, value |-> 0]

\* subscribe: channels nobody listens to are dropped, others are shared.
ChannelFor ==
  IF sender.channel # 0 /\ Receivers(sender.channel) # {} THEN sender
  ELSE [channel |-> sender.channel + 1, value |-> 0]

\* The client's cursor is where an earlier answer left it.
Subscribe(p, cursor) ==
  /\ polls[p].step = "new"
  /\ sender' = ChannelFor
  /\ polls' = [polls EXCEPT ![p] = [step |-> "pulling", channel |-> ChannelFor.channel,
                                    value |-> ChannelFor.value, seen |-> cursor]]
  /\ UNCHANGED <<trail, ops, data, breaks>>

\* sync_pull: a pull that finds something answers, an idle one waits.
PullOnce(p) ==
  /\ polls[p].step = "pulling"
  /\ polls' = [polls EXCEPT ![p].step = IF data = polls[p].seen THEN "waiting" ELSE "done", ![p].seen = data]
  /\ UNCHANGED <<trail, ops, data, sender, breaks>>

Ready(p) == sender.channel = polls[p].channel /\ sender.value # polls[p].value

\* changed() is ready: the poll pulls again and answers.
Woken(p) ==
  /\ polls[p].step = "waiting" /\ Ready(p)
  /\ polls' = [polls EXCEPT ![p].step = "done", ![p].seen = data]
  /\ UNCHANGED <<trail, ops, data, sender, breaks>>

\* The wait is over, or the client went away; the client polls again.
WaitEnds(p) ==
  /\ polls[p].step = "waiting"
  /\ polls' = [polls EXCEPT ![p] = [NoPoll EXCEPT !.step = "done"]]
  /\ UNCHANGED <<trail, ops, data, sender, breaks>>

AuditStep(o) == LockStream(o) \/ ReadHead(o) \/ InsertEvent(o) \/ \E stored \in BOOLEAN : AppendFails(o, stored)
ExecuteStep(o) == ExecuteCommits(o) \/ ExecuteRejects(o) \/ \E committed \in BOOLEAN : ExecuteBreaks(o, committed)

DispatchNext ==
  \/ \E o \in Operations : AuditStep(o) \/ ExecuteStep(o) \/ AnswerOperation(o)
  \/ \E p \in Polls : (\E cursor \in {{}, data} : Subscribe(p, cursor)) \/ PullOnce(p) \/ Woken(p) \/ WaitEnds(p)

DispatchSpec == DispatchInit /\ [][DispatchNext]_dispatchVars

-----------------------------------------------------------------------------
DispatchTypeOK ==
  /\ \A i \in DOMAIN trail : /\ trail[i].op \in Operations /\ trail[i].prev \in 0..Len(trail)
                             /\ trail[i].event \in {"requested", "ended"}
  /\ \A o \in Operations :
       /\ ops[o].step \in {"new", "locked", "built", "refused", "admitted", "ending", "answering", "done"}
       /\ ops[o].result \in {"none", "success", "denied", "failure"}
  /\ \A p \in Polls : polls[p].step \in {"new", "pulling", "waiting", "done"} /\ polls[p].seen \subseteq data
  /\ data \subseteq Operations /\ breaks \in 0..MaxBreaks

\* Every event carries the hash of the one before it in the stream, so the
\* stream verifies (PgAuditSink::append, verify).
ChainLinear == \A i \in DOMAIN trail : trail[i].prev = i - 1

\* No write is in the database without the event that admitted it being in
\* the trail (dispatch, append_audit); the event that ends it may be missing.
WritesAudited ==
  \A o \in data : \E i \in DOMAIN trail : trail[i] = [trail[i] EXCEPT !.op = o, !.event = "requested"]

\* A poll that found nothing is woken by every write that was answered with
\* success since: one that waits while a finished operation's write is
\* missing from its answer has its wake pending.
WakesNotMissed ==
  \A p \in Polls : \A o \in data \ polls[p].seen :
    polls[p].step = "waiting" /\ ops[o].step = "done" /\ ops[o].result = "success" => Ready(p)

\* The comment at the long poll as it reads: a write that races with the pull
\* is observed, or the poll is woken. It is not when the request failed after
\* its write had committed.
WritesWake ==
  \A p \in Polls : \A o \in data \ polls[p].seen : polls[p].step = "waiting" /\ ops[o].step = "done" => Ready(p)

\* The audit trail is one chain, no write is in the database without the
\* event that admitted it, and a poll that found nothing is woken by every
\* write answered since (append, dispatch, the long poll of sync).
DispatchSound == DispatchTypeOK /\ ChainLinear /\ WritesAudited /\ WakesNotMissed
===============================================================================
