---------------------------- MODULE ServiceProofs ----------------------------
(* What holds of the services around a project database, for any number of   *)
(* requests, polls, workers and backups: the API's dispatch with its audit   *)
(* chain and its wakes, the encrypted backup files, the restores and writes  *)
(* under idempotency keys, the rate limits, and the delivery of email.       *)
EXTENDS ApiDispatch, RateLimits, BackupFiles, RestoreOperations, EmailOutbox, FiniteSetTheorems, SequenceTheorems, TLAPS

-----------------------------------------------------------------------------
(* The API's dispatch. One append at a time runs between its lock and its    *)
(* insert, so the head it has read is still the newest event; and the polls  *)
(* that are not answered all listen to the channel that is notified.         *)

EventRow == [op : Operations, event : {"requested", "ended"}, prev : Nat]
OpRow == [step : {"new", "locked", "built", "refused", "admitted", "ending", "answering", "done"},
          event : {"requested", "ended"}, head : Nat, result : {"none", "success", "denied", "failure"}]
PollRow == [step : {"new", "pulling", "waiting", "done"}, channel : Nat, value : Nat, seen : SUBSET Operations]

DispatchTyped ==
  /\ trail \in Seq(EventRow) /\ ops \in [Operations -> OpRow] /\ polls \in [Polls -> PollRow]
  /\ data \subseteq Operations /\ breaks \in 0..MaxBreaks
  /\ sender \in [channel : Nat, value : Nat]

Appending(o) == ops[o].step \in {"locked", "built"}
Audited(o) == \E i \in DOMAIN trail : trail[i].op = o /\ trail[i].event = "requested"

OneAppends ==
  /\ \A o, q \in Operations : Appending(o) /\ Appending(q) => o = q
  /\ \A o \in Operations : ops[o].step = "built" => ops[o].head = Len(trail)
  /\ \A i \in DOMAIN trail : trail[i].prev = i - 1

AdmittedAudited ==
  /\ \A o \in Operations : ops[o].step = "admitted" \/ ops[o].event = "ended" => Audited(o)
  /\ \A o \in data : ops[o].event = "ended"
  /\ \A o \in Operations : ops[o].event = "ended" => ops[o].step \notin {"new", "admitted"}

Listening(p) == polls[p].step \in {"pulling", "waiting"}
PollsListen ==
  /\ \A p \in Polls : /\ polls[p].seen \subseteq data
                      /\ polls[p].step = "new" => polls[p].channel = 0
                      /\ Listening(p) => /\ sender.channel # 0 /\ polls[p].channel = sender.channel
                                         /\ polls[p].value <= sender.value
  /\ \A p \in Polls : \A o \in data \ polls[p].seen :
       polls[p].step = "waiting" /\ ops[o].step = "done" /\ ops[o].result = "success"
         => polls[p].value < sender.value

DispatchInvariant == DispatchTyped /\ OneAppends /\ AdmittedAudited /\ PollsListen

\* What appending to a sequence does.
LEMMA AppendFacts ==
  ASSUME NEW S, NEW s \in Seq(S), NEW e \in S, NEW t, t = Append(s, e)
  PROVE  /\ t \in Seq(S) /\ Len(t) = Len(s) + 1 /\ DOMAIN t = 1..(Len(s) + 1) /\ DOMAIN s = 1..Len(s)
         /\ Len(s) \in Nat /\ (\A i \in 1..Len(s) : t[i] = s[i]) /\ t[Len(s) + 1] = e
OBVIOUS

\* An operation changes its step; the audit and the polls look at the others.
LEMMA OpFacts ==
  ASSUME ops \in [Operations -> OpRow], NEW o \in Operations,
         NEW step \in {"new", "locked", "built", "refused", "admitted", "ending", "answering", "done"},
         ops' = [ops EXCEPT ![o].step = step]
  PROVE  /\ ops' \in [Operations -> OpRow] /\ \A q \in Operations : q # o => ops'[q] = ops[q]
         /\ ops'[o].step = step /\ ops'[o].event = ops[o].event /\ ops'[o].head = ops[o].head
         /\ ops'[o].result = ops[o].result
BY DEF OpRow

\* Taking the stream lock and reading the head of the chain append nothing.
LEMMA AuditLockSteps ==
  ASSUME DispatchInvariant, NEW o \in Operations, LockStream(o) \/ ReadHead(o)
  PROVE  DispatchInvariant'
<1>0. DispatchTyped /\ OneAppends /\ AdmittedAudited /\ PollsListen /\ ops[o] \in OpRow
  BY DEF DispatchInvariant, DispatchTyped
<1>1. UNCHANGED <<trail, data, sender, polls, breaks>>
  BY DEF LockStream, ReadHead
<1>2. /\ ops' \in [Operations -> OpRow] /\ \A q \in Operations : q # o => ops'[q] = ops[q]
      /\ ops'[o].step \in {"locked", "built"} /\ ops[o].step \in {"new", "ending", "locked"}
      /\ ops'[o].step = "built" => ops'[o].head = Len(trail)
      /\ ops'[o].event = ops[o].event /\ ops'[o].result = ops[o].result
      /\ ~ Appending(o) => \A q \in Operations : ~ Appending(q)
  <2>1. CASE LockStream(o)
    BY <1>0, <2>1, OpFacts DEF LockStream, StreamLocked, Appending, DispatchTyped
  <2>2. CASE ReadHead(o)
    <3>1. Len(trail) \in Nat
      BY <1>0 DEF DispatchTyped
    <3>2. PICK n \in Nat : n = Len(trail)
      BY <3>1
    <3>3. ops' = [ops EXCEPT ![o].step = "built", ![o].head = n] /\ ops[o].step = "locked"
      BY <2>2, <3>2 DEF ReadHead
    <3> QED
      BY <1>0, <3>2, <3>3 DEF DispatchTyped, OpRow, Appending
  <2> QED
    BY <2>1, <2>2
<1>3. DispatchTyped'
  BY <1>0, <1>1, <1>2 DEF DispatchTyped
<1>4. OneAppends'
  BY <1>0, <1>1, <1>2 DEF OneAppends, Appending
<1>5. AdmittedAudited'
  <2>1. \A q \in Operations : /\ (Audited(q)' <=> Audited(q)) /\ ops'[q].event = ops[q].event
                              /\ ops'[q].step = "admitted" => ops[q].step = "admitted"
    BY <1>1, <1>2 DEF Audited
  <2>2. \A q \in Operations : ops'[q].step = "new" => ops[q].step = "new"
    BY <1>2
  <2>3. data \subseteq Operations
    BY <1>0 DEF DispatchTyped
  <2> QED
    BY <1>0, <1>1, <2>1, <2>2, <2>3 DEF AdmittedAudited
<1>6. PollsListen'
  BY <1>0, <1>1, <1>2 DEF PollsListen, Listening, DispatchTyped
<1> QED
  BY <1>3, <1>4, <1>5, <1>6 DEF DispatchInvariant

\* The event is appended, or not; its operation goes on or ends.
LEMMA AppendSteps ==
  ASSUME DispatchInvariant, NEW o \in Operations,
         InsertEvent(o) \/ \E stored \in BOOLEAN : AppendFails(o, stored)
  PROVE  DispatchInvariant'
<1>0. DispatchTyped /\ OneAppends /\ AdmittedAudited /\ PollsListen /\ ops[o] \in OpRow /\ trail \in Seq(EventRow)
  BY DEF DispatchInvariant, DispatchTyped
<1>1. PICK e : e = [op |-> o, event |-> ops[o].event, prev |-> ops[o].head]
  OBVIOUS
<1>2. e \in EventRow /\ e.op = o /\ e.event = ops[o].event /\ e.prev = ops[o].head
  BY <1>0, <1>1 DEF EventRow, OpRow
<1>3. /\ ops[o].step = "built" /\ UNCHANGED <<data, sender, polls>>
      /\ trail' = Append(trail, e) \/ (trail' = trail /\ ops'[o].step # "admitted")
      /\ breaks' \in 0..MaxBreaks
      /\ ops' \in [Operations -> OpRow] /\ \A q \in Operations : q # o => ops'[q] = ops[q]
      /\ ops'[o].step \in {"admitted", "refused", "answering"} /\ ops'[o].event = ops[o].event
      /\ ops'[o].step = "admitted" => ops[o].event = "requested"
  <2>1. CASE InsertEvent(o)
    <3>1. PICK step : step = AfterAppend(o)
      OBVIOUS
    <3>2. step \in {"admitted", "answering"} /\ (step = "admitted" => ops[o].event = "requested")
      BY <3>1 DEF AfterAppend
    <3>3. ops' = [ops EXCEPT ![o].step = step] /\ ops[o].step = "built" /\ trail' = Append(trail, e)
          /\ UNCHANGED <<data, sender, polls, breaks>>
      BY <1>1, <2>1, <3>1 DEF InsertEvent
    <3> QED
      BY <1>0, <3>2, <3>3, OpFacts DEF DispatchTyped
  <2>2. ASSUME NEW stored \in BOOLEAN, AppendFails(o, stored)
        PROVE  /\ ops[o].step = "built" /\ UNCHANGED <<data, sender, polls>>
               /\ trail' = Append(trail, e) \/ (trail' = trail /\ ops'[o].step # "admitted")
               /\ breaks' \in 0..MaxBreaks
               /\ ops' \in [Operations -> OpRow] /\ \A q \in Operations : q # o => ops'[q] = ops[q]
               /\ ops'[o].step \in {"admitted", "refused", "answering"} /\ ops'[o].event = ops[o].event
               /\ ops'[o].step = "admitted" => ops[o].event = "requested"
    <3>1. PICK step : step = AfterFailure(o)
      OBVIOUS
    <3>2. step \in {"refused", "answering"}
      BY <3>1 DEF AfterFailure
    <3>3. ops' = [ops EXCEPT ![o].step = step] /\ ops[o].step = "built"
          /\ trail' = (IF stored THEN Append(trail, e) ELSE trail)
          /\ UNCHANGED <<data, sender, polls>> /\ breaks < MaxBreaks /\ breaks' = breaks + 1
      BY <1>1, <2>2, <3>1 DEF AppendFails, Break
    <3>4. breaks' \in 0..MaxBreaks
      BY <1>0, <3>3, DispatchAssumption DEF DispatchTyped
    <3>5. /\ ops' \in [Operations -> OpRow] /\ \A q \in Operations : q # o => ops'[q] = ops[q]
          /\ ops'[o].step = step /\ ops'[o].event = ops[o].event
      BY <1>0, <3>2, <3>3, OpFacts DEF DispatchTyped
    <3>6. trail' = Append(trail, e) \/ trail' = trail
      BY <3>3
    <3> QED
      BY <3>2, <3>3, <3>4, <3>5, <3>6
  <2> QED
    BY <2>1, <2>2
<1>4. Appending(o) /\ \A q \in Operations : q # o => ~ Appending(q)
  BY <1>0, <1>3 DEF OneAppends, Appending
<1>5. /\ trail' \in Seq(EventRow) /\ DOMAIN trail \subseteq DOMAIN trail'
      /\ \A i \in DOMAIN trail : trail'[i] = trail[i]
      /\ \A i \in DOMAIN trail' : trail'[i].prev = i - 1
      /\ ops'[o].step = "admitted" => \E i \in DOMAIN trail' : trail'[i].op = o /\ trail'[i].event = "requested"
  <2>1. CASE trail' = trail
    BY <1>0, <1>3, <2>1, AppendFacts, <1>2 DEF OneAppends
  <2>2. CASE trail' = Append(trail, e)
    <3>1. PICK t : t = Append(trail, e)
      OBVIOUS
    <3>2. /\ t \in Seq(EventRow) /\ Len(t) = Len(trail) + 1 /\ DOMAIN t = 1..(Len(trail) + 1)
          /\ DOMAIN trail = 1..Len(trail) /\ Len(trail) \in Nat
          /\ (\A i \in 1..Len(trail) : t[i] = trail[i]) /\ t[Len(trail) + 1] = e
      BY <1>0, <1>2, <3>1, AppendFacts
    <3>3. e.prev = Len(trail)
      BY <1>0, <1>2, <1>3 DEF OneAppends
    <3>4. \A i \in DOMAIN t : t[i].prev = i - 1
      BY <1>0, <3>2, <3>3 DEF OneAppends
    <3>5. ops'[o].step = "admitted" => \E i \in DOMAIN t : t[i].op = o /\ t[i].event = "requested"
      BY <1>2, <1>3, <3>2
    <3> QED
      BY <2>2, <3>1, <3>2, <3>4, <3>5
  <2> QED
    BY <1>3, <2>1, <2>2
<1>6. DispatchTyped'
  BY <1>0, <1>3, <1>5 DEF DispatchTyped
<1>7. OneAppends'
  BY <1>3, <1>4, <1>5 DEF OneAppends, Appending
<1>8. AdmittedAudited'
  <2>1. \A q \in Operations : Audited(q) => Audited(q)'
    BY <1>5 DEF Audited
  <2>2. ops'[o].step = "admitted" => Audited(o)'
    BY <1>5 DEF Audited
  <2> QED
    BY <1>0, <1>3, <2>1, <2>2 DEF AdmittedAudited, DispatchTyped
<1>9. PollsListen'
  BY <1>0, <1>3 DEF PollsListen, Listening, DispatchTyped
<1> QED
  BY <1>6, <1>7, <1>8, <1>9 DEF DispatchInvariant

\* The executor answers: with a write that is committed, or without one.
LEMMA ExecuteSteps ==
  ASSUME DispatchInvariant, NEW o \in Operations, ExecuteStep(o)
  PROVE  DispatchInvariant'
<1>0. DispatchTyped /\ OneAppends /\ AdmittedAudited /\ PollsListen /\ ops[o] \in OpRow
  BY DEF DispatchInvariant, DispatchTyped
<1>1. PICK result \in {"success", "denied", "failure"} :
        /\ ops[o].step = "admitted" /\ ops' = Ending(o, result) /\ UNCHANGED <<trail, sender, polls>>
        /\ data \subseteq data' /\ data' \subseteq data \cup {o} /\ breaks' \in 0..MaxBreaks
  <2>1. ASSUME breaks < MaxBreaks, breaks' = breaks + 1 PROVE breaks' \in 0..MaxBreaks
    BY <1>0, <2>1, DispatchAssumption DEF DispatchTyped
  <2>2. CASE ExecuteCommits(o)
    BY <1>0, <2>2 DEF ExecuteCommits, DispatchTyped
  <2>3. CASE ExecuteRejects(o)
    BY <1>0, <2>3 DEF ExecuteRejects, DispatchTyped
  <2>4. CASE \E committed \in BOOLEAN : ExecuteBreaks(o, committed)
    BY <2>1, <2>4 DEF ExecuteBreaks, Break
  <2> QED
    BY <2>2, <2>3, <2>4 DEF ExecuteStep
<1>2. ops' = [ops EXCEPT ![o].step = "ending", ![o].event = "ended", ![o].result = result]
  BY <1>1 DEF Ending
<1>3. /\ ops' \in [Operations -> OpRow] /\ \A q \in Operations : q # o => ops'[q] = ops[q]
      /\ ops'[o].step = "ending" /\ ops'[o].event = "ended"
  BY <1>0, <1>2 DEF DispatchTyped, OpRow
<1>4. DispatchTyped'
  BY <1>0, <1>1, <1>3 DEF DispatchTyped
<1>5. OneAppends'
  BY <1>0, <1>1, <1>3 DEF OneAppends, Appending
<1>6. AdmittedAudited'
  <2>1. \A q \in Operations : Audited(q)' <=> Audited(q)
    BY <1>1 DEF Audited
  <2>2. data \subseteq Operations
    BY <1>0 DEF DispatchTyped
  <2> QED
    BY <1>0, <1>1, <1>3, <2>1, <2>2 DEF AdmittedAudited
<1>7. PollsListen'
  BY <1>0, <1>1, <1>3 DEF PollsListen, Listening, DispatchTyped
<1> QED
  BY <1>4, <1>5, <1>6, <1>7 DEF DispatchInvariant

\* The answer, and with it the wake.
LEMMA AnswerStep ==
  ASSUME DispatchInvariant, NEW o \in Operations, AnswerOperation(o)
  PROVE  DispatchInvariant'
<1>0. DispatchTyped /\ OneAppends /\ AdmittedAudited /\ PollsListen /\ ops[o] \in OpRow
  BY DEF DispatchInvariant, DispatchTyped
<1>1. /\ ops[o].step = "answering" /\ ops' = [ops EXCEPT ![o].step = "done"]
      /\ sender' = IF ops[o].result = "success" THEN Notified ELSE sender
      /\ UNCHANGED <<trail, data, polls, breaks>>
  BY DEF AnswerOperation
<1>2. /\ ops' \in [Operations -> OpRow] /\ \A q \in Operations : q # o => ops'[q] = ops[q]
      /\ ops'[o].step = "done" /\ ops'[o].event = ops[o].event /\ ops'[o].result = ops[o].result
  BY <1>0, <1>1, OpFacts DEF DispatchTyped
<1>3. /\ sender' \in [channel : Nat, value : Nat] /\ sender'.channel = sender.channel
      /\ sender.value <= sender'.value
      /\ ops[o].result = "success" /\ sender.channel # 0 => sender.value < sender'.value
  <2>1. sender.value \in Nat /\ sender.channel \in Nat
    BY <1>0 DEF DispatchTyped
  <2>2. PICK n \in Nat : n = IF sender.channel = 0 THEN sender.value ELSE sender.value + 1
    BY <2>1
  <2>3. Notified = [sender EXCEPT !.value = n]
    BY <2>2 DEF Notified
  <2>4. Notified \in [channel : Nat, value : Nat] /\ Notified.channel = sender.channel /\ Notified.value = n
    BY <1>0, <2>3 DEF DispatchTyped
  <2> QED
    BY <1>0, <1>1, <2>1, <2>2, <2>4 DEF DispatchTyped
<1>4. DispatchTyped'
  BY <1>0, <1>1, <1>2, <1>3 DEF DispatchTyped
<1>5. OneAppends'
  BY <1>0, <1>1, <1>2 DEF OneAppends, Appending
<1>6. AdmittedAudited'
  BY <1>0, <1>1, <1>2 DEF AdmittedAudited, Audited
<1>7. PollsListen'
  <2>1. \A p \in Polls : polls[p].value \in Nat /\ sender.value \in Nat /\ sender'.value \in Nat
    BY <1>0, <1>3 DEF DispatchTyped, PollRow
  <2>2. ASSUME NEW p \in Polls
        PROVE  /\ polls'[p].seen \subseteq data' /\ (polls'[p].step = "new" => polls'[p].channel = 0)
               /\ Listening(p)' => /\ sender'.channel # 0 /\ polls'[p].channel = sender'.channel
                                   /\ polls'[p].value <= sender'.value
    BY <1>0, <1>1, <1>3, <2>1 DEF PollsListen, Listening
  <2>3. ASSUME NEW p \in Polls, NEW q \in data \ polls[p].seen, polls[p].step = "waiting",
               ops'[q].step = "done", ops'[q].result = "success"
        PROVE  polls[p].value < sender'.value
    <3>0. Listening(p) /\ sender.channel # 0 /\ polls[p].value <= sender.value
      BY <1>0, <2>3 DEF Listening, PollsListen
    <3>1. CASE q = o
      BY <1>2, <1>3, <2>1, <2>3, <3>0, <3>1
    <3>2. CASE q # o
      <4>1. polls[p].value < sender.value
        BY <1>0, <1>2, <2>3, <3>2 DEF PollsListen, DispatchTyped
      <4> QED
        BY <1>3, <2>1, <4>1
    <3> QED
      BY <3>1, <3>2
  <2> QED
    BY <1>1, <2>2, <2>3 DEF PollsListen
<1> QED
  BY <1>4, <1>5, <1>6, <1>7 DEF DispatchInvariant

\* A poll subscribes to the channel that others listen to, or to a new one.
LEMMA SubscribeStep ==
  ASSUME DispatchInvariant, NEW p \in Polls, NEW cursor \in {{}, data}, Subscribe(p, cursor)
  PROVE  DispatchInvariant'
<1>0. DispatchTyped /\ OneAppends /\ AdmittedAudited /\ PollsListen /\ polls \in [Polls -> PollRow]
      /\ sender.channel \in Nat /\ sender.value \in Nat /\ data \subseteq Operations
  BY DEF DispatchInvariant, DispatchTyped
<1>1. PICK channel : channel = ChannelFor
  OBVIOUS
<1>2. PICK row : row = [step |-> "pulling", channel |-> channel.channel, value |-> channel.value, seen |-> cursor]
  OBVIOUS
<1>3. /\ polls[p].step = "new" /\ sender' = channel /\ polls' = [polls EXCEPT ![p] = row]
      /\ UNCHANGED <<trail, ops, data, breaks>>
  BY <1>1, <1>2 DEF Subscribe
<1>4. /\ channel \in [channel : Nat, value : Nat] /\ channel.channel # 0
      /\ channel = sender \/ \A q \in Polls : ~ Listening(q)
  <2>1. CASE sender.channel # 0 /\ Receivers(sender.channel) # {}
    BY <1>0, <1>1, <2>1 DEF ChannelFor, DispatchTyped
  <2>2. CASE ~ (sender.channel # 0 /\ Receivers(sender.channel) # {})
    <3>1. channel = [channel |-> sender.channel + 1, value |-> 0]
      BY <1>1, <2>2 DEF ChannelFor
    <3>2. channel \in [channel : Nat, value : Nat] /\ channel.channel # 0
      BY <1>0, <3>1
    <3>3. ASSUME NEW q \in Polls, Listening(q) PROVE FALSE
      <4>1. sender.channel # 0 /\ polls[q].channel = sender.channel /\ polls[q].step # "done"
        BY <1>0, <3>3 DEF PollsListen, Listening
      <4> QED
        BY <2>2, <4>1 DEF Receivers
    <3> QED
      BY <3>2, <3>3
  <2> QED
    BY <2>1, <2>2
<1>5. row \in PollRow /\ row.step = "pulling" /\ row.channel = channel.channel /\ row.value = channel.value
      /\ row.seen = cursor
  BY <1>0, <1>2, <1>4 DEF PollRow
<1>6. polls' \in [Polls -> PollRow] /\ polls'[p] = row /\ \A q \in Polls : q # p => polls'[q] = polls[q]
  BY <1>0, <1>3, <1>5
<1>7. DispatchTyped'
  BY <1>0, <1>3, <1>4, <1>6 DEF DispatchTyped
<1>8. OneAppends' /\ AdmittedAudited'
  BY <1>0, <1>3 DEF OneAppends, Appending, AdmittedAudited, Audited
<1>9. PollsListen'
  <2>1. ASSUME NEW q \in Polls
        PROVE  /\ polls'[q].seen \subseteq data' /\ (polls'[q].step = "new" => polls'[q].channel = 0)
               /\ Listening(q)' => /\ sender'.channel # 0 /\ polls'[q].channel = sender'.channel
                                   /\ polls'[q].value <= sender'.value
    <3>1. CASE q = p
      BY <1>3, <1>4, <1>5, <1>6, <3>1
    <3>2. CASE q # p
      BY <1>0, <1>3, <1>4, <1>6, <3>2 DEF PollsListen, Listening
    <3> QED
      BY <3>1, <3>2
  <2>2. ASSUME NEW q \in Polls, NEW o \in data \ polls'[q].seen, polls'[q].step = "waiting",
               ops[o].step = "done", ops[o].result = "success"
        PROVE  polls'[q].value < sender'.value
    <3>1. q # p /\ polls'[q] = polls[q] /\ Listening(q)
      BY <1>5, <1>6, <2>2 DEF Listening
    <3> QED
      BY <1>0, <1>3, <1>4, <2>2, <3>1 DEF PollsListen
  <2> QED
    BY <1>3, <2>1, <2>2 DEF PollsListen
<1> QED
  BY <1>7, <1>8, <1>9 DEF DispatchInvariant

\* The other steps of a poll change its row only.
LEMMA PollSteps ==
  ASSUME DispatchInvariant, NEW p \in Polls, PullOnce(p) \/ Woken(p) \/ WaitEnds(p)
  PROVE  DispatchInvariant'
<1>0. DispatchTyped /\ OneAppends /\ AdmittedAudited /\ PollsListen /\ polls \in [Polls -> PollRow]
      /\ data \subseteq Operations
  BY DEF DispatchInvariant, DispatchTyped
<1>1. UNCHANGED <<trail, ops, data, sender, breaks>>
  BY DEF PullOnce, Woken, WaitEnds
<1>2. /\ polls' \in [Polls -> PollRow] /\ \A q \in Polls : q # p => polls'[q] = polls[q]
      /\ \/ Listening(p) /\ polls'[p].step \in {"waiting", "done"} /\ polls'[p].seen = data
            /\ polls'[p].channel = polls[p].channel /\ polls'[p].value = polls[p].value
         \/ polls'[p].step = "done" /\ polls'[p].seen = {}
  <2>1. CASE PullOnce(p)
    <3>1. PICK step : step = IF data = polls[p].seen THEN "waiting" ELSE "done"
      OBVIOUS
    <3>2. polls' = [polls EXCEPT ![p].step = step, ![p].seen = data] /\ step \in {"waiting", "done"}
          /\ polls[p].step = "pulling"
      BY <2>1, <3>1 DEF PullOnce
    <3> QED
      BY <1>0, <3>2 DEF PollRow, Listening
  <2>2. CASE Woken(p)
    <3>1. polls' = [polls EXCEPT ![p].step = "done", ![p].seen = data] /\ polls[p].step = "waiting"
      BY <2>2 DEF Woken
    <3> QED
      BY <1>0, <3>1 DEF PollRow, Listening
  <2>3. CASE WaitEnds(p)
    <3>1. PICK none : none = NoPoll
      OBVIOUS
    <3>2. none \in PollRow /\ none.seen = {}
      BY <3>1 DEF NoPoll, PollRow
    <3>3. PICK row : row = [none EXCEPT !.step = "done"]
      OBVIOUS
    <3>4. row \in PollRow /\ row.step = "done" /\ row.seen = {}
      BY <3>2, <3>3 DEF PollRow
    <3>5. polls' = [polls EXCEPT ![p] = row]
      BY <2>3, <3>1, <3>3 DEF WaitEnds
    <3> QED
      BY <1>0, <3>4, <3>5
  <2> QED
    BY <2>1, <2>2, <2>3
<1>3. DispatchTyped'
  BY <1>0, <1>1, <1>2 DEF DispatchTyped
<1>4. OneAppends' /\ AdmittedAudited'
  BY <1>0, <1>1 DEF OneAppends, Appending, AdmittedAudited, Audited
<1>5. PollsListen'
  BY <1>0, <1>1, <1>2 DEF PollsListen, Listening
<1> QED
  BY <1>3, <1>4, <1>5 DEF DispatchInvariant

\* However the appends of concurrent requests, their failures, the commits of
\* their writes and the polls interleave: the trail is one chain, no write is
\* in the database without the event that admitted it, and a poll that found
\* nothing is woken by every write that is answered with success
\* (append, dispatch, the long poll of sync).
THEOREM DispatchHolds == DispatchSpec => []DispatchSound
<1>1. DispatchInit => DispatchInvariant
  <2> SUFFICES ASSUME DispatchInit PROVE DispatchInvariant
    OBVIOUS
  <2>1. NoOp \in OpRow /\ NoOp.step = "new" /\ NoOp.event = "requested"
    BY DEF NoOp, OpRow, NoHead
  <2>2. NoPoll \in PollRow /\ NoPoll.step = "new" /\ NoPoll.channel = 0 /\ NoPoll.seen = {}
    BY DEF NoPoll, PollRow
  <2>3. DispatchTyped
    BY <2>1, <2>2, DispatchAssumption DEF DispatchInit, DispatchTyped
  <2>4. OneAppends /\ AdmittedAudited /\ PollsListen
    BY <2>1, <2>2 DEF DispatchInit, OneAppends, Appending, AdmittedAudited, PollsListen, Listening
  <2> QED
    BY <2>3, <2>4 DEF DispatchInvariant
<1>2. DispatchInvariant /\ [DispatchNext]_dispatchVars => DispatchInvariant'
  <2> SUFFICES ASSUME DispatchInvariant, [DispatchNext]_dispatchVars PROVE DispatchInvariant'
    OBVIOUS
  <2>1. CASE UNCHANGED dispatchVars
    BY <2>1 DEF dispatchVars, DispatchInvariant, DispatchTyped, OneAppends, Appending, AdmittedAudited, Audited,
                PollsListen, Listening
  <2>2. CASE DispatchNext
    BY <2>2, AuditLockSteps, AppendSteps, ExecuteSteps, AnswerStep, SubscribeStep, PollSteps DEF DispatchNext, AuditStep
  <2> QED
    BY <2>1, <2>2
<1>3. DispatchInvariant => DispatchSound
  <2> SUFFICES ASSUME DispatchInvariant PROVE DispatchSound
    OBVIOUS
  <2>0. DispatchTyped /\ OneAppends /\ AdmittedAudited /\ PollsListen
    BY DEF DispatchInvariant
  <2>1. DOMAIN trail = 1..Len(trail) /\ Len(trail) \in Nat /\ \A i \in DOMAIN trail : trail[i] \in EventRow
    BY <2>0 DEF DispatchTyped
  <2>2. DispatchTypeOK
    <3>1. \A i \in DOMAIN trail : /\ trail[i].op \in Operations /\ trail[i].prev \in 0..Len(trail)
                                  /\ trail[i].event \in {"requested", "ended"}
      BY <2>0, <2>1 DEF OneAppends, EventRow
    <3>2. \A o \in Operations :
            /\ ops[o].step \in {"new", "locked", "built", "refused", "admitted", "ending", "answering", "done"}
            /\ ops[o].result \in {"none", "success", "denied", "failure"}
      BY <2>0 DEF DispatchTyped, OpRow
    <3>3. \A p \in Polls : polls[p].step \in {"new", "pulling", "waiting", "done"} /\ polls[p].seen \subseteq data
      BY <2>0 DEF DispatchTyped, PollRow, PollsListen
    <3> QED
      BY <2>0, <3>1, <3>2, <3>3 DEF DispatchTypeOK, DispatchTyped
  <2>3. WritesAudited
    <3> SUFFICES ASSUME NEW o \in data
                 PROVE  \E i \in DOMAIN trail : trail[i] = [trail[i] EXCEPT !.op = o, !.event = "requested"]
      BY DEF WritesAudited
    <3>1. PICK i \in DOMAIN trail : trail[i].op = o /\ trail[i].event = "requested"
      BY <2>0 DEF AdmittedAudited, Audited, DispatchTyped
    <3>2. PICK e \in EventRow : e = trail[i]
      BY <2>1
    <3>3. e = [e EXCEPT !.op = o, !.event = "requested"]
      BY <3>1, <3>2 DEF EventRow
    <3> QED
      BY <3>2, <3>3
  <2>4. WakesNotMissed
    <3> SUFFICES ASSUME NEW p \in Polls, NEW o \in data \ polls[p].seen,
                        polls[p].step = "waiting", ops[o].step = "done", ops[o].result = "success"
                 PROVE  Ready(p)
      BY DEF WakesNotMissed
    <3>1. polls[p].value \in Nat /\ sender.value \in Nat
      BY <2>0 DEF DispatchTyped, PollRow
    <3> QED
      BY <2>0, <3>1 DEF PollsListen, Listening, Ready
  <2> QED
    BY <2>0, <2>2, <2>3, <2>4 DEF DispatchSound, ChainLinear, OneAppends
<1> QED
  BY <1>1, <1>2, <1>3, PTL DEF DispatchSpec

-----------------------------------------------------------------------------
(* Encrypted backup files. Whatever happens to a file at rest, the chunks in *)
(* it that still open were sealed together, from one content that was backed *)
(* up; a restore that has opened chunk after chunk therefore has that        *)
(* content's beginning, and the final flag says where it ends.               *)

Chunk == [key : Names, body : Nat, counter : Nat, final : {"last", "more"}, flag : {"last", "more"},
          intact : {"yes", "no"}]
FileRow == [header : {"none", "ok", "damaged"}, chunks : Seq(Chunk)]
JobRow == [stage : Stages, name : BackupIds \cup {"none"}, image : Seq(Nat), file : FileRow]

\* A chunk that was sealed as a part of a content under a name.
Fits(c, m, content) ==
  /\ c.key = m /\ c.counter \in DOMAIN content /\ c.body = content[c.counter]
  /\ c.final = IF c.counter = Len(content) THEN "last" ELSE "more"

\* All chunks of a file were sealed together, from a content that was taken.
Genuine(f, T) ==
  \E m \in BackupIds : \E content \in T[m] : \A i \in DOMAIN f.chunks : Fits(f.chunks[i], m, content)

\* What a worker has at each stage of its work.
Encrypts(j) ==
  /\ j.stage \in {"copied", "encrypting", "encrypted"} => j.image \in Contents
  /\ j.stage \in {"encrypting", "encrypted"} =>
       \A i \in DOMAIN j.file.chunks :
         i \in DOMAIN j.image
         /\ j.file.chunks[i] = Seal(j.name, j.image[i], i, IF i = Len(j.image) THEN "last" ELSE "more")
  /\ j.stage = "encrypting" => Len(j.file.chunks) < Len(j.image)
Decrypts(j, T) ==
  /\ j.stage = "decrypting" =>
       /\ Genuine(j.file, T)
       /\ \A i \in DOMAIN j.image : i \in DOMAIN j.file.chunks /\ Opens(j.file.chunks[i], j.name, i)
                                    /\ j.image[i] = j.file.chunks[i].body
  /\ j.stage \in {"decrypted", "prepared", "saved", "restored"} => j.image \in T[j.name]
WorkFits(j, T) ==
  /\ j.stage \notin {"idle", "down"} => j.name \in BackupIds
  /\ Encrypts(j) /\ Decrypts(j, T)

FilesGenuine(F, T) == \A b \in BackupIds : F[b] # NoFile => Genuine(F[b], T)

BackupTyped ==
  /\ live \in Contents /\ transient \subseteq BackupWorkers
  /\ harm \in 0..MaxHarm /\ writes \in 0..MaxWrites
  /\ job \in [BackupWorkers -> JobRow] /\ files \in [Names -> FileRow] /\ taken \in [Names -> SUBSET Contents]

BackupInvariant ==
  /\ BackupTyped /\ RecoveryKept /\ PlaintextRemoved /\ FilesGenuine(files, taken)
  /\ \A w \in BackupWorkers : WorkFits(job[w], taken)

\* The names of finished backups and of files in work are different.
LEMMA NamesApart ==
  /\ \A b \in BackupIds : b \in Names /\ b \notin BackupWorkers
  /\ \A w \in BackupWorkers : w \in Names /\ w \notin BackupIds
BY BackupAssumption DEF Names

\* A database image is a nonempty sequence of pages.
LEMMA ContentFacts ==
  ASSUME NEW c \in Contents
  PROVE  c \in Seq(Nat) /\ Len(c) \in Nat /\ Len(c) # 0 /\ DOMAIN c = 1..Len(c) /\ \A i \in 1..Len(c) : c[i] \in Nat
BY BackupAssumption

\* More was backed up: what fitted fits.
LEMMA GenuineGrows ==
  ASSUME NEW T, NEW U, \A m \in BackupIds : T[m] \subseteq U[m], NEW f, Genuine(f, T)
  PROVE  Genuine(f, U)
BY DEF Genuine

\* The work of a job fits a larger set of backups as it fitted the smaller one.
LEMMA WorkGrows ==
  ASSUME NEW T, NEW U, \A m \in BackupIds : T[m] \subseteq U[m], NEW j, WorkFits(j, T)
  PROVE  WorkFits(j, U)
BY GenuineGrows DEF WorkFits, Decrypts

\* The parts of a sealed chunk.
LEMMA SealFacts ==
  ASSUME NEW name \in Names, NEW body \in Nat, NEW counter \in Nat, NEW final \in {"last", "more"}
  PROVE  /\ Seal(name, body, counter, final) \in Chunk /\ Seal(name, body, counter, final).key = name
         /\ Seal(name, body, counter, final).body = body /\ Seal(name, body, counter, final).counter = counter
         /\ Seal(name, body, counter, final).final = final
BY DEF Seal, Chunk

\* The step of one worker.
LEMMA StepOfWorker ==
  ASSUME BackupInvariant, NEW w \in BackupWorkers, NEW j \in JobRow, job' = [job EXCEPT ![w] = j],
         live' \in Contents, transient' \subseteq BackupWorkers, harm' \in 0..MaxHarm, writes' = writes,
         files' \in [Names -> FileRow], taken' \in [Names -> SUBSET Contents],
         \A m \in BackupIds : taken[m] \subseteq taken'[m],
         transient' \subseteq transient \cup {w}, j.stage = "idle" => w \notin transient',
         FilesGenuine(files', taken'), RecoveryKept', WorkFits(j, taken')
  PROVE  BackupInvariant'
<1>1. job' \in [BackupWorkers -> JobRow] /\ job'[w] = j /\ \A v \in BackupWorkers : v # w => job'[v] = job[v]
  BY DEF BackupInvariant, BackupTyped
<1>2. BackupTyped'
  BY <1>1 DEF BackupInvariant, BackupTyped
<1>3. PlaintextRemoved'
  BY <1>1 DEF BackupInvariant, PlaintextRemoved
<1>4. ASSUME NEW v \in BackupWorkers PROVE WorkFits(job'[v], taken')
  <2>1. CASE v = w
    BY <1>1, <2>1
  <2>2. CASE v # w
    BY <1>1, <2>2, WorkGrows DEF BackupInvariant
  <2> QED
    BY <2>1, <2>2
<1> QED
  BY <1>2, <1>3, <1>4 DEF BackupInvariant

\* An absent file, an idle worker and a worker that is down fit any set of backups.
LEMMA IdleJobs ==
  /\ NoFile \in FileRow /\ NoFile.chunks = <<>>
  /\ NoJob \in JobRow /\ NoJob.stage = "idle" /\ NoJob.image = <<>> /\ NoJob.file = NoFile
  /\ Down \in JobRow /\ Down.stage = "down" /\ \A T : WorkFits(NoJob, T) /\ WorkFits(Down, T)
<1>0. <<>> \in Seq(Chunk) /\ <<>> \in Seq(Nat)
  OBVIOUS
<1>1. NoFile \in FileRow /\ NoFile.chunks = <<>>
  BY <1>0 DEF NoFile, FileRow
<1>2. PICK none : none = NoJob
  OBVIOUS
<1>3. none \in JobRow /\ none.stage = "idle" /\ none.image = <<>> /\ none.file = NoFile
  BY <1>0, <1>1, <1>2 DEF NoJob, JobRow, Stages
<1>4. PICK down : down = [none EXCEPT !.stage = "down"]
  OBVIOUS
<1>5. down \in JobRow /\ down.stage = "down"
  BY <1>3, <1>4 DEF JobRow, Stages
<1>6. Down = down
  BY <1>2, <1>4 DEF Down
<1>7. \A T : WorkFits(none, T) /\ WorkFits(down, T)
  BY <1>3, <1>5 DEF WorkFits, Encrypts, Decrypts
<1> QED
  BY <1>1, <1>2, <1>3, <1>5, <1>6, <1>7

\* A worker takes a copy of the database, and opens it.
LEMMA BackupSteps ==
  ASSUME BackupInvariant, NEW w \in BackupWorkers,
         (\E b \in BackupIds : BeginBackup(w, b)) \/ OpenImage(w)
  PROVE  BackupInvariant'
<1>0. BackupTyped /\ WorkFits(job[w], taken) /\ job[w] \in JobRow
  BY DEF BackupInvariant, BackupTyped
<1>1. UNCHANGED <<live, files, taken, harm, writes>>
  BY DEF BeginBackup, OpenImage
<1>2. RecoveryKept' /\ FilesGenuine(files', taken')
  BY <1>1 DEF BackupInvariant, RecoveryKept
<1>3. ASSUME NEW b \in BackupIds, BeginBackup(w, b) PROVE BackupInvariant'
  <2>1. PICK none \in JobRow : none = NoJob
    BY IdleJobs
  <2>2. live \in Seq(Nat)
    BY <1>0, ContentFacts DEF BackupTyped
  <2>3. PICK j : j = [none EXCEPT !.stage = "copied", !.name = b, !.image = live]
    OBVIOUS
  <2>4. j \in JobRow /\ j.stage = "copied" /\ j.name = b /\ j.image = live
    BY <2>2, <2>3 DEF JobRow, Stages
  <2>5. job' = [job EXCEPT ![w] = j] /\ transient' = transient \cup {w}
    BY <1>3, <2>1, <2>3 DEF BeginBackup
  <2>6. WorkFits(j, taken')
    BY <1>0, <2>4 DEF WorkFits, Encrypts, Decrypts, BackupTyped
  <2> QED
    BY <1>0, <1>1, <1>2, <2>4, <2>5, <2>6, StepOfWorker DEF BackupTyped
<1>4. CASE OpenImage(w)
  <2>1. PICK r \in JobRow : r = job[w]
    BY <1>0
  <2>2. PICK f : f = [header |-> "ok", chunks |-> <<>>]
    OBVIOUS
  <2>3. f \in FileRow /\ f.chunks = <<>>
    BY <2>2 DEF FileRow
  <2>4. PICK j : j = [r EXCEPT !.stage = "encrypting", !.file = f]
    OBVIOUS
  <2>5. j \in JobRow /\ j.stage = "encrypting" /\ j.file = f /\ j.image = r.image /\ j.name = r.name
    BY <2>1, <2>3, <2>4 DEF JobRow, Stages
  <2>6. job' = [job EXCEPT ![w].stage = "encrypting", ![w].file = f] /\ UNCHANGED transient /\ r.stage = "copied"
    BY <1>4, <2>1, <2>2 DEF OpenImage
  <2>7. job' = [job EXCEPT ![w] = j]
    BY <1>0, <2>1, <2>4, <2>6 DEF BackupTyped
  <2>8. WorkFits(j, taken')
    <3>1. r.name \in BackupIds /\ r.image \in Contents
      BY <1>0, <2>1, <2>6 DEF WorkFits, Encrypts
    <3>2. Len(j.file.chunks) < Len(j.image) /\ DOMAIN j.file.chunks = {}
      BY <2>3, <2>5, <3>1, ContentFacts
    <3> QED
      BY <2>5, <3>1, <3>2 DEF WorkFits, Encrypts, Decrypts
  <2> QED
    BY <1>0, <1>1, <1>2, <2>5, <2>6, <2>7, <2>8, StepOfWorker DEF BackupTyped
<1> QED
  BY <1>3, <1>4

\* One more chunk of the image is sealed.
LEMMA EncryptStep ==
  ASSUME BackupInvariant, NEW w \in BackupWorkers, EncryptChunk(w)
  PROVE  BackupInvariant'
<1>0. BackupTyped /\ WorkFits(job[w], taken) /\ job[w] \in JobRow
  BY DEF BackupInvariant, BackupTyped
<1>1. PICK r \in JobRow : r = job[w]
  BY <1>0
<1>2. PICK cs \in Seq(Chunk) : cs = r.file.chunks
  BY <1>1 DEF JobRow, FileRow
<1>3. PICK i \in Nat : i = Len(cs) + 1
  OBVIOUS
<1>4. PICK final \in {"last", "more"} : final = IF i = Len(r.image) THEN "last" ELSE "more"
  OBVIOUS
<1>5. PICK c : c = Seal(r.name, r.image[i], i, final)
  OBVIOUS
<1>6. PICK stage : stage = IF final = "last" THEN "encrypted" ELSE "encrypting"
  OBVIOUS
<1>7. PICK t : t = Append(cs, c)
  OBVIOUS
<1>8. /\ r.stage = "encrypting" /\ job' = [job EXCEPT ![w].file.chunks = t, ![w].stage = stage]
      /\ UNCHANGED <<live, files, transient, taken, harm, writes>>
  BY <1>1, <1>2, <1>3, <1>4, <1>5, <1>6, <1>7 DEF EncryptChunk
<1>9. /\ r.name \in BackupIds /\ r.image \in Contents /\ Len(cs) < Len(r.image)
      /\ \A k \in DOMAIN cs : k \in DOMAIN r.image
                              /\ cs[k] = Seal(r.name, r.image[k], k, IF k = Len(r.image) THEN "last" ELSE "more")
  BY <1>0, <1>1, <1>2, <1>8 DEF WorkFits, Encrypts
<1>10. Len(r.image) \in Nat /\ i \in 1..Len(r.image) /\ DOMAIN r.image = 1..Len(r.image) /\ r.image[i] \in Nat
  BY <1>3, <1>9, ContentFacts
<1>11. c \in Chunk
  BY <1>3, <1>4, <1>5, <1>9, <1>10, NamesApart, SealFacts
<1>12. /\ t \in Seq(Chunk) /\ Len(t) = i /\ DOMAIN t = 1..i /\ DOMAIN cs = 1..(i - 1)
       /\ (\A k \in 1..(i - 1) : t[k] = cs[k]) /\ t[i] = c
  BY <1>3, <1>7, <1>11, AppendFacts
<1>13. PICK f : f = [r.file EXCEPT !.chunks = t]
  OBVIOUS
<1>14. r.file \in FileRow
  BY DEF JobRow
<1>15. f \in FileRow /\ f.chunks = t
  BY <1>12, <1>13, <1>14 DEF FileRow
<1>16. PICK j : j = [r EXCEPT !.file = f, !.stage = stage]
  OBVIOUS
<1>17. j \in JobRow /\ j.stage = stage /\ j.file = f /\ j.image = r.image /\ j.name = r.name
  BY <1>6, <1>15, <1>16 DEF JobRow, Stages
<1>18. job' = [job EXCEPT ![w] = j]
  BY <1>0, <1>1, <1>8, <1>13, <1>16 DEF BackupTyped, JobRow, FileRow
<1>19. \A k \in DOMAIN t : k \in DOMAIN r.image
                          /\ t[k] = Seal(r.name, r.image[k], k, IF k = Len(r.image) THEN "last" ELSE "more")
  <2>1. ASSUME NEW k \in 1..(i - 1)
        PROVE  k \in DOMAIN r.image
               /\ t[k] = Seal(r.name, r.image[k], k, IF k = Len(r.image) THEN "last" ELSE "more")
    BY <1>9, <1>12
  <2>2. i \in DOMAIN r.image /\ t[i] = Seal(r.name, r.image[i], i, IF i = Len(r.image) THEN "last" ELSE "more")
    BY <1>4, <1>5, <1>10, <1>12
  <2> QED
    BY <1>12, <2>1, <2>2
<1>20. stage = "encrypting" => i < Len(r.image)
  BY <1>4, <1>6, <1>10
<1>21. WorkFits(j, taken')
  BY <1>6, <1>9, <1>12, <1>15, <1>17, <1>19, <1>20 DEF WorkFits, Encrypts, Decrypts
<1>22. RecoveryKept' /\ FilesGenuine(files', taken')
  BY <1>8 DEF BackupInvariant, RecoveryKept
<1> QED
  BY <1>0, <1>6, <1>8, <1>17, <1>18, <1>21, <1>22, StepOfWorker DEF BackupTyped

\* The finished file takes the backup's name.
LEMMA PublishStep ==
  ASSUME BackupInvariant, NEW w \in BackupWorkers, PublishBackup(w)
  PROVE  BackupInvariant'
<1>0. BackupTyped /\ WorkFits(job[w], taken) /\ job[w] \in JobRow /\ RecoveryKept /\ FilesGenuine(files, taken)
  BY DEF BackupInvariant, BackupTyped
<1>1. PICK r \in JobRow : r = job[w]
  BY <1>0
<1>2. /\ r.stage = "encrypted" /\ files' = [files EXCEPT ![r.name] = r.file]
      /\ taken' = [taken EXCEPT ![r.name] = @ \cup {r.image}]
      /\ transient' = transient \ {w} /\ job' = [job EXCEPT ![w] = NoJob] /\ UNCHANGED <<live, harm, writes>>
  BY <1>1 DEF PublishBackup
<1>3. /\ r.name \in BackupIds /\ r.image \in Contents
      /\ \A i \in DOMAIN r.file.chunks :
           i \in DOMAIN r.image
           /\ r.file.chunks[i] = Seal(r.name, r.image[i], i, IF i = Len(r.image) THEN "last" ELSE "more")
  BY <1>0, <1>1, <1>2 DEF WorkFits, Encrypts
<1>4. r.name \in Names /\ r.name \notin BackupWorkers /\ r.file \in FileRow
  BY <1>3, NamesApart DEF JobRow
<1>5. /\ files' \in [Names -> FileRow] /\ taken' \in [Names -> SUBSET Contents]
      /\ files'[r.name] = r.file /\ taken'[r.name] = taken[r.name] \cup {r.image}
      /\ \A n \in Names : n # r.name => files'[n] = files[n] /\ taken'[n] = taken[n]
  BY <1>0, <1>2, <1>3, <1>4 DEF BackupTyped
<1>6. \A m \in BackupIds : taken[m] \subseteq taken'[m]
  BY <1>5, NamesApart
<1>7. Genuine(r.file, taken')
  <2>1. ASSUME NEW i \in DOMAIN r.file.chunks PROVE Fits(r.file.chunks[i], r.name, r.image)
    <3>1. PICK final \in {"last", "more"} : final = IF i = Len(r.image) THEN "last" ELSE "more"
      OBVIOUS
    <3>2. i \in 1..Len(r.image) /\ Len(r.image) \in Nat /\ r.image[i] \in Nat /\ i \in DOMAIN r.image
      BY <1>3, <2>1, ContentFacts
    <3>3. r.file.chunks[i] = Seal(r.name, r.image[i], i, final)
      BY <1>3, <3>1
    <3> QED
      BY <1>4, <3>1, <3>2, <3>3, SealFacts DEF Fits
  <2> QED
    BY <1>3, <1>5, <2>1 DEF Genuine
<1>8. FilesGenuine(files', taken')
  <2> SUFFICES ASSUME NEW b \in BackupIds, files'[b] # NoFile PROVE Genuine(files'[b], taken')
    BY DEF FilesGenuine
  <2>1. CASE b = r.name
    BY <1>5, <1>7, <2>1
  <2>2. CASE b # r.name
    <3>1. files'[b] = files[b] /\ Genuine(files[b], taken)
      BY <1>0, <1>5, <2>2, NamesApart DEF FilesGenuine
    <3> QED
      BY <1>6, <3>1, GenuineGrows
  <2> QED
    BY <2>1, <2>2
<1>9. RecoveryKept'
  BY <1>0, <1>4, <1>5, NamesApart DEF RecoveryKept
<1> QED
  BY <1>0, <1>2, <1>5, <1>6, <1>8, <1>9, IdleJobs, StepOfWorker DEF BackupTyped

\* A worker's job ends, or the worker does, or another one opens.
LEMMA EndSteps ==
  ASSUME BackupInvariant, NEW w \in BackupWorkers,
         InvalidCiphertext(w) \/ StepFails(w) \/ WorkerEnds(w) \/ OpenWorker(w)
  PROVE  BackupInvariant'
<1>0. BackupTyped
  BY DEF BackupInvariant
<1>1. UNCHANGED <<live, files, taken, writes>>
  BY DEF InvalidCiphertext, StepFails, WorkerEnds, OpenWorker
<1>2. PICK j \in {NoJob, Down} : job' = [job EXCEPT ![w] = j] /\ (j = NoJob => w \notin transient')
  <2>1. NoJob # Down
    BY IdleJobs
  <2>2. CASE WorkerEnds(w)
    BY <2>1, <2>2 DEF WorkerEnds
  <2>3. CASE InvalidCiphertext(w) \/ StepFails(w) \/ OpenWorker(w)
    BY <2>3 DEF InvalidCiphertext, StepFails, OpenWorker
  <2> QED
    BY <2>2, <2>3
<1>3. transient' \subseteq transient
  BY DEF InvalidCiphertext, StepFails, WorkerEnds, OpenWorker
<1>4. harm' \in 0..MaxHarm
  BY <1>0, BackupAssumption DEF InvalidCiphertext, StepFails, WorkerEnds, OpenWorker, BackupTyped
<1>5. j \in JobRow /\ WorkFits(j, taken') /\ (j.stage = "idle" => w \notin transient')
  BY <1>2, IdleJobs
<1>6. RecoveryKept' /\ FilesGenuine(files', taken')
  BY <1>1 DEF BackupInvariant, RecoveryKept
<1> QED
  BY <1>0, <1>1, <1>2, <1>3, <1>4, <1>5, <1>6, StepOfWorker DEF BackupTyped

\* A restore reads a file as it is, and its image is empty at first.
LEMMA BeginRestoreStep ==
  ASSUME BackupInvariant, NEW w \in BackupWorkers, NEW b \in BackupIds, BeginRestore(w, b)
  PROVE  BackupInvariant'
<1>0. BackupTyped /\ FilesGenuine(files, taken) /\ files[b] \in FileRow
  BY NamesApart DEF BackupInvariant, BackupTyped
<1>1. PICK none \in JobRow : none = NoJob /\ none.image = <<>>
  BY IdleJobs
<1>2. PICK j : j = [none EXCEPT !.stage = "decrypting", !.name = b, !.file = files[b]]
  OBVIOUS
<1>3. j \in JobRow /\ j.stage = "decrypting" /\ j.name = b /\ j.file = files[b] /\ j.image = <<>>
  BY <1>0, <1>1, <1>2 DEF JobRow, Stages
<1>4. /\ files[b] # NoFile /\ job' = [job EXCEPT ![w] = j] /\ transient' = transient \cup {w}
      /\ UNCHANGED <<live, files, taken, harm, writes>>
  BY <1>1, <1>2 DEF BeginRestore
<1>5. Genuine(files[b], taken)
  BY <1>0, <1>4 DEF FilesGenuine
<1>6. WorkFits(j, taken')
  BY <1>3, <1>4, <1>5 DEF WorkFits, Encrypts, Decrypts
<1>7. RecoveryKept' /\ FilesGenuine(files', taken')
  BY <1>4 DEF BackupInvariant, RecoveryKept
<1> QED
  BY <1>0, <1>3, <1>4, <1>6, <1>7, StepOfWorker DEF BackupTyped

\* The heart of the argument: the chunk that opens at its place under the
\* backup's name is that part of a content backed up under that name, and the
\* chunk with the final flag is that content's last.
LEMMA DecryptStep ==
  ASSUME BackupInvariant, NEW w \in BackupWorkers, DecryptChunk(w)
  PROVE  BackupInvariant'
<1>0. BackupTyped /\ WorkFits(job[w], taken) /\ job[w] \in JobRow
  BY DEF BackupInvariant, BackupTyped
<1>1. PICK r \in JobRow : r = job[w]
  BY <1>0
<1>2. PICK im \in Seq(Nat) : im = r.image
  BY DEF JobRow
<1>3. PICK cs \in Seq(Chunk) : cs = r.file.chunks
  BY DEF JobRow, FileRow
<1>4. PICK i \in Nat : i = Len(im) + 1
  OBVIOUS
<1>5. PICK body : body = cs[i].body
  OBVIOUS
<1>6. PICK stage : stage = IF LastChunk(r.file, i) THEN "decrypted" ELSE "decrypting"
  OBVIOUS
<1>7. PICK t : t = Append(im, body)
  OBVIOUS
<1>8. /\ r.stage = "decrypting" /\ NextOpens(r) /\ job' = [job EXCEPT ![w].image = t, ![w].stage = stage]
      /\ UNCHANGED <<live, files, transient, taken, harm, writes>>
  BY <1>1, <1>2, <1>3, <1>4, <1>5, <1>6, <1>7 DEF DecryptChunk
<1>9. i <= Len(cs) /\ Opens(cs[i], r.name, i) /\ i \in DOMAIN cs /\ cs[i] \in Chunk
  BY <1>2, <1>3, <1>4, <1>8 DEF NextOpens
<1>10. body \in Nat
  BY <1>5, <1>9 DEF Chunk
<1>11. /\ t \in Seq(Nat) /\ Len(t) = i /\ DOMAIN t = 1..i /\ DOMAIN im = 1..(i - 1)
       /\ (\A k \in 1..(i - 1) : t[k] = im[k]) /\ t[i] = body
  BY <1>4, <1>7, <1>10, AppendFacts
<1>12. PICK j : j = [r EXCEPT !.image = t, !.stage = stage]
  OBVIOUS
<1>13. j \in JobRow /\ j.stage = stage /\ j.image = t /\ j.name = r.name /\ j.file = r.file
  BY <1>6, <1>11, <1>12 DEF JobRow, Stages
<1>14. job' = [job EXCEPT ![w] = j]
  BY <1>0, <1>1, <1>8, <1>12 DEF BackupTyped, JobRow
<1>15. /\ r.name \in BackupIds /\ Genuine(r.file, taken)
       /\ \A k \in DOMAIN im : k \in DOMAIN cs /\ Opens(cs[k], r.name, k) /\ im[k] = cs[k].body
  BY <1>0, <1>1, <1>2, <1>3, <1>8 DEF WorkFits, Decrypts
<1>16. \A k \in DOMAIN t : k \in DOMAIN cs /\ Opens(cs[k], r.name, k) /\ t[k] = cs[k].body
  <2>1. \A k \in 1..(i - 1) : k \in DOMAIN cs /\ Opens(cs[k], r.name, k) /\ t[k] = cs[k].body
    BY <1>11, <1>15
  <2>2. i \in DOMAIN cs /\ Opens(cs[i], r.name, i) /\ t[i] = cs[i].body
    BY <1>5, <1>9, <1>11
  <2> QED
    BY <1>11, <2>1, <2>2
<1>17. ASSUME LastChunk(r.file, i) PROVE t \in taken[r.name]
  <2>1. PICK m \in BackupIds : \E content \in taken[m] : \A k \in DOMAIN cs : Fits(cs[k], m, content)
    BY <1>3, <1>15 DEF Genuine
  <2>2. PICK content \in taken[m] : \A k \in DOMAIN cs : Fits(cs[k], m, content)
    BY <2>1
  <2>3. content \in Contents
    BY <1>0, <2>1, <2>2, NamesApart DEF BackupTyped
  <2>4. content \in Seq(Nat) /\ Len(content) \in Nat /\ DOMAIN content = 1..Len(content)
    BY <2>3, ContentFacts
  <2>5. \A k \in 1..i : cs[k].counter = k /\ cs[k].body = content[k] /\ k \in DOMAIN content /\ cs[k].key = r.name
                        /\ cs[k].key = m
    <3>1. ASSUME NEW k \in 1..i
          PROVE  cs[k].counter = k /\ cs[k].body = content[k] /\ k \in DOMAIN content /\ cs[k].key = r.name
                 /\ cs[k].key = m
      <4>1. k \in DOMAIN cs /\ Opens(cs[k], r.name, k)
        BY <1>11, <1>16
      <4>2. Fits(cs[k], m, content)
        BY <2>2, <4>1
      <4> QED
        BY <4>1, <4>2 DEF Opens, Fits
    <3> QED
      BY <3>1
  <2>6. m = r.name
    BY <1>4, <2>5
  <2>7. cs[i].flag = "last" /\ cs[i].final = cs[i].flag
    BY <1>3, <1>9, <1>17 DEF LastChunk, Opens
  <2>8. i = Len(content)
    <3>1. Fits(cs[i], m, content) /\ cs[i].counter = i
      BY <1>4, <1>9, <2>2, <2>5
    <3> QED
      BY <2>7, <3>1 DEF Fits
  <2>9. \A k \in 1..Len(t) : t[k] = content[k]
    BY <1>11, <1>16, <2>5
  <2>10. t = content
    BY <1>11, <2>4, <2>8, <2>9, SeqEqual
  <2> QED
    BY <2>2, <2>6, <2>10
<1>18. WorkFits(j, taken')
  <2>1. CASE LastChunk(r.file, i)
    BY <1>6, <1>8, <1>13, <1>15, <1>17, <2>1 DEF WorkFits, Encrypts, Decrypts
  <2>2. CASE ~ LastChunk(r.file, i)
    BY <1>3, <1>6, <1>8, <1>13, <1>15, <1>16, <2>2 DEF WorkFits, Encrypts, Decrypts
  <2> QED
    BY <2>1, <2>2
<1>19. RecoveryKept' /\ FilesGenuine(files', taken')
  BY <1>8 DEF BackupInvariant, RecoveryKept
<1> QED
  BY <1>0, <1>6, <1>8, <1>13, <1>14, <1>18, <1>19, StepOfWorker DEF BackupTyped

\* A worker moves on with the image it has.
LEMMA StageFacts ==
  ASSUME BackupTyped, NEW w \in BackupWorkers, NEW stage \in Stages, job' = [job EXCEPT ![w].stage = stage]
  PROVE  \E j \in JobRow : /\ job' = [job EXCEPT ![w] = j] /\ j.stage = stage /\ j.name = job[w].name
                           /\ j.image = job[w].image /\ j.file = job[w].file
<1>1. PICK r \in JobRow : r = job[w]
  BY DEF BackupTyped
<1>2. PICK j : j = [r EXCEPT !.stage = stage]
  OBVIOUS
<1>3. j \in JobRow /\ j.stage = stage /\ j.name = r.name /\ j.image = r.image /\ j.file = r.file
  BY <1>2 DEF JobRow
<1>4. job' = [job EXCEPT ![w] = j]
  BY <1>1, <1>2 DEF BackupTyped, JobRow
<1> QED
  BY <1>1, <1>3, <1>4

\* The image is prepared for encryption, or was copied into place.
LEMMA ImageSteps ==
  ASSUME BackupInvariant, NEW w \in BackupWorkers, PrepareImage(w) \/ CopyImage(w)
  PROVE  BackupInvariant'
<1>0. BackupTyped /\ WorkFits(job[w], taken)
  BY DEF BackupInvariant
<1>1. PICK stage \in {"prepared", "restored"} :
        /\ job' = [job EXCEPT ![w].stage = stage] /\ UNCHANGED <<files, transient, taken, harm, writes>>
        /\ job[w].stage \in {"decrypted", "saved"} /\ live' \in {live, job[w].image}
  BY DEF PrepareImage, CopyImage
<1>2. PICK j \in JobRow : /\ job' = [job EXCEPT ![w] = j] /\ j.stage = stage /\ j.name = job[w].name
                          /\ j.image = job[w].image /\ j.file = job[w].file
  <2>1. stage \in Stages
    BY DEF Stages
  <2> QED
    BY <1>0, <1>1, <2>1, StageFacts
<1>3. job[w].name \in BackupIds /\ job[w].image \in taken[job[w].name]
  BY <1>0, <1>1 DEF WorkFits, Decrypts
<1>4. live' \in Contents
  BY <1>0, <1>1, <1>3, NamesApart DEF BackupTyped
<1>5. WorkFits(j, taken')
  BY <1>1, <1>2, <1>3 DEF WorkFits, Encrypts, Decrypts
<1>6. RecoveryKept' /\ FilesGenuine(files', taken')
  BY <1>1 DEF BackupInvariant, RecoveryKept
<1> QED
  BY <1>0, <1>1, <1>2, <1>4, <1>5, <1>6, StepOfWorker DEF BackupTyped

\* What encryption writes is a file.
LEMMA EncryptedFileTyped ==
  ASSUME NEW w \in BackupWorkers, NEW c \in Contents
  PROVE  EncryptedFile(w, c) \in FileRow
<1>1. PICK chunks : chunks = [i \in DOMAIN c |-> Seal(w, c[i], i, IF i = Len(c) THEN "last" ELSE "more")]
  OBVIOUS
<1>2. DOMAIN c = 1..Len(c) /\ Len(c) \in Nat /\ \A i \in 1..Len(c) : c[i] \in Nat
  BY ContentFacts
<1>3. ASSUME NEW i \in 1..Len(c) PROVE chunks[i] \in Chunk
  <2>1. PICK final \in {"last", "more"} : final = IF i = Len(c) THEN "last" ELSE "more"
    OBVIOUS
  <2>2. chunks[i] = Seal(w, c[i], i, final)
    BY <1>1, <1>2, <2>1
  <2> QED
    BY <1>2, <2>2, SealFacts, NamesApart
<1>4. chunks \in Seq(Chunk)
  <2>1. chunks = [i \in 1..Len(c) |-> chunks[i]]
    BY <1>1, <1>2
  <2>2. [i \in 1..Len(c) |-> chunks[i]] \in Seq(Chunk)
    BY <1>2, <1>3
  <2> QED
    BY <2>1, <2>2
<1>5. EncryptedFile(w, c) = [header |-> "ok", chunks |-> chunks]
  BY <1>1 DEF EncryptedFile
<1> QED
  BY <1>4, <1>5 DEF FileRow

\* The files under the names of backups are not those of recoveries.
LEMMA RecoverySteps ==
  ASSUME BackupInvariant, NEW w \in BackupWorkers, SaveRecovery(w) \/ FinishRestore(w)
  PROVE  BackupInvariant'
<1>0. BackupTyped /\ WorkFits(job[w], taken) /\ RecoveryKept /\ FilesGenuine(files, taken) /\ w \in Names
  BY NamesApart DEF BackupInvariant
<1>1. PICK f \in FileRow, cs \in SUBSET Contents, j \in JobRow :
        /\ files' = [files EXCEPT ![w] = f] /\ taken' = [taken EXCEPT ![w] = cs] /\ job' = [job EXCEPT ![w] = j]
        /\ \A c \in cs : f = EncryptedFile(w, c)
        /\ WorkFits(j, taken) /\ (j.stage = "idle" => w \notin transient') /\ transient' \subseteq transient
        /\ UNCHANGED <<live, harm, writes>>
  <2>1. CASE SaveRecovery(w)
    <3>1. PICK j \in JobRow : /\ job' = [job EXCEPT ![w] = j] /\ j.stage = "saved" /\ j.name = job[w].name
                              /\ j.image = job[w].image /\ j.file = job[w].file
      <4>1. "saved" \in Stages
        BY DEF Stages
      <4> QED
        BY <1>0, <2>1, <4>1, StageFacts DEF SaveRecovery
    <3>2. WorkFits(j, taken)
      BY <1>0, <2>1, <3>1 DEF WorkFits, Encrypts, Decrypts, SaveRecovery
    <3>3. EncryptedFile(w, live) \in FileRow /\ {live} \in SUBSET Contents
      BY <1>0, EncryptedFileTyped DEF BackupTyped
    <3> QED
      BY <2>1, <3>1, <3>2, <3>3 DEF SaveRecovery
  <2>2. CASE FinishRestore(w)
    <3>1. PICK j \in JobRow : j = NoJob
      BY IdleJobs
    <3>2. WorkFits(j, taken)
      BY <3>1, IdleJobs
    <3>3. PICK f \in FileRow : f = NoFile
      BY IdleJobs
    <3>4. /\ files' = [files EXCEPT ![w] = f] /\ taken' = [taken EXCEPT ![w] = {}] /\ job' = [job EXCEPT ![w] = j]
          /\ w \notin transient' /\ transient' \subseteq transient /\ UNCHANGED <<live, harm, writes>>
      BY <2>2, <3>1, <3>3 DEF FinishRestore
    <3>5. PICK cs \in SUBSET Contents : cs = {}
      OBVIOUS
    <3> QED
      BY <3>2, <3>4, <3>5
  <2> QED
    BY <2>1, <2>2
<1>2. /\ files' \in [Names -> FileRow] /\ taken' \in [Names -> SUBSET Contents]
      /\ files'[w] = f /\ taken'[w] = cs /\ \A n \in Names : n # w => files'[n] = files[n] /\ taken'[n] = taken[n]
  BY <1>0, <1>1 DEF BackupTyped
<1>3. \A b \in BackupIds : files'[b] = files[b] /\ taken'[b] = taken[b]
  BY <1>2, NamesApart
<1>4. WorkFits(j, taken')
  BY <1>1, <1>3, WorkGrows
<1>5. FilesGenuine(files', taken')
  BY <1>0, <1>3, GenuineGrows DEF FilesGenuine
<1>6. RecoveryKept'
  BY <1>0, <1>1, <1>2, NamesApart DEF RecoveryKept
<1>7. transient' \subseteq BackupWorkers /\ transient' \subseteq transient \cup {w} /\ live' \in Contents
      /\ harm' \in 0..MaxHarm /\ \A m \in BackupIds : taken[m] \subseteq taken'[m]
  BY <1>0, <1>1, <1>3 DEF BackupTyped
<1> QED
  BY <1>1, <1>2, <1>4, <1>5, <1>6, <1>7, StepOfWorker

\* Every chunk of a damaged file has the seal of a chunk of the file.
SameSeals(t, s) ==
  \A i \in DOMAIN t : \E k \in DOMAIN s :
    t[i].key = s[k].key /\ t[i].body = s[k].body /\ t[i].counter = s[k].counter /\ t[i].final = s[k].final

\* Damage at rest loses, repeats and reorders chunks; it seals none.
LEMMA DamagedFacts ==
  ASSUME NEW f \in FileRow, NEW g \in Damaged(f)
  PROVE  g \in FileRow /\ SameSeals(g.chunks, f.chunks)
<1> DEFINE
  Headless == {[f EXCEPT !.header = "damaged"]}
  Cut == {[f EXCEPT !.chunks = SubSeq(@, 1, n)] : n \in 0..(Len(f.chunks) - 1)}
  Repeated == {[f EXCEPT !.chunks = Append(@, @[n])] : n \in DOMAIN f.chunks}
  Broken == {[f EXCEPT !.chunks[n].intact = "no"] : n \in DOMAIN f.chunks}
  Reflagged == {[f EXCEPT !.chunks[n].flag = IF @ = "last" THEN "more" ELSE "last"] : n \in DOMAIN f.chunks}
  Reordered == {[f EXCEPT !.chunks = Exchanged(@, m, n)] : m, n \in DOMAIN f.chunks}
<1>0. PICK cs \in Seq(Chunk) : cs = f.chunks
  BY DEF FileRow
<1>1. DOMAIN cs = 1..Len(cs) /\ Len(cs) \in Nat /\ \A n \in DOMAIN cs : cs[n] \in Chunk
  OBVIOUS
<1>2. ASSUME NEW t \in Seq(Chunk), g = [f EXCEPT !.chunks = t], SameSeals(t, cs)
      PROVE  g \in FileRow /\ SameSeals(g.chunks, f.chunks)
  <2>1. g \in FileRow /\ g.chunks = t
    BY <1>2 DEF FileRow
  <2> QED
    BY <1>0, <1>2, <2>1
<1>3. CASE g \in Headless
  <2>1. g = [f EXCEPT !.header = "damaged"]
    BY <1>3
  <2>2. g \in FileRow /\ g.chunks = f.chunks
    BY <2>1 DEF FileRow
  <2> QED
    BY <2>2 DEF SameSeals
<1>4. CASE g \in Cut
  <2>0. PICK n \in 0..(Len(f.chunks) - 1) : g = [f EXCEPT !.chunks = SubSeq(@, 1, n)]
    BY <1>4
  <2>1. PICK t : t = SubSeq(cs, 1, n)
    OBVIOUS
  <2>2. n \in Nat /\ n < Len(cs) /\ \A i \in 1..n : cs[i] \in Chunk /\ i \in DOMAIN cs
    BY <1>0, <1>1
  <2>3. t \in Seq(Chunk) /\ DOMAIN t = 1..n /\ \A i \in 1..n : t[i] = cs[i]
    BY <1>1, <2>1, <2>2
  <2>4. g = [f EXCEPT !.chunks = t]
    BY <1>0, <2>0, <2>1
  <2>5. SameSeals(t, cs)
    BY <2>2, <2>3 DEF SameSeals
  <2> QED
    BY <1>2, <2>3, <2>4, <2>5
<1>5. CASE g \in Repeated
  <2>0. PICK n \in DOMAIN f.chunks : g = [f EXCEPT !.chunks = Append(@, @[n])]
    BY <1>5
  <2>1. PICK t : t = Append(cs, cs[n])
    OBVIOUS
  <2>2. cs[n] \in Chunk /\ n \in DOMAIN cs
    BY <1>0, <1>1
  <2>3. /\ t \in Seq(Chunk) /\ DOMAIN t = 1..(Len(cs) + 1)
        /\ (\A i \in 1..Len(cs) : t[i] = cs[i]) /\ t[Len(cs) + 1] = cs[n]
    BY <2>1, <2>2, AppendFacts
  <2>4. g = [f EXCEPT !.chunks = t]
    BY <1>0, <2>0, <2>1
  <2>5. ASSUME NEW i \in DOMAIN t PROVE \E k \in DOMAIN cs : t[i] = cs[k]
    <3>1. i \in 1..Len(cs) \/ i = Len(cs) + 1
      BY <1>1, <2>3
    <3> QED
      BY <1>1, <2>2, <2>3, <3>1
  <2>6. SameSeals(t, cs)
    BY <2>5 DEF SameSeals
  <2> QED
    BY <1>2, <2>3, <2>4, <2>6
<1>6. ASSUME NEW n \in DOMAIN cs, NEW c \in Chunk, g = [f EXCEPT !.chunks = [cs EXCEPT ![n] = c]],
             c.key = cs[n].key, c.body = cs[n].body, c.counter = cs[n].counter, c.final = cs[n].final
      PROVE  g \in FileRow /\ SameSeals(g.chunks, f.chunks)
  <2>1. PICK t : t = [cs EXCEPT ![n] = c]
    OBVIOUS
  <2>2. t \in Seq(Chunk) /\ DOMAIN t = DOMAIN cs /\ \A i \in DOMAIN cs : t[i] = IF i = n THEN c ELSE cs[i]
    BY <1>1, <2>1
  <2>3. SameSeals(t, cs)
    BY <1>6, <2>2 DEF SameSeals
  <2>4. g = [f EXCEPT !.chunks = t]
    BY <1>6, <2>1
  <2> QED
    BY <1>2, <2>2, <2>3, <2>4
<1>7. CASE g \in Broken
  <2>0. PICK n \in DOMAIN cs : g = [f EXCEPT !.chunks[n].intact = "no"]
    BY <1>0, <1>7
  <2>1. PICK old \in Chunk : old = cs[n]
    BY <1>1
  <2>2. PICK c : c = [old EXCEPT !.intact = "no"]
    OBVIOUS
  <2>3. c \in Chunk /\ c.key = old.key /\ c.body = old.body /\ c.counter = old.counter /\ c.final = old.final
    BY <2>2 DEF Chunk
  <2>4. g = [f EXCEPT !.chunks = [cs EXCEPT ![n] = c]]
    BY <1>0, <2>0, <2>1, <2>2 DEF FileRow
  <2> QED
    BY <1>6, <2>1, <2>3, <2>4
<1>8. CASE g \in Reflagged
  <2>0. PICK n \in DOMAIN cs : g = [f EXCEPT !.chunks[n].flag = IF @ = "last" THEN "more" ELSE "last"]
    BY <1>0, <1>8
  <2>1. PICK old \in Chunk : old = cs[n]
    BY <1>1
  <2>2. PICK flag \in {"last", "more"} : flag = IF old.flag = "last" THEN "more" ELSE "last"
    OBVIOUS
  <2>3. PICK c : c = [old EXCEPT !.flag = flag]
    OBVIOUS
  <2>4. c \in Chunk /\ c.key = old.key /\ c.body = old.body /\ c.counter = old.counter /\ c.final = old.final
    BY <2>3 DEF Chunk
  <2>5. g = [f EXCEPT !.chunks = [cs EXCEPT ![n] = c]]
    BY <1>0, <2>0, <2>1, <2>2, <2>3 DEF FileRow
  <2> QED
    BY <1>6, <2>1, <2>4, <2>5
<1>9. CASE g \in Reordered
  <2>0. PICK m \in DOMAIN cs, n \in DOMAIN cs : g = [f EXCEPT !.chunks = Exchanged(@, m, n)]
    BY <1>0, <1>9
  <2>1. PICK t : t = Exchanged(cs, m, n)
    OBVIOUS
  <2>2. t \in Seq(Chunk) /\ DOMAIN t = DOMAIN cs
        /\ \A i \in DOMAIN cs : t[i] = IF i = n THEN cs[m] ELSE IF i = m THEN cs[n] ELSE cs[i]
    BY <1>1, <2>1 DEF Exchanged
  <2>3. g = [f EXCEPT !.chunks = t]
    BY <1>0, <2>0, <2>1
  <2>4. SameSeals(t, cs)
    BY <2>2 DEF SameSeals
  <2> QED
    BY <1>2, <2>2, <2>3, <2>4
<1>10. \/ g \in Headless
       \/ g \in Cut
       \/ g \in Repeated
       \/ g \in Broken
       \/ g \in Reflagged
       \/ g \in Reordered
  BY DEF Damaged
<1> HIDE DEF Headless, Cut, Repeated, Broken, Reflagged, Reordered
<1> QED
  BY <1>3, <1>4, <1>5, <1>7, <1>8, <1>9, <1>10

\* A damaged file, or another backup's file under this name, is still genuine.
LEMMA DamageStep ==
  ASSUME BackupInvariant, NEW b \in BackupIds, DamageFile(b)
  PROVE  BackupInvariant'
<1>0. BackupTyped /\ RecoveryKept /\ PlaintextRemoved /\ FilesGenuine(files, taken)
  BY DEF BackupInvariant
<1>1. PICK g \in FileRow : files' = [files EXCEPT ![b] = g] /\ Genuine(g, taken)
  <2>1. files[b] \in FileRow /\ Genuine(files[b], taken)
    BY <1>0, NamesApart DEF BackupTyped, FilesGenuine, DamageFile
  <2>2. ASSUME NEW g \in Damaged(files[b]), files' = [files EXCEPT ![b] = g]
        PROVE  g \in FileRow /\ Genuine(g, taken)
    <3>1. g \in FileRow /\ SameSeals(g.chunks, files[b].chunks)
      BY <2>1, DamagedFacts
    <3>2. PICK m \in BackupIds : \E content \in taken[m] :
            \A k \in DOMAIN files[b].chunks : Fits(files[b].chunks[k], m, content)
      BY <2>1 DEF Genuine
    <3>3. PICK content \in taken[m] : \A k \in DOMAIN files[b].chunks : Fits(files[b].chunks[k], m, content)
      BY <3>2
    <3>4. ASSUME NEW i \in DOMAIN g.chunks PROVE Fits(g.chunks[i], m, content)
      BY <3>1, <3>3 DEF SameSeals, Fits
    <3> QED
      BY <3>1, <3>4 DEF Genuine
  <2>3. ASSUME NEW c \in BackupIds, files[c] # NoFile, files' = [files EXCEPT ![b] = files[c]]
        PROVE  files[c] \in FileRow /\ Genuine(files[c], taken)
    BY <1>0, <2>3, NamesApart DEF BackupTyped, FilesGenuine
  <2> QED
    BY <2>2, <2>3 DEF DamageFile
<1>2. UNCHANGED <<live, transient, job, taken, writes>> /\ harm' \in 0..MaxHarm
  BY <1>0, BackupAssumption DEF DamageFile, BackupTyped
<1>3. files' \in [Names -> FileRow] /\ files'[b] = g /\ \A n \in Names : n # b => files'[n] = files[n]
  BY <1>0, <1>1, NamesApart DEF BackupTyped
<1>4. BackupTyped'
  BY <1>0, <1>2, <1>3 DEF BackupTyped
<1>5. FilesGenuine(files', taken')
  BY <1>0, <1>1, <1>2, <1>3, NamesApart DEF FilesGenuine
<1>6. RecoveryKept'
  BY <1>0, <1>2, <1>3, NamesApart DEF RecoveryKept
<1>7. PlaintextRemoved' /\ \A w \in BackupWorkers : WorkFits(job'[w], taken')
  BY <1>0, <1>2 DEF PlaintextRemoved, BackupInvariant
<1> QED
  BY <1>4, <1>5, <1>6, <1>7 DEF BackupInvariant

\* A write to the live database touches no file and no job.
LEMMA WriteStep ==
  ASSUME BackupInvariant, NEW c \in Contents, WriteDatabase(c)
  PROVE  BackupInvariant'
<1>1. BackupTyped'
  BY BackupAssumption DEF BackupInvariant, BackupTyped, WriteDatabase
<1>2. RecoveryKept' /\ PlaintextRemoved' /\ FilesGenuine(files', taken')
  BY DEF BackupInvariant, RecoveryKept, PlaintextRemoved, WriteDatabase
<1>3. \A w \in BackupWorkers : WorkFits(job'[w], taken')
  BY DEF BackupInvariant, WriteDatabase
<1> QED
  BY <1>1, <1>2, <1>3 DEF BackupInvariant

\* At the start no file exists and no worker has a job.
LEMMA BackupStarts == BackupInit => BackupInvariant
<1> SUFFICES ASSUME BackupInit PROVE BackupInvariant
  OBVIOUS
<1>1. ASSUME NEW w \in BackupWorkers PROVE job[w] = NoJob \/ job[w] = Down
  BY DEF BackupInit
<1>2. ASSUME NEW w \in BackupWorkers PROVE job[w] \in JobRow /\ WorkFits(job[w], taken)
  BY <1>1, IdleJobs
<1>3. job \in [BackupWorkers -> JobRow]
  <2>1. job = [w \in BackupWorkers |-> job[w]]
    BY DEF BackupInit
  <2> QED
    BY <1>2, <2>1
<1>4. files \in [Names -> FileRow] /\ taken \in [Names -> SUBSET Contents]
  BY IdleJobs DEF BackupInit
<1>5. BackupTyped
  BY <1>3, <1>4, BackupAssumption DEF BackupInit, BackupTyped
<1>6. RecoveryKept /\ PlaintextRemoved /\ FilesGenuine(files, taken)
  BY NamesApart DEF BackupInit, RecoveryKept, PlaintextRemoved, FilesGenuine
<1> QED
  BY <1>2, <1>5, <1>6 DEF BackupInvariant

\* What is restored is what was backed up, whatever happens to the files at
\* rest, in whatever order workers begin, fail and end; the database that a
\* restore replaces is kept until the restore has succeeded; no plaintext image
\* outlives its work (create_encrypted_backup, restore_encrypted_backup,
\* decrypt_file): for any contents, of any length.
THEOREM BackupsHold == BackupSpec => []BackupsSound
<1>1. BackupInit => BackupInvariant
  BY BackupStarts
<1>2. BackupInvariant /\ [BackupNext]_backupVars => BackupInvariant'
  <2> SUFFICES ASSUME BackupInvariant, [BackupNext]_backupVars PROVE BackupInvariant'
    OBVIOUS
  <2>1. ASSUME NEW w \in BackupWorkers, NEW b \in BackupIds, BeginBackup(w, b) \/ BeginRestore(w, b)
        PROVE  BackupInvariant'
    BY <2>1, BackupSteps, BeginRestoreStep
  <2>2. ASSUME NEW w \in BackupWorkers, OpenImage(w) \/ EncryptChunk(w) \/ PublishBackup(w)
        PROVE  BackupInvariant'
    BY <2>2, BackupSteps, EncryptStep, PublishStep
  <2>3. ASSUME NEW w \in BackupWorkers,
               DecryptChunk(w) \/ PrepareImage(w) \/ SaveRecovery(w) \/ CopyImage(w) \/ FinishRestore(w)
        PROVE  BackupInvariant'
    BY <2>3, DecryptStep, ImageSteps, RecoverySteps
  <2>4. ASSUME NEW w \in BackupWorkers,
               InvalidCiphertext(w) \/ StepFails(w) \/ WorkerEnds(w) \/ OpenWorker(w)
        PROVE  BackupInvariant'
    BY <2>4, EndSteps
  <2>5. ASSUME NEW b \in BackupIds, DamageFile(b) PROVE BackupInvariant'
    BY <2>5, DamageStep
  <2>6. ASSUME NEW c \in Contents, WriteDatabase(c) PROVE BackupInvariant'
    BY <2>6, WriteStep
  <2>7. CASE UNCHANGED backupVars
    <3>1. BackupTyped' /\ RecoveryKept' /\ PlaintextRemoved' /\ FilesGenuine(files', taken')
      BY <2>7 DEF backupVars, BackupInvariant, BackupTyped, RecoveryKept, PlaintextRemoved
    <3>2. \A w \in BackupWorkers : WorkFits(job'[w], taken')
      BY <2>7 DEF backupVars, BackupInvariant
    <3> QED
      BY <3>1, <3>2 DEF BackupInvariant
  <2> QED
    BY <2>1, <2>2, <2>3, <2>4, <2>5, <2>6, <2>7 DEF BackupNext
<1>3. BackupInvariant => BackupsSound
  <2> SUFFICES ASSUME BackupInvariant PROVE BackupsSound
    OBVIOUS
  <2>1. BackupTypeOK
    BY DEF BackupInvariant, BackupTyped, BackupTypeOK, JobRow
  <2>2. DecryptedIsBackup
    BY DEF BackupInvariant, DecryptedIsBackup, WorkFits, Decrypts
  <2> QED
    BY <2>1, <2>2 DEF BackupInvariant, BackupsSound
<1> QED
  BY <1>1, <1>2, <1>3, PTL DEF BackupSpec

-----------------------------------------------------------------------------
(* Restores and writes under idempotency keys. Every record of a success is  *)
(* of work that was done, whatever fails. A restore is carried out once and  *)
(* under the fence because no two executions of one key are at work: without *)
(* a crash there is one worker, and after one the row of the frame that was  *)
(* left behind cannot be taken over before its worker's deadline.            *)

Earned(k) == effects[k] >= 1
Answered(k) == Earned(k) \/ k \in strays \cap WriteKeys
Serving(a) == attempts[a].phase \notin {"idle", "answered"}
Busy(a) == exec[a].phase # "none"
AttemptPhases == {"idle", "owner", "routed", "fenced", "waiting", "returned", "persisted", "answered"}
ExecPhases == {"none", "queued", "owner", "committed", "verified", "ok", "failed", "unknown"}

\* A dispatch that waits has an execution, and of its own key.
OperationsShaped ==
  /\ \A a \in Slots : attempts[a].phase # "idle" => attempts[a].key \in Keys
  /\ \A a \in Slots : attempts[a].phase = "idle" => attempts[a] = Idle
  /\ \A a \in Slots : Busy(a) => exec[a].key \in Keys
  /\ \A a \in Slots : Restoring(a) => exec[a].key \in RestoreKeys
  /\ \A a \in Slots : exec[a].orphan => Busy(a)
  /\ \A a \in Slots : attempts[a].phase = "waiting" => Busy(a) /\ exec[a].key = attempts[a].key

\* Every record of a success, in a row, a receipt, the marker or the usage
\* table, is of an operation that was carried out; a response in a row may be
\* the one a write was given for another request.
AllEarned ==
  /\ \A a \in Slots : exec[a].phase \in {"ok", "committed", "verified"} => Earned(exec[a].key)
  /\ \A a \in Slots : attempts[a].phase \in {"returned", "persisted", "answered"} => Answered(attempts[a].key)
  /\ \A k \in Keys : rows[k].state = "done" => Answered(k)
  /\ \A k \in RestoreKeys : receipts[k] = "completed" \/ db.marker = k => Earned(k)
  /\ \A k \in WriteKeys : k \in db.usage => Earned(k)
  /\ \A k \in WriteKeys : db.writes[k] <= (IF k \in db.usage THEN 1 ELSE 0)

OperationsInvariant == OperationsTypeOK /\ OperationsShaped /\ AllEarned

\* At most one worker that the API has not left behind works on a restore.
OneWorks == \A a, b \in Slots : Restoring(a) /\ Restoring(b) /\ ~exec[a].orphan /\ ~exec[b].orphan => a = b
NoOrphans == \A a \in Slots : ~exec[a].orphan

\* When leases are kept: a dispatch holds its row as long as it serves, the row
\* of an execution that was left behind is held by nobody and has not run out,
\* and so no two executions are of one key.
Held(k, owner) == rows[k].state = "held" /\ rows[k].owner = owner /\ rows[k].live
Leased ==
  /\ \A a \in Slots : Serving(a) => Held(attempts[a].key, a)
  /\ \A a \in Slots : Busy(a) /\ exec[a].orphan => attempts[a] = Idle /\ Held(exec[a].key, Nobody)
  /\ \A a \in Slots : Busy(a) /\ ~exec[a].orphan => attempts[a].phase = "waiting"
  /\ \A a, b \in Slots : Busy(a) /\ Busy(b) /\ exec[a].key = exec[b].key => a = b

\* Every call gets its own answer, and a dispatch that goes on without its row
\* and a crash of the API do not come together.
LeasesKept == Faults \cap {"outage", "shift"} = {}
CrashesApart == "shift" \notin Faults /\ ("crash" \notin Faults \/ LeasesKept)

WorkInvariant == OneWorks /\ ("crash" \notin Faults => NoOrphans) /\ (LeasesKept => Leased)

\* A restore is at work under a started receipt, before the commit of the only
\* time it is carried out; afterwards the marker tells.
CarriedOutOnce ==
  /\ \A k \in RestoreKeys : effects[k] <= 1
  /\ \A k \in RestoreKeys : Earned(k) => receipts[k] \in {"started", "completed"} /\ db.marker # Nothing
  /\ \A a \in Slots : Restoring(a) => receipts[exec[a].key] = "started"
  /\ \A a \in Slots : exec[a].phase = "owner" => effects[exec[a].key] = 0

\* Whoever is about to restore, or restores, has the fence and the backup's row,
\* until the receipt of the restore is complete.
Fenced(k) == receipts[k] = "completed" \/ (project = "restoring" /\ backups[Backup[k]] = k)
FenceRelied ==
  /\ \A a \in Slots : attempts[a].phase \in {"fenced", "waiting"} /\ attempts[a].key \in RestoreKeys => Fenced(attempts[a].key)
  /\ \A a \in Slots : Busy(a) /\ exec[a].key \in RestoreKeys => Fenced(exec[a].key)
  /\ \A a \in Slots : attempts[a].phase = "returned" /\ attempts[a].key \in RestoreKeys => receipts[attempts[a].key] = "completed"
  /\ \A a \in Slots : exec[a].phase = "ok" /\ exec[a].key \in RestoreKeys => receipts[exec[a].key] = "completed"

\* The restores are all of one backup.
OneBackup == \A k, l \in RestoreKeys : Backup[k] = Backup[l]

\* A dispatch moves to another phase, or to another state altogether.
LEMMA AttemptPhase ==
  ASSUME attempts \in [Slots -> Attempt], NEW a \in Slots, NEW phase \in AttemptPhases,
         attempts' = [attempts EXCEPT ![a].phase = phase]
  PROVE  /\ attempts' \in [Slots -> Attempt] /\ \A b \in Slots : b # a => attempts'[b] = attempts[b]
         /\ attempts'[a].phase = phase /\ attempts'[a].key = attempts[a].key
<1>1. PICK old \in Attempt : old = attempts[a]  OBVIOUS
<1>2. PICK new : new = [old EXCEPT !.phase = phase]  OBVIOUS
<1>3. new \in Attempt /\ new.phase = phase /\ new.key = old.key  BY <1>2 DEF Attempt, AttemptPhases
<1>4. attempts' = [attempts EXCEPT ![a] = new]  BY <1>1, <1>2
<1> QED  BY <1>1, <1>3, <1>4

\* A dispatch starts or ends.
LEMMA AttemptSet ==
  ASSUME attempts \in [Slots -> Attempt], NEW a \in Slots, NEW new \in Attempt,
         attempts' = [attempts EXCEPT ![a] = new]
  PROVE  /\ attempts' \in [Slots -> Attempt] /\ \A b \in Slots : b # a => attempts'[b] = attempts[b]
         /\ attempts'[a] = new
OBVIOUS

\* The state of a slot without a dispatch.
LEMMA IdleFacts == Idle \in Attempt /\ Idle.phase = "idle" /\ Idle.key = Nothing
BY DEF Idle, Attempt

\* The state of a slot without an execution.
LEMMA NoExecutionFacts == NoExecution \in Execution /\ NoExecution.phase = "none" /\ NoExecution.orphan = FALSE
BY DEF NoExecution, Execution

\* A worker moves its execution to another phase.
LEMMA ExecPhase ==
  ASSUME exec \in [Slots -> Execution], NEW a \in Slots, NEW phase \in ExecPhases, exec' = Executed(a, phase)
  PROVE  /\ exec' \in [Slots -> Execution] /\ \A b \in Slots : b # a => exec'[b] = exec[b]
         /\ exec'[a].phase = phase /\ exec'[a].key = exec[a].key /\ exec'[a].orphan = exec[a].orphan
<1>1. PICK old \in Execution : old = exec[a]  OBVIOUS
<1>2. PICK new : new = [old EXCEPT !.phase = phase]  OBVIOUS
<1>3. new \in Execution /\ new.phase = phase /\ new.key = old.key /\ new.orphan = old.orphan
  BY <1>2 DEF Execution, ExecPhases
<1>4. exec' = [exec EXCEPT ![a] = new]  BY <1>1, <1>2 DEF Executed
<1> QED  BY <1>1, <1>3, <1>4

\* An execution is queued or taken away.
LEMMA ExecSet ==
  ASSUME exec \in [Slots -> Execution], NEW a \in Slots, NEW new \in Execution, exec' = [exec EXCEPT ![a] = new]
  PROVE  /\ exec' \in [Slots -> Execution] /\ \A b \in Slots : b # a => exec'[b] = exec[b]
         /\ exec'[a] = new
OBVIOUS

\* What ending a dispatch does to the rows: those of others stay as they are.
LEMMA DisownFacts ==
  ASSUME rows \in [Keys -> Row], NEW ends \in SUBSET Slots, rows' = Disowned(ends)
  PROVE  /\ rows' \in [Keys -> Row]
         /\ \A k \in Keys : rows[k].owner \notin ends => rows'[k] = rows[k]
         /\ \A k \in Keys : rows'[k].state = rows[k].state /\ rows'[k].live = rows[k].live
         /\ \A k \in Keys : rows[k].owner \in ends => rows'[k].owner = Nobody
<1> SUFFICES ASSUME NEW k \in Keys
    PROVE  /\ rows'[k] \in Row /\ (rows[k].owner \notin ends => rows'[k] = rows[k])
           /\ rows'[k].state = rows[k].state /\ rows'[k].live = rows[k].live
           /\ (rows[k].owner \in ends => rows'[k].owner = Nobody)
  BY DEF Disowned
<1>1. PICK old \in Row : old = rows[k]  OBVIOUS
<1>2. PICK new : new = [old EXCEPT !.owner = Nobody]  OBVIOUS
<1>3. new \in Row /\ new.owner = Nobody /\ new.state = old.state /\ new.live = old.live  BY <1>2 DEF Row
<1>4. rows'[k] = IF rows[k].owner \in ends THEN new ELSE rows[k]  BY <1>1, <1>2 DEF Disowned
<1> QED  BY <1>1, <1>3, <1>4

\* abandon touches no row of another dispatch and makes none done.
LEMMA AbandonFacts ==
  ASSUME rows \in [Keys -> Row], NEW a \in Slots, attempts[a].key \in Keys, Abandon(a)
  PROVE  /\ rows' \in [Keys -> Row]
         /\ \A k \in Keys : rows[k].owner # a => rows'[k] = rows[k]
         /\ \A k \in Keys : rows'[k].state = "done" => rows[k].state = "done"
<1>1. CASE rows' = Abandoned(a)
  <2>1. Absent \in Row /\ Absent.state = "absent"  BY DEF Absent, Row
  <2> QED  BY <1>1, <2>1 DEF Abandoned, Owns
<1>2. CASE rows' = Disowned({a})
  <2>1. {a} \in SUBSET Slots  OBVIOUS
  <2> QED  BY <1>2, <2>1, DisownFacts
<1> QED  BY <1>1, <1>2 DEF Abandon

\* One more effect of an operation, of which the model counts two.
LEMMA EffectFacts ==
  ASSUME effects \in [Keys -> 0..2], NEW k \in Keys, effects' = [effects EXCEPT ![k] = Capped(@ + 1)]
  PROVE  /\ effects' \in [Keys -> 0..2] /\ effects'[k] >= 1 /\ (effects[k] = 0 => effects'[k] = 1)
         /\ \A l \in Keys : effects'[l] >= effects[l] /\ (l # k => effects'[l] = effects[l])
<1>1. PICK n : n = Capped(effects[k] + 1)  OBVIOUS
<1>2. n \in 0..2 /\ n >= 1 /\ n >= effects[k] /\ (effects[k] = 0 => n = 1)  BY <1>1 DEF Capped
<1>3. effects' = [effects EXCEPT ![k] = n]  BY <1>1
<1> QED  BY <1>2, <1>3

\* A step of a key's row, under which no row is newly done.
LEMMA BackedRows ==
  ASSUME OperationsInvariant, rows' \in [Keys -> Row], \A k \in Keys : rows'[k].state = "done" => rows[k].state = "done",
         UNCHANGED <<attempts, exec, project, backups, receipts, db, effects, strays>>
  PROVE  OperationsInvariant'
<1>1. OperationsTypeOK'  BY DEF OperationsInvariant, OperationsTypeOK
<1>2. OperationsShaped'  BY DEF OperationsInvariant, OperationsShaped, Busy, Restoring
<1>3. AllEarned'  BY DEF OperationsInvariant, AllEarned, Earned, Answered
<1> QED  BY <1>1, <1>2, <1>3 DEF OperationsInvariant

\* A lease runs out, or retention passes.
LEMMA AnswersLeases ==
  ASSUME OperationsInvariant, NEW k \in Keys, LeaseExpires(k) \/ PurgeExpired(k)
  PROVE  OperationsInvariant'
<1>1. rows \in [Keys -> Row]  BY DEF OperationsInvariant, OperationsTypeOK
<1>2. PICK old \in Row : old = rows[k]  BY <1>1
<1>3. PICK new : new = [old EXCEPT !.live = FALSE]  OBVIOUS
<1>4. new \in Row /\ new.state = old.state /\ Absent \in Row /\ Absent.state = "absent"  BY <1>3 DEF Row, Absent
<1>5. rows' = [rows EXCEPT ![k] = new] \/ rows' = [rows EXCEPT ![k] = Absent]
  BY <1>2, <1>3 DEF LeaseExpires, PurgeExpired
<1>6. rows' \in [Keys -> Row] /\ \A l \in Keys : rows'[l].state = "done" => rows[l].state = "done"
  BY <1>1, <1>2, <1>4, <1>5
<1>7. UNCHANGED <<attempts, exec, project, backups, receipts, db, effects, strays>>  BY DEF LeaseExpires, PurgeExpired
<1> QED  BY <1>6, <1>7, BackedRows

\* A dispatch renews its lease.
LEMMA AnswersRenew ==
  ASSUME OperationsInvariant, NEW a \in Slots, Renew(a)
  PROVE  OperationsInvariant'
<1>1. rows \in [Keys -> Row] /\ attempts \in [Slots -> Attempt] /\ OperationsShaped  BY DEF OperationsInvariant, OperationsTypeOK
<1>2. PICK k : k = attempts[a].key  OBVIOUS
<1>4. k \in Keys  BY <1>1, <1>2 DEF OperationsShaped, Renew
<1>5. PICK old \in Row : old = rows[k]  BY <1>1, <1>4
<1>6. PICK new : new = [old EXCEPT !.live = TRUE]  OBVIOUS
<1>7. new \in Row /\ new.state = old.state  BY <1>6 DEF Row
<1>8. rows' = [rows EXCEPT ![k] = new]  BY <1>2, <1>5, <1>6 DEF Renew
<1>9. rows' \in [Keys -> Row] /\ \A l \in Keys : rows'[l].state = "done" => rows[l].state = "done"
  BY <1>1, <1>4, <1>5, <1>7, <1>8
<1>10. UNCHANGED <<attempts, exec, project, backups, receipts, db, effects, strays>>  BY DEF Renew
<1> QED  BY <1>9, <1>10, BackedRows

\* A request becomes the owner of its key, or is answered with the stored response.
LEMMA AnswersAdmit ==
  ASSUME OperationsInvariant, NEW a \in Slots, NEW k \in Keys, Admit(a, k) \/ Replay(a, k)
  PROVE  OperationsInvariant'
<1> USE DEF OperationsInvariant
<1>1. OperationsTypeOK /\ OperationsShaped /\ AllEarned  OBVIOUS
<1>2. PICK phase \in {"owner", "answered"} : attempts' = [attempts EXCEPT ![a] = [phase |-> phase, key |-> k]]
  BY DEF Admit, Replay
<1>3. [phase |-> phase, key |-> k] \in Attempt  BY <1>2 DEF Attempt
<1>4. /\ attempts' \in [Slots -> Attempt] /\ \A b \in Slots : b # a => attempts'[b] = attempts[b]
      /\ attempts'[a].phase = phase /\ attempts'[a].key = k
  BY <1>1, <1>2, <1>3, AttemptSet DEF OperationsTypeOK
<1>5. [state |-> "held", owner |-> a, live |-> TRUE] \in Row  BY DEF Row
<1>6. /\ rows' \in [Keys -> Row] /\ \A l \in Keys : rows'[l].state = "done" => rows[l].state = "done"
      /\ phase = "answered" => rows[k].state = "done"
  <2>1. CASE Admit(a, k)
    <3>1. rows' = [rows EXCEPT ![k] = [state |-> "held", owner |-> a, live |-> TRUE]] /\ phase = "owner"
      <4>1. attempts' = [attempts EXCEPT ![a] = [phase |-> "owner", key |-> k]]  BY <2>1 DEF Admit
      <4>2. attempts'[a].phase = "owner"  BY <1>1, <4>1 DEF OperationsTypeOK
      <4> QED  BY <1>4, <2>1, <4>2 DEF Admit
    <3> QED  BY <1>1, <1>5, <3>1 DEF OperationsTypeOK
  <2>2. CASE Replay(a, k)  BY <1>1, <2>2 DEF Replay, OperationsTypeOK
  <2> QED  BY <2>1, <2>2
<1>7. UNCHANGED <<exec, project, backups, receipts, db, effects, strays>>  BY DEF Admit, Replay
<1>8. OperationsTypeOK'  BY <1>1, <1>4, <1>6, <1>7 DEF OperationsTypeOK
<1>9. OperationsShaped'
  BY <1>1, <1>2, <1>4, <1>7 DEF OperationsShaped, Busy, Restoring
<1>10. AllEarned'  BY <1>1, <1>2, <1>4, <1>6, <1>7 DEF AllEarned, Earned, Answered
<1> QED  BY <1>8, <1>9, <1>10

\* The steps of a dispatch that leave its worker and the rows alone.
LEMMA AnswersMove ==
  ASSUME OperationsInvariant, NEW a \in Slots, ResolveRoute(a) \/ BeginRestoreLifecycle(a) \/ PersistResult(a)
  PROVE  OperationsInvariant'
<1> USE DEF OperationsInvariant
<1>1. OperationsTypeOK /\ OperationsShaped /\ AllEarned  OBVIOUS
<1>2. PICK phase \in {"routed", "fenced", "persisted"} :
        /\ attempts' = [attempts EXCEPT ![a].phase = phase]
        /\ attempts[a].phase # "idle" /\ (phase = "persisted" => attempts[a].phase = "returned")
  BY DEF ResolveRoute, BeginRestoreLifecycle, PersistResult
<1>3. phase \in AttemptPhases  BY <1>2 DEF AttemptPhases
<1>4. /\ attempts' \in [Slots -> Attempt] /\ \A b \in Slots : b # a => attempts'[b] = attempts[b]
      /\ attempts'[a].phase = phase /\ attempts'[a].key = attempts[a].key
  BY <1>1, <1>2, <1>3, AttemptPhase DEF OperationsTypeOK
<1>5. UNCHANGED <<rows, exec, receipts, db, effects, strays>>  BY DEF ResolveRoute, BeginRestoreLifecycle, PersistResult
<1>6. project' \in {"active", "restoring", "failed"} /\ backups' \in [Backups -> RestoreKeys \cup {Nothing}]
  BY <1>1, OperationsAssumption DEF OperationsTypeOK, ResolveRoute, BeginRestoreLifecycle, PersistResult
<1>7. OperationsTypeOK'  BY <1>1, <1>4, <1>5, <1>6 DEF OperationsTypeOK
<1>8. OperationsShaped'  BY <1>1, <1>2, <1>4, <1>5 DEF OperationsShaped, Busy, Restoring
<1>9. AllEarned'  BY <1>1, <1>2, <1>4, <1>5 DEF AllEarned, Earned, Answered
<1> QED  BY <1>7, <1>8, <1>9

\* A dispatch sends its frame to the worker.
LEMMA AnswersExecute ==
  ASSUME OperationsInvariant, NEW a \in Slots, Execute(a)
  PROVE  OperationsInvariant'
<1> USE DEF OperationsInvariant
<1>1. OperationsTypeOK /\ OperationsShaped /\ AllEarned  OBVIOUS
<1>2. attempts' = [attempts EXCEPT ![a].phase = "waiting"] /\ attempts[a].phase # "idle"  BY DEF Execute
<1>3. /\ attempts' \in [Slots -> Attempt] /\ \A b \in Slots : b # a => attempts'[b] = attempts[b]
      /\ attempts'[a].phase = "waiting" /\ attempts'[a].key = attempts[a].key
  BY <1>1, <1>2, AttemptPhase DEF OperationsTypeOK, AttemptPhases
<1>4. attempts[a].key \in Keys  BY <1>1, <1>2 DEF OperationsShaped
<1>5. PICK new : new = [phase |-> "queued", key |-> attempts[a].key, orphan |-> FALSE]  OBVIOUS
<1>6. new \in Execution /\ new.phase = "queued" /\ new.key = attempts[a].key /\ new.orphan = FALSE
  BY <1>4, <1>5 DEF Execution
<1>7. exec' = [exec EXCEPT ![a] = new]  BY <1>5 DEF Execute
<1>8. exec' \in [Slots -> Execution] /\ (\A b \in Slots : b # a => exec'[b] = exec[b]) /\ exec'[a] = new
  BY <1>1, <1>6, <1>7, ExecSet DEF OperationsTypeOK
<1>9. UNCHANGED <<rows, project, backups, receipts, db, effects, strays>>  BY DEF Execute
<1>10. OperationsTypeOK'  BY <1>1, <1>3, <1>8, <1>9 DEF OperationsTypeOK
<1>11. OperationsShaped'  BY <1>1, <1>3, <1>4, <1>6, <1>8 DEF OperationsShaped, Busy, Restoring
<1>12. AllEarned'  BY <1>1, <1>3, <1>6, <1>8, <1>9 DEF AllEarned, Earned, Answered
<1> QED  BY <1>10, <1>11, <1>12

\* The steps that take a dispatch's execution away.
LEMMA AnswersReturn ==
  ASSUME OperationsInvariant, NEW a \in Slots, Return(a)
  PROVE  OperationsInvariant'
<1> USE DEF OperationsInvariant
<1>1. OperationsTypeOK /\ OperationsShaped /\ AllEarned  OBVIOUS
<1>2. attempts' = [attempts EXCEPT ![a].phase = "returned"] /\ attempts[a].phase = "waiting" /\ exec[a].phase = "ok"
  BY DEF Return
<1>3. /\ attempts' \in [Slots -> Attempt] /\ \A b \in Slots : b # a => attempts'[b] = attempts[b]
      /\ attempts'[a].phase = "returned" /\ attempts'[a].key = attempts[a].key
  BY <1>1, <1>2, AttemptPhase DEF OperationsTypeOK, AttemptPhases
<1>4. exec' = [exec EXCEPT ![a] = NoExecution]  BY DEF Return
<1>5. exec' \in [Slots -> Execution] /\ (\A b \in Slots : b # a => exec'[b] = exec[b]) /\ exec'[a] = NoExecution
  BY <1>1, <1>4, NoExecutionFacts, ExecSet DEF OperationsTypeOK
<1>6. UNCHANGED <<rows, project, backups, receipts, db, effects, strays>>  BY DEF Return
<1>7. OperationsTypeOK'  BY <1>1, <1>3, <1>5, <1>6 DEF OperationsTypeOK
<1>8. OperationsShaped'  BY <1>1, <1>2, <1>3, <1>5, NoExecutionFacts DEF OperationsShaped, Busy, Restoring
<1>9. Earned(attempts[a].key)  BY <1>1, <1>2 DEF OperationsShaped, AllEarned
<1>10. AllEarned'  BY <1>1, <1>3, <1>5, <1>6, <1>9, NoExecutionFacts DEF AllEarned, Earned, Answered
<1> QED  BY <1>7, <1>8, <1>10

\* What a worker that is left behind with the frame of a call changes.
LEMMA LeftFacts ==
  ASSUME OperationsTypeOK, OperationsShaped, NEW a \in Slots, LeftBehind(a)
  PROVE  /\ exec' \in [Slots -> Execution] /\ \A b \in Slots : b # a => exec'[b] = exec[b]
         /\ exec'[a].phase = exec[a].phase /\ exec'[a].key = exec[a].key /\ Busy(a)
         /\ strays' = strays \cup {attempts[a].key} /\ strays' \subseteq Keys /\ attempts[a].key \in Keys
<1>1. exec \in [Slots -> Execution]  BY DEF OperationsTypeOK
<1>2. PICK old \in Execution : old = exec[a]  BY <1>1
<1>3. PICK new : new = [old EXCEPT !.orphan = TRUE]  OBVIOUS
<1>4. new \in Execution /\ new.phase = old.phase /\ new.key = old.key  BY <1>3 DEF Execution
<1>5. exec' = [exec EXCEPT ![a] = new]  BY <1>2, <1>3 DEF LeftBehind
<1>6. exec' \in [Slots -> Execution] /\ (\A b \in Slots : b # a => exec'[b] = exec[b]) /\ exec'[a] = new
  BY <1>1, <1>4, <1>5, ExecSet
<1>7. Busy(a) /\ attempts[a].key \in Keys /\ strays' = strays \cup {attempts[a].key}  BY DEF LeftBehind, OperationsShaped
<1> QED  BY <1>2, <1>4, <1>6, <1>7 DEF OperationsTypeOK

\* Without mismatched answers no worker is left behind but by a crash.
LEMMA OwnAnswers ==
  ASSUME "shift" \notin Faults, NEW a \in Slots
  PROVE  ~MismatchedAnswer(a) /\ ~StrayAnswer(a)
BY DEF MismatchedAnswer, StrayAnswer, LeftBehind

\* The steps that end a dispatch, with or without its execution.
LEMMA AnswersEnd ==
  ASSUME OperationsInvariant, NEW a \in Slots,
         ExecutionError(a) \/ MismatchedAnswer(a) \/ GiveUp(a) \/ LoseClaim(a) \/ Answer(a)
  PROVE  OperationsInvariant'
<1> USE DEF OperationsInvariant
<1>1. OperationsTypeOK /\ OperationsShaped /\ AllEarned  OBVIOUS
<1>2. attempts[a].phase # "idle" /\ attempts[a].key \in Keys
  BY <1>1 DEF OperationsShaped, ExecutionError, MismatchedAnswer, LeftBehind, GiveUp, LoseClaim, Answer
<1>3. attempts' = [attempts EXCEPT ![a] = Idle]
  BY DEF ExecutionError, MismatchedAnswer, GiveUp, LoseClaim, Answer
<1>4. attempts' \in [Slots -> Attempt] /\ (\A b \in Slots : b # a => attempts'[b] = attempts[b]) /\ attempts'[a] = Idle
  BY <1>1, <1>3, IdleFacts, AttemptSet DEF OperationsTypeOK
<1>5. rows' \in [Keys -> Row] /\ \A k \in Keys : rows'[k].state = "done" => rows[k].state = "done"
  <2>1. CASE Abandon(a)  BY <1>1, <1>2, <2>1, AbandonFacts DEF OperationsTypeOK
  <2>2. CASE rows' = Disowned({a})
    <3>1. {a} \in SUBSET Slots  OBVIOUS
    <3> QED  BY <1>1, <2>2, <3>1, DisownFacts DEF OperationsTypeOK
  <2>3. CASE rows' = rows  BY <1>1, <2>3 DEF OperationsTypeOK
  <2> QED  BY <2>1, <2>2, <2>3 DEF ExecutionError, MismatchedAnswer, GiveUp, LoseClaim, Answer
<1>6. /\ exec' \in [Slots -> Execution] /\ \A b \in Slots : b # a => exec'[b] = exec[b]
      /\ \/ exec'[a] = NoExecution
         \/ /\ exec'[a].phase = exec[a].phase /\ exec'[a].key = exec[a].key
            /\ exec'[a].orphan => exec[a].orphan \/ Busy(a)
      /\ strays' \subseteq Keys /\ strays \subseteq strays'
  <2>1. CASE exec' = exec \/ exec' = [exec EXCEPT ![a] = NoExecution]
    <3>1. CASE strays' = strays  BY <1>1, <2>1, <3>1, NoExecutionFacts, ExecSet DEF OperationsTypeOK
    <3>2. CASE MismatchedAnswer(a)  BY <1>1, <3>2, LeftFacts DEF MismatchedAnswer
    <3> QED  BY <3>1, <3>2 DEF ExecutionError, GiveUp, LoseClaim, Answer
  <2>2. CASE MismatchedAnswer(a)  BY <1>1, <2>2, LeftFacts DEF MismatchedAnswer
  <2> QED  BY <2>1, <2>2 DEF ExecutionError, GiveUp, LoseClaim, Answer
<1>7. UNCHANGED <<receipts, db, effects>>  BY DEF ExecutionError, MismatchedAnswer, GiveUp, LoseClaim, Answer
<1>8. project' \in {"active", "restoring", "failed"} /\ backups' \in [Backups -> RestoreKeys \cup {Nothing}]
  BY <1>1 DEF OperationsTypeOK, ExecutionError, MismatchedAnswer, GiveUp, LoseClaim, Answer
<1>9. OperationsTypeOK'  BY <1>1, <1>4, <1>5, <1>6, <1>7, <1>8 DEF OperationsTypeOK
<1>10. OperationsShaped'  BY <1>1, <1>4, <1>6, IdleFacts, NoExecutionFacts DEF OperationsShaped, Busy, Restoring
<1>11. AllEarned'  BY <1>1, <1>4, <1>5, <1>6, <1>7, IdleFacts, NoExecutionFacts DEF AllEarned, Earned, Answered
<1> QED  BY <1>9, <1>10, <1>11

\* A success that is another request's is taken for the answer to this one: of
\* a write it is marked, and a restore of this key was completed.
LEMMA AnswersStray ==
  ASSUME OperationsInvariant, NEW a \in Slots, StrayAnswer(a)
  PROVE  OperationsInvariant'
<1> USE DEF OperationsInvariant
<1>1. OperationsTypeOK /\ OperationsShaped /\ AllEarned  OBVIOUS
<1>2. attempts' = [attempts EXCEPT ![a].phase = "returned"] /\ LeftBehind(a) /\ attempts[a].phase = "waiting"
  BY DEF StrayAnswer, LeftBehind
<1>3. /\ attempts' \in [Slots -> Attempt] /\ \A b \in Slots : b # a => attempts'[b] = attempts[b]
      /\ attempts'[a].phase = "returned" /\ attempts'[a].key = attempts[a].key
  BY <1>1, <1>2, AttemptPhase DEF OperationsTypeOK, AttemptPhases
<1>4. /\ exec' \in [Slots -> Execution] /\ \A b \in Slots : b # a => exec'[b] = exec[b]
      /\ exec'[a].phase = exec[a].phase /\ exec'[a].key = exec[a].key /\ Busy(a)
      /\ strays' = strays \cup {attempts[a].key} /\ strays' \subseteq Keys /\ attempts[a].key \in Keys
  BY <1>1, <1>2, LeftFacts
<1>5. UNCHANGED <<rows, project, backups, receipts, db, effects>>  BY DEF StrayAnswer
<1>6. OperationsTypeOK'  BY <1>1, <1>3, <1>4, <1>5 DEF OperationsTypeOK
<1>7. OperationsShaped'  BY <1>1, <1>2, <1>3, <1>4 DEF OperationsShaped, Busy, Restoring
<1>8. Earned(attempts[a].key) \/ attempts[a].key \in strays' \cap WriteKeys
  BY <1>1, <1>4 DEF StrayAnswer, AllEarned, Keys
<1>9. AllEarned'  BY <1>1, <1>3, <1>4, <1>5, <1>8 DEF AllEarned, Earned, Answered
<1> QED  BY <1>6, <1>7, <1>9

\* The response is stored for the key.
LEMMA AnswersComplete ==
  ASSUME OperationsInvariant, NEW a \in Slots, Complete(a)
  PROVE  OperationsInvariant'
<1> USE DEF OperationsInvariant
<1>1. OperationsTypeOK /\ OperationsShaped /\ AllEarned  OBVIOUS
<1>2. attempts[a].phase = "persisted" /\ attempts' = [attempts EXCEPT ![a].phase = "answered"]  BY DEF Complete
<1>3. attempts[a].key \in Keys /\ Answered(attempts[a].key)  BY <1>1, <1>2 DEF OperationsShaped, AllEarned
<1>4. /\ attempts' \in [Slots -> Attempt] /\ \A b \in Slots : b # a => attempts'[b] = attempts[b]
      /\ attempts'[a].phase = "answered" /\ attempts'[a].key = attempts[a].key
  BY <1>1, <1>2, AttemptPhase DEF OperationsTypeOK, AttemptPhases
<1>5. PICK new : new = [state |-> "done", owner |-> Nobody, live |-> FALSE]  OBVIOUS
<1>6. new \in Row  BY <1>5 DEF Row
<1>7. PICK key \in Keys : key = attempts[a].key  BY <1>3
<1>8. rows' = [rows EXCEPT ![key] = new]  BY <1>5, <1>7 DEF Complete
<1>9. rows' \in [Keys -> Row] /\ \A k \in Keys : k # key => rows'[k] = rows[k]
  BY <1>1, <1>6, <1>8 DEF OperationsTypeOK
<1>10. UNCHANGED <<exec, project, backups, receipts, db, effects, strays>>  BY DEF Complete
<1>11. OperationsTypeOK'  BY <1>1, <1>4, <1>9, <1>10 DEF OperationsTypeOK
<1>12. OperationsShaped'  BY <1>1, <1>2, <1>4, <1>10 DEF OperationsShaped, Busy, Restoring
<1>13. AllEarned'  BY <1>1, <1>3, <1>4, <1>7, <1>9, <1>10 DEF AllEarned, Earned, Answered
<1> QED  BY <1>11, <1>12, <1>13

\* What the crash of the API does: every dispatch is gone, and at most the frame of one worker goes on.
LEMMA CrashFacts ==
  ASSUME OperationsTypeOK, ApiCrash
  PROVE  /\ attempts' \in [Slots -> Attempt] /\ \A a \in Slots : attempts'[a] = Idle
         /\ rows' = Disowned(Slots) /\ UNCHANGED <<project, backups, receipts, db, effects, strays>>
         /\ exec' \in [Slots -> Execution]
         /\ \E last \in Slots : \A a \in Slots :
              \/ exec'[a] = exec[a] /\ exec[a].orphan
              \/ exec'[a] = NoExecution /\ ~exec[a].orphan
              \/ /\ a = last /\ InWorker(a) /\ ~exec[a].orphan /\ exec'[a].orphan
                 /\ exec'[a].phase = exec[a].phase /\ exec'[a].key = exec[a].key
<1>1. attempts \in [Slots -> Attempt] /\ exec \in [Slots -> Execution]  BY DEF OperationsTypeOK
<1>2. PICK last \in Slots :
        exec' = [a \in Slots |->
                  CASE exec[a].orphan -> exec[a]
                    [] a = last /\ InWorker(a) -> [exec[a] EXCEPT !.orphan = TRUE]
                    [] OTHER -> NoExecution]
  BY DEF ApiCrash
<1>3. attempts' = [a \in Slots |-> Idle]  BY DEF ApiCrash
<1>4. ASSUME NEW a \in Slots
      PROVE  /\ exec'[a] \in Execution
             /\ \/ exec'[a] = exec[a] /\ exec[a].orphan
                \/ exec'[a] = NoExecution /\ ~exec[a].orphan
                \/ /\ a = last /\ InWorker(a) /\ ~exec[a].orphan /\ exec'[a].orphan
                   /\ exec'[a].phase = exec[a].phase /\ exec'[a].key = exec[a].key
  <2>1. PICK old \in Execution : old = exec[a]  BY <1>1
  <2>2. PICK new : new = [old EXCEPT !.orphan = TRUE]  OBVIOUS
  <2>3. new \in Execution /\ new.orphan /\ new.phase = old.phase /\ new.key = old.key  BY <2>2 DEF Execution
  <2>4. exec'[a] = CASE exec[a].orphan -> exec[a]
                     [] a = last /\ InWorker(a) -> new
                     [] OTHER -> NoExecution
    BY <1>2, <2>1, <2>2
  <2>5. CASE exec[a].orphan
    <3>0. old.orphan = TRUE  BY <2>1, <2>5 DEF Execution
    <3>2. new = old  BY <2>2, <2>3, <3>0 DEF Execution
    <3>1. exec'[a] = exec[a]  BY <2>1, <2>4, <2>5, <3>2
    <3> QED  BY <1>1, <2>5, <3>1
  <2>6. CASE ~exec[a].orphan /\ a = last /\ InWorker(a)  BY <2>1, <2>3, <2>4, <2>6
  <2>7. CASE ~exec[a].orphan /\ ~(a = last /\ InWorker(a))  BY <2>4, <2>7, NoExecutionFacts
  <2> QED  BY <2>5, <2>6, <2>7
<1>5. exec' \in [Slots -> Execution]  BY <1>2, <1>4
<1>6. attempts' \in [Slots -> Attempt] /\ \A a \in Slots : attempts'[a] = Idle  BY <1>3, IdleFacts
<1> QED  BY <1>4, <1>5, <1>6 DEF ApiCrash

\* The API dies; what was carried out stays so.
LEMMA AnswersCrash ==
  ASSUME OperationsInvariant, ApiCrash
  PROVE  OperationsInvariant'
<1> USE DEF OperationsInvariant
<1>1. OperationsTypeOK /\ OperationsShaped /\ AllEarned  OBVIOUS
<1>2. /\ attempts' \in [Slots -> Attempt] /\ \A a \in Slots : attempts'[a] = Idle
      /\ rows' = Disowned(Slots) /\ UNCHANGED <<project, backups, receipts, db, effects, strays>>
      /\ exec' \in [Slots -> Execution]
      /\ \A a \in Slots : exec'[a] = NoExecution \/ (exec'[a].phase = exec[a].phase /\ exec'[a].key = exec[a].key
                                                     /\ (exec'[a].orphan => exec[a].orphan \/ InWorker(a)))
  BY <1>1, CrashFacts
<1>3. Slots \in SUBSET Slots  OBVIOUS
<1>4. rows' \in [Keys -> Row] /\ \A k \in Keys : rows'[k].state = rows[k].state
  BY <1>1, <1>2, <1>3, DisownFacts DEF OperationsTypeOK
<1>5. OperationsTypeOK'  BY <1>1, <1>2, <1>4 DEF OperationsTypeOK
<1>6. OperationsShaped'  BY <1>1, <1>2, IdleFacts, NoExecutionFacts DEF OperationsShaped, Busy, Restoring, InWorker
<1>7. AllEarned'  BY <1>1, <1>2, <1>4, IdleFacts, NoExecutionFacts DEF AllEarned, Earned, Answered
<1> QED  BY <1>5, <1>6, <1>7

\* An execution nobody waits for ends.
LEMMA AnswersOrphan ==
  ASSUME OperationsInvariant, NEW a \in Slots, OrphanEnds(a)
  PROVE  OperationsInvariant'
<1> USE DEF OperationsInvariant
<1>1. OperationsTypeOK /\ OperationsShaped /\ AllEarned  OBVIOUS
<1>2. exec' = [exec EXCEPT ![a] = NoExecution] /\ attempts[a] = Idle  BY DEF OrphanEnds
<1>3. exec' \in [Slots -> Execution] /\ (\A b \in Slots : b # a => exec'[b] = exec[b]) /\ exec'[a] = NoExecution
  BY <1>1, <1>2, NoExecutionFacts, ExecSet DEF OperationsTypeOK
<1>4. UNCHANGED <<rows, attempts, project, backups, receipts, db, effects, strays>>  BY DEF OrphanEnds
<1>5. OperationsTypeOK'  BY <1>1, <1>3, <1>4 DEF OperationsTypeOK
<1>6. OperationsShaped'  BY <1>1, <1>2, <1>3, <1>4, IdleFacts, NoExecutionFacts DEF OperationsShaped, Busy, Restoring
<1>7. AllEarned'  BY <1>1, <1>3, <1>4, NoExecutionFacts DEF AllEarned, Earned, Answered
<1> QED  BY <1>5, <1>6, <1>7

\* A worker's step changes the phase of its execution.
LEMMA ShapeWorker ==
  ASSUME OperationsTypeOK, OperationsShaped, NEW a \in Slots, NEW phase \in ExecPhases \ {"none"}, Busy(a), exec' = Executed(a, phase),
         phase \in {"owner", "committed", "verified"} => exec[a].key \in RestoreKeys, attempts' = attempts
  PROVE  /\ OperationsShaped' /\ exec' \in [Slots -> Execution] /\ \A b \in Slots : b # a => exec'[b] = exec[b]
         /\ exec'[a].phase = phase /\ exec'[a].key = exec[a].key /\ exec'[a].orphan = exec[a].orphan
<1>1. /\ exec' \in [Slots -> Execution] /\ \A b \in Slots : b # a => exec'[b] = exec[b]
      /\ exec'[a].phase = phase /\ exec'[a].key = exec[a].key /\ exec'[a].orphan = exec[a].orphan
  BY ExecPhase DEF OperationsTypeOK
<1>2. OperationsShaped'  BY <1>1 DEF OperationsShaped, Busy, Restoring
<1> QED  BY <1>1, <1>2

\* A write and its usage receipt are one transaction.
LEMMA AnswersWrite ==
  ASSUME OperationsInvariant, NEW a \in Slots, ExecuteWrite(a)
  PROVE  OperationsInvariant'
<1> USE DEF OperationsInvariant
<1>1. OperationsTypeOK /\ OperationsShaped /\ AllEarned  OBVIOUS
<1>2. PICK key \in WriteKeys : key = exec[a].key  BY DEF ExecuteWrite
<1>3. Busy(a) /\ exec' = Executed(a, "ok") /\ UNCHANGED <<rows, attempts, project, backups, receipts, strays>>
  BY DEF ExecuteWrite, Busy
<1>4. /\ OperationsShaped' /\ exec' \in [Slots -> Execution] /\ \A b \in Slots : b # a => exec'[b] = exec[b]
      /\ exec'[a].phase = "ok" /\ exec'[a].key = key
  BY <1>1, <1>2, <1>3, ShapeWorker DEF ExecPhases
<1>5. CASE key \in db.usage
  <2>1. UNCHANGED <<db, effects>>  BY <1>2, <1>5 DEF ExecuteWrite
  <2>2. OperationsTypeOK'  BY <1>1, <1>3, <1>4, <2>1 DEF OperationsTypeOK
  <2>3. AllEarned'  BY <1>1, <1>2, <1>3, <1>4, <1>5, <2>1 DEF AllEarned, Earned, Answered
  <2> QED  BY <1>4, <2>2, <2>3
<1>6. CASE key \notin db.usage
  <2>1. PICK n : n = Capped(db.writes[key] + 1)  OBVIOUS
  <2>2. PICK old \in Database : old = db  BY <1>1 DEF OperationsTypeOK
  <2>3. old.writes \in [WriteKeys -> 0..2] /\ old.usage \subseteq WriteKeys  BY DEF Database
  <2>4. old.writes[key] = 0
    <3>1. db.writes[key] <= 0  BY <1>1, <1>6 DEF AllEarned
    <3> QED  BY <2>2, <2>3, <3>1
  <2>5. n = 1  BY <2>1, <2>2, <2>4 DEF Capped
  <2>6. db' = [db EXCEPT !.writes = [db.writes EXCEPT ![key] = n], !.usage = db.usage \cup {key}]
    BY <1>2, <1>6, <2>1 DEF ExecuteWrite
  <2>7. effects' = [effects EXCEPT ![key] = Capped(@ + 1)]  BY <1>2, <1>6 DEF ExecuteWrite
  <2>8. PICK counts : counts = [old.writes EXCEPT ![key] = n]  OBVIOUS
  <2>9. PICK stored : stored = old.usage \cup {key}  OBVIOUS
  <2>10. /\ counts \in [WriteKeys -> 0..2] /\ stored \in SUBSET WriteKeys
         /\ counts[key] = 1 /\ \A k \in WriteKeys : k # key => counts[k] = old.writes[k]
    BY <2>3, <2>5, <2>8, <2>9
  <2>11. db' = [old EXCEPT !.writes = counts, !.usage = stored]  BY <2>2, <2>6, <2>8, <2>9
  <2>12. db' \in Database /\ db'.writes = counts /\ db'.usage = stored /\ db'.marker = db.marker
    BY <2>2, <2>10, <2>11 DEF Database
  <2>13. /\ effects' \in [Keys -> 0..2] /\ effects'[key] >= 1
         /\ \A l \in Keys : effects'[l] >= effects[l] /\ effects[l] \in 0..2 /\ effects'[l] \in 0..2
    BY <1>1, <2>7, EffectFacts DEF OperationsTypeOK, Keys
  <2>14. OperationsTypeOK'  BY <1>1, <1>3, <1>4, <2>12, <2>13 DEF OperationsTypeOK
  <2>15. \A k \in Keys : Earned(k) => Earned(k)'  BY <2>13 DEF Earned
  <2>16. AllEarned'
    <3>1. \A b \in Slots : exec'[b].phase \in {"ok", "committed", "verified"} => Earned(exec[b].key)'
      <4> SUFFICES ASSUME NEW b \in Slots, exec'[b].phase \in {"ok", "committed", "verified"} PROVE Earned(exec[b].key)'
        OBVIOUS
      <4>1. CASE b = a  BY <1>4, <2>13, <4>1 DEF Earned
      <4>2. CASE b # a
        <5>1. exec'[b] = exec[b] /\ exec[b].key \in Keys /\ Earned(exec[b].key)
          BY <1>1, <1>4, <4>2 DEF AllEarned, OperationsShaped, Busy
        <5> QED  BY <2>15, <5>1 DEF Earned
      <4> QED  BY <4>1, <4>2
    <3>2. \A b \in Slots : attempts'[b].phase \in {"returned", "persisted", "answered"} => Answered(attempts[b].key)'
      BY <1>1, <1>3, <2>15 DEF AllEarned, OperationsShaped, Earned, Answered
    <3>3. \A k \in Keys : rows'[k].state = "done" => Answered(k)'  BY <1>1, <1>3, <2>15 DEF AllEarned, Answered
    <3>4. \A k \in RestoreKeys : receipts'[k] = "completed" \/ db'.marker = k => Earned(k)'
      BY <1>1, <1>3, <2>12, <2>15 DEF AllEarned, Keys
    <3>5. \A k \in WriteKeys : k \in db'.usage => Earned(k)'
      <4>1. Earned(key)'  BY <2>13 DEF Earned
      <4> QED  BY <1>1, <2>2, <2>9, <2>12, <2>15, <4>1 DEF AllEarned, Keys
    <3>6. \A k \in WriteKeys : db'.writes[k] <= (IF k \in db'.usage THEN 1 ELSE 0)
      BY <1>1, <2>2, <2>9, <2>10, <2>12 DEF AllEarned
    <3> QED  BY <3>1, <3>2, <3>3, <3>4, <3>5, <3>6 DEF AllEarned, Earned, Answered
  <2> QED  BY <1>4, <2>14, <2>16
<1> QED  BY <1>5, <1>6

\* What the worker does to the receipts and to its execution.
LEMMA ReceiptFacts ==
  ASSUME OperationsTypeOK, OperationsShaped, NEW a \in Slots, CreateReceipt(a) \/ ReadReceipt(a) \/ CompleteReceipt(a)
  PROVE  \E key \in RestoreKeys : \E phase \in {"owner", "ok", "failed", "unknown"} :
           /\ key = exec[a].key /\ Busy(a) /\ exec' = Executed(a, phase)
           /\ UNCHANGED <<rows, attempts, project, backups, db, effects, strays>>
           /\ receipts' \in [RestoreKeys -> {"none", "started", "completed", "torn"}]
           /\ \A k \in RestoreKeys : k # key => receipts'[k] = receipts[k]
           /\ exec[a].phase = "verified" \/ (exec[a].phase = "queued" /\ Free(a))
           /\ \/ phase = "ok" /\ receipts'[key] = "completed"
                 /\ (receipts[key] = "completed" \/ db.marker = key \/ exec[a].phase = "verified")
              \/ phase = "owner" /\ receipts'[key] = "started" /\ exec[a].phase = "queued"
                 /\ (receipts[key] = "none" \/ (receipts[key] = "started" /\ db.marker = Nothing))
              \/ phase = "unknown" /\ receipts' = receipts
              \/ phase = "failed" /\ receipts[key] = "none" /\ receipts'[key] = "torn"
<1> USE DEF OperationsTypeOK
<1>0. receipts \in [RestoreKeys -> {"none", "started", "completed", "torn"}]  OBVIOUS
<1>1. CASE CreateReceipt(a)
  <2>1. PICK key \in RestoreKeys : key = exec[a].key  BY <1>1 DEF CreateReceipt
  <2>2. Busy(a) /\ exec[a].phase = "queued" /\ Free(a) /\ receipts[key] = "none"
    BY <1>1, <2>1 DEF CreateReceipt, Busy
  <2>3. UNCHANGED <<rows, attempts, project, backups, db, effects, strays>>  BY <1>1 DEF CreateReceipt
  <2>4. CASE receipts' = [receipts EXCEPT ![key] = "started"] /\ exec' = Executed(a, "owner")
    BY <1>0, <2>1, <2>2, <2>3, <2>4
  <2>5. CASE receipts' = [receipts EXCEPT ![key] = "torn"] /\ exec' = Executed(a, "failed")
    BY <1>0, <2>1, <2>2, <2>3, <2>5
  <2> QED  BY <1>1, <2>1, <2>4, <2>5 DEF CreateReceipt
<1>2. CASE ReadReceipt(a)
  <2>1. PICK key \in RestoreKeys : key = exec[a].key  BY <1>2 DEF ReadReceipt
  <2>2. Busy(a) /\ exec[a].phase = "queued" /\ Free(a) /\ receipts[key] # "none"
    BY <1>2, <2>1 DEF ReadReceipt, Busy
  <2>3. UNCHANGED <<rows, attempts, project, backups, db, effects, strays>>  BY <1>2 DEF ReadReceipt
  <2>4. PICK phase : phase = CASE receipts[key] = "torn"      -> "unknown"
                               [] receipts[key] = "completed" -> "ok"
                               [] receipts[key] = "started"   ->
                                    CASE db.marker = key     -> "ok"
                                      [] db.marker = Nothing -> "owner"
                                      [] OTHER               -> "unknown"
    OBVIOUS
  <2>5. exec' = Executed(a, phase)  BY <1>2, <2>1, <2>4 DEF ReadReceipt
  <2>6. key # Nothing  BY OperationsAssumption DEF Keys
  <2>7. /\ phase \in {"ok", "owner", "unknown"}
        /\ phase = "ok" => receipts[key] = "completed" \/ db.marker = key
        /\ phase = "owner" => receipts[key] = "started" /\ db.marker = Nothing
    <3>1. receipts[key] \in {"started", "completed", "torn"}  BY <1>0, <2>2
    <3>2. CASE receipts[key] = "torn"  BY <2>4, <3>2
    <3>3. CASE receipts[key] = "completed"  BY <2>4, <3>3
    <3>4. CASE receipts[key] = "started"
      <4>1. phase = CASE db.marker = key     -> "ok"
                      [] db.marker = Nothing -> "owner"
                      [] OTHER               -> "unknown"
        BY <2>4, <3>4
      <4>2. CASE db.marker = key  BY <2>6, <4>1, <4>2, <3>4
      <4>3. CASE db.marker = Nothing  BY <2>6, <4>1, <4>3, <3>4
      <4>4. CASE db.marker \notin {key, Nothing}  BY <4>1, <4>4
      <4> QED  BY <4>2, <4>3, <4>4
    <3> QED  BY <3>1, <3>2, <3>3, <3>4
  <2>8. exec'[a].phase = phase  BY <2>5, <2>7, ExecPhase DEF ExecPhases
  <2>9. receipts' = [receipts EXCEPT ![key] = IF phase = "ok" THEN "completed" ELSE @]
    BY <1>2, <2>1, <2>8 DEF ReadReceipt
  <2>10. /\ receipts' \in [RestoreKeys -> {"none", "started", "completed", "torn"}]
         /\ \A k \in RestoreKeys : k # key => receipts'[k] = receipts[k]
         /\ receipts'[key] = IF phase = "ok" THEN "completed" ELSE receipts[key]
    BY <1>0, <2>9
  <2>11. phase # "ok" => receipts' = receipts  BY <1>0, <2>9
  <2> QED  BY <2>1, <2>2, <2>3, <2>5, <2>7, <2>10, <2>11
<1>3. CASE CompleteReceipt(a)
  <2>1. PICK key \in RestoreKeys : key = exec[a].key  BY <1>3 DEF CompleteReceipt, OperationsShaped, Restoring
  <2>2. Busy(a) /\ exec[a].phase = "verified" /\ exec' = Executed(a, "ok")
        /\ receipts' = [receipts EXCEPT ![key] = "completed"]
    BY <1>3, <2>1 DEF CompleteReceipt, Busy
  <2>3. UNCHANGED <<rows, attempts, project, backups, db, effects, strays>>  BY <1>3 DEF CompleteReceipt
  <2> QED  BY <1>0, <2>1, <2>2, <2>3
<1> QED  BY <1>1, <1>2, <1>3

\* Every step of a worker gives its execution another phase.
LEMMA WorkerPhase ==
  ASSUME OperationsTypeOK, OperationsShaped, NEW a \in Slots, Worker(a) \/ ExecutionFails(a)
  PROVE  \E phase \in ExecPhases \ {"none"} : exec' = Executed(a, phase)
<1>1. CASE CreateReceipt(a) \/ ReadReceipt(a) \/ CompleteReceipt(a)
  <2>1. PICK phase \in {"owner", "ok", "failed", "unknown"} : exec' = Executed(a, phase)  BY <1>1, ReceiptFacts
  <2> QED  BY <2>1 DEF ExecPhases
<1>2. CASE ExecuteWrite(a) \/ CommitRestore(a) \/ VerifyRestore(a) \/ ExecutionFails(a)
  <2>1. PICK phase \in {"ok", "committed", "verified", "failed"} : exec' = Executed(a, phase)
    BY <1>2 DEF ExecuteWrite, CommitRestore, VerifyRestore, ExecutionFails
  <2> QED  BY <2>1 DEF ExecPhases
<1> QED  BY <1>1, <1>2 DEF Worker

\* A completed receipt is of a restore that was committed.
LEMMA AnswersReceipt ==
  ASSUME OperationsInvariant, NEW a \in Slots, CreateReceipt(a) \/ ReadReceipt(a) \/ CompleteReceipt(a)
  PROVE  OperationsInvariant'
<1> USE DEF OperationsInvariant
<1>1. OperationsTypeOK /\ OperationsShaped /\ AllEarned  OBVIOUS
<1>2. PICK key \in RestoreKeys, phase \in {"owner", "ok", "failed", "unknown"} :
           /\ key = exec[a].key /\ Busy(a) /\ exec' = Executed(a, phase)
           /\ UNCHANGED <<rows, attempts, project, backups, db, effects, strays>>
           /\ receipts' \in [RestoreKeys -> {"none", "started", "completed", "torn"}]
           /\ \A k \in RestoreKeys : k # key => receipts'[k] = receipts[k]
           /\ \/ phase = "ok" /\ receipts'[key] = "completed"
                 /\ (receipts[key] = "completed" \/ db.marker = key \/ exec[a].phase = "verified")
              \/ phase = "owner" /\ receipts'[key] = "started"
              \/ phase = "unknown" /\ receipts' = receipts
              \/ phase = "failed" /\ receipts'[key] = "torn"
  BY <1>1, ReceiptFacts
<1>3. /\ OperationsShaped' /\ exec' \in [Slots -> Execution] /\ \A b \in Slots : b # a => exec'[b] = exec[b]
      /\ exec'[a].phase = phase /\ exec'[a].key = key
  BY <1>1, <1>2, ShapeWorker DEF ExecPhases
<1>4. OperationsTypeOK'  BY <1>1, <1>2, <1>3 DEF OperationsTypeOK
<1>5. phase = "ok" => Earned(key)  BY <1>1, <1>2 DEF AllEarned
<1>6. \A k \in RestoreKeys : receipts'[k] = "completed" => Earned(k)  BY <1>1, <1>2, <1>5 DEF AllEarned
<1>7. AllEarned'  BY <1>1, <1>2, <1>3, <1>5, <1>6 DEF AllEarned, Earned, Answered
<1> QED  BY <1>3, <1>4, <1>7

\* The restored image holds the marker and none of the writes.
LEMMA AnswersCommit ==
  ASSUME OperationsInvariant, NEW a \in Slots, CommitRestore(a)
  PROVE  OperationsInvariant'
<1> USE DEF OperationsInvariant
<1>1. OperationsTypeOK /\ OperationsShaped /\ AllEarned  OBVIOUS
<1>2. PICK key \in RestoreKeys : key = exec[a].key  BY <1>1 DEF CommitRestore, OperationsShaped, Restoring
<1>3. Busy(a) /\ exec' = Executed(a, "committed") /\ UNCHANGED <<rows, attempts, project, backups, receipts, strays>>
  BY DEF CommitRestore, Busy
<1>4. /\ OperationsShaped' /\ exec' \in [Slots -> Execution] /\ \A b \in Slots : b # a => exec'[b] = exec[b]
      /\ exec'[a].phase = "committed" /\ exec'[a].key = key
  BY <1>1, <1>2, <1>3, ShapeWorker DEF ExecPhases
<1>5. db' = [writes |-> [k \in WriteKeys |-> 0], usage |-> {}, marker |-> key, verified |-> FALSE]
  BY <1>2 DEF CommitRestore
<1>6. /\ db' \in Database /\ db'.usage = {} /\ db'.marker = key /\ \A k \in WriteKeys : db'.writes[k] = 0
  BY <1>5 DEF Database
<1>7. effects' = [effects EXCEPT ![key] = Capped(@ + 1)]  BY <1>2 DEF CommitRestore
<1>8. /\ effects' \in [Keys -> 0..2] /\ effects'[key] >= 1
      /\ \A l \in Keys : effects'[l] >= effects[l] /\ effects[l] \in 0..2 /\ effects'[l] \in 0..2
  BY <1>1, <1>7, EffectFacts DEF OperationsTypeOK, Keys
<1>9. OperationsTypeOK'  BY <1>1, <1>3, <1>4, <1>6, <1>8 DEF OperationsTypeOK
<1>10. \A k \in Keys : Earned(k) => Earned(k)'  BY <1>8 DEF Earned
<1>11. AllEarned'
  <2>1. \A b \in Slots : exec'[b].phase \in {"ok", "committed", "verified"} => Earned(exec[b].key)'
    <3> SUFFICES ASSUME NEW b \in Slots, exec'[b].phase \in {"ok", "committed", "verified"} PROVE Earned(exec[b].key)'
      OBVIOUS
    <3>1. CASE b = a  BY <1>4, <1>8, <3>1 DEF Earned
    <3>2. CASE b # a
      <4>1. exec'[b] = exec[b] /\ exec[b].key \in Keys /\ Earned(exec[b].key)
        BY <1>1, <1>4, <3>2 DEF AllEarned, OperationsShaped, Busy
      <4> QED  BY <1>10, <4>1 DEF Earned
    <3> QED  BY <3>1, <3>2
  <2>2. \A b \in Slots : attempts'[b].phase \in {"returned", "persisted", "answered"} => Answered(attempts[b].key)'
    BY <1>1, <1>3, <1>10 DEF AllEarned, OperationsShaped, Earned, Answered
  <2>3. \A k \in Keys : rows'[k].state = "done" => Answered(k)'  BY <1>1, <1>3, <1>10 DEF AllEarned, Answered
  <2>4. \A k \in RestoreKeys : receipts'[k] = "completed" \/ db'.marker = k => Earned(k)'
    <3>1. Earned(key)'  BY <1>8 DEF Earned
    <3> QED  BY <1>1, <1>3, <1>6, <1>10, <3>1 DEF AllEarned, Keys
  <2>5. \A k \in WriteKeys : db'.writes[k] <= (IF k \in db'.usage THEN 1 ELSE 0)  BY <1>6
  <2> QED  BY <1>6, <2>1, <2>2, <2>3, <2>4, <2>5 DEF AllEarned, Earned, Answered
<1> QED  BY <1>4, <1>9, <1>11

\* The verification of the image, or a failure of the worker.
LEMMA AnswersVerify ==
  ASSUME OperationsInvariant, NEW a \in Slots, VerifyRestore(a) \/ ExecutionFails(a)
  PROVE  OperationsInvariant'
<1> USE DEF OperationsInvariant
<1>1. OperationsTypeOK /\ OperationsShaped /\ AllEarned  OBVIOUS
<1>2. PICK phase \in {"verified", "failed"} :
        /\ Busy(a) /\ exec' = Executed(a, phase) /\ UNCHANGED <<rows, attempts, project, backups, receipts, effects, strays>>
        /\ phase = "verified" => exec[a].phase = "committed"
  BY DEF VerifyRestore, ExecutionFails, Busy
<1>3. /\ OperationsShaped' /\ exec' \in [Slots -> Execution] /\ \A b \in Slots : b # a => exec'[b] = exec[b]
      /\ exec'[a].phase = phase /\ exec'[a].key = exec[a].key
  <2>1. phase = "verified" => exec[a].key \in RestoreKeys  BY <1>1, <1>2 DEF OperationsShaped, Restoring
  <2> QED  BY <1>1, <1>2, <2>1, ShapeWorker DEF ExecPhases
<1>4. db' \in Database /\ db'.writes = db.writes /\ db'.usage = db.usage /\ db'.marker = db.marker
  <2>1. PICK old \in Database : old = db  BY <1>1 DEF OperationsTypeOK
  <2>2. db' = db \/ db' = [old EXCEPT !.verified = TRUE]  BY <2>1 DEF VerifyRestore, ExecutionFails
  <2> QED  BY <2>1, <2>2 DEF Database
<1>5. OperationsTypeOK'  BY <1>1, <1>2, <1>3, <1>4 DEF OperationsTypeOK
<1>6. AllEarned'  BY <1>1, <1>2, <1>3, <1>4 DEF AllEarned, Earned, Answered
<1> QED  BY <1>3, <1>5, <1>6

\* Every step keeps every record of a success earned.
LEMMA AnswersStep ==
  ASSUME OperationsInvariant, [Next]_operationVars
  PROVE  OperationsInvariant'
<1>1. CASE UNCHANGED operationVars
  <2>1. UNCHANGED <<rows, attempts, exec, project, backups, receipts, db, effects, strays>>  BY <1>1 DEF operationVars
  <2> QED  BY <2>1, BackedRows DEF OperationsInvariant, OperationsTypeOK
<1>2. CASE Next
  <2>1. CASE ApiCrash  BY <2>1, AnswersCrash
  <2>2. CASE \E k \in Keys : LeaseExpires(k) \/ PurgeExpired(k)  BY <2>2, AnswersLeases
  <2>3. ASSUME NEW a \in Slots, \E k \in Keys : Admit(a, k) \/ Replay(a, k) PROVE OperationsInvariant'
    BY <2>3, AnswersAdmit
  <2>4. ASSUME NEW a \in Slots, Dispatch(a) PROVE OperationsInvariant'
    BY <2>4, AnswersMove, AnswersExecute, AnswersReturn, AnswersComplete, AnswersEnd DEF Dispatch
  <2>5. ASSUME NEW a \in Slots, Worker(a) PROVE OperationsInvariant'
    BY <2>5, AnswersWrite, AnswersReceipt, AnswersCommit, AnswersVerify DEF Worker
  <2>6. ASSUME NEW a \in Slots, Failure(a) PROVE OperationsInvariant'
    BY <2>6, AnswersEnd, AnswersStray, AnswersVerify DEF Failure
  <2>7. ASSUME NEW a \in Slots, Renew(a) \/ OrphanEnds(a) PROVE OperationsInvariant'
    BY <2>7, AnswersRenew, AnswersOrphan
  <2> QED  BY <1>2, <2>1, <2>2, <2>3, <2>4, <2>5, <2>6, <2>7 DEF Next
<1> QED  BY <1>1, <1>2

\* Initially nothing was carried out, and nothing is recorded.
LEMMA AnswersInit == Init => OperationsInvariant
<1> SUFFICES ASSUME Init PROVE OperationsInvariant  OBVIOUS
<1>1. Absent \in Row /\ Absent.state = "absent"  BY DEF Absent, Row
<1>2. /\ \A k \in Keys : rows[k] = Absent
      /\ \A a \in Slots : attempts[a] = Idle /\ exec[a] = NoExecution
      /\ \A k \in RestoreKeys : receipts[k] = "none"
      /\ db.marker = Nothing /\ db.usage = {} /\ \A k \in WriteKeys : db.writes[k] = 0
  BY DEF Init
<1>3. OperationsTypeOK
  <2>1. db \in Database  BY DEF Init, Database
  <2> QED  BY <1>1, <2>1, IdleFacts, NoExecutionFacts DEF Init, OperationsTypeOK
<1>4. OperationsShaped  BY <1>2, IdleFacts, NoExecutionFacts DEF OperationsShaped, Busy, Restoring
<1>5. AllEarned
  <2>1. \A k \in RestoreKeys : k # Nothing  BY OperationsAssumption DEF Keys
  <2> QED  BY <1>1, <1>2, <2>1, IdleFacts, NoExecutionFacts DEF AllEarned
<1> QED  BY <1>3, <1>4, <1>5 DEF OperationsInvariant

\* The success of a restore is answered for a restore of its key that was
\* carried out, that of a write for a write that was, unless its key was given
\* the answer to another request, and the database never holds the write of a
\* key twice, for any number of dispatches, keys and backups and under every
\* fault: crashes of the API and of workers, lost leases, lost and mismatched
\* answers (dispatch, restore_response_matches, complete,
\* execute_metered_operation).
THEOREM AnswersBackedHolds == Spec => []AnswersBacked
<1>1. OperationsInvariant => AnswersBacked
  <2> SUFFICES ASSUME OperationsInvariant PROVE AnswersBacked  OBVIOUS
  <2>1. OperationsTypeOK /\ AllEarned  BY DEF OperationsInvariant
  <2>2. WriteOnce
    <3> SUFFICES ASSUME NEW k \in WriteKeys PROVE db.writes[k] <= 1  BY DEF WriteOnce
    <3>1. db.writes[k] \in 0..2  BY <2>1 DEF OperationsTypeOK, Database
    <3> QED  BY <2>1, <3>1 DEF AllEarned
  <2>3. AnswersEarned  BY <2>1 DEF AllEarned, Earned, Answered, AnswersEarned
  <2> QED  BY <2>1, <2>2, <2>3 DEF AnswersBacked
<1> QED  BY <1>1, AnswersInit, AnswersStep, PTL DEF Spec

-----------------------------------------------------------------------------

\* No dispatch loses its row, and no row changes hands: what others hold stays.
LEMMA LeasedRows ==
  ASSUME OperationsShaped, Leased, UNCHANGED <<attempts, exec>>,
         \A k \in Keys : \A owner \in Slots : Held(k, owner) => Held(k, owner)',
         \A a \in Slots : Busy(a) /\ exec[a].orphan /\ Held(exec[a].key, Nobody) => Held(exec[a].key, Nobody)'
  PROVE  Leased'
<1>1. \A a \in Slots : Serving(a) => Held(attempts[a].key, a)'  BY DEF Leased, OperationsShaped, Serving
<1>2. \A a \in Slots : Busy(a) /\ exec[a].orphan => attempts[a] = Idle /\ Held(exec[a].key, Nobody)'  BY DEF Leased
<1> QED  BY <1>1, <1>2 DEF Leased, Serving, Busy, Held

\* A lease runs out, or a row is purged, when no dispatch holds it and no execution of its key was left behind.
LEMMA LeasedKeys ==
  ASSUME OperationsInvariant, LeasesKept, Leased, NEW k \in Keys, LeaseExpires(k) \/ PurgeExpired(k)
  PROVE  Leased'
<1>1. rows \in [Keys -> Row] /\ OperationsShaped  BY DEF OperationsInvariant, OperationsTypeOK
<1>2. UNCHANGED <<attempts, exec>>  BY DEF LeaseExpires, PurgeExpired
<1>3. \A l \in Keys : l # k => rows'[l] = rows[l]  BY <1>1 DEF LeaseExpires, PurgeExpired
<1>4. \A owner \in Slots : ~Held(k, owner)
  BY OperationsAssumption DEF LeaseExpires, PurgeExpired, Held, LeasesKept
<1>5. \A a \in Slots : exec[a].orphan /\ exec[a].key = k => ~Held(k, Nobody)
  BY DEF LeaseExpires, PurgeExpired, Held
<1>6. \A l \in Keys : \A owner \in Slots : Held(l, owner) => Held(l, owner)'  BY <1>3, <1>4 DEF Held
<1>7. \A a \in Slots : Busy(a) /\ exec[a].orphan /\ Held(exec[a].key, Nobody) => Held(exec[a].key, Nobody)'
  BY <1>1, <1>2, <1>3, <1>5 DEF Held, OperationsShaped
<1> QED  BY <1>1, <1>2, <1>6, <1>7, LeasedRows

\* A row is taken over only when it is not held.
LEMMA LeasedAdmit ==
  ASSUME OperationsInvariant, Leased, NEW a \in Slots, NEW k \in Keys, Admit(a, k) \/ Replay(a, k)
  PROVE  Leased'
<1>1. OperationsTypeOK /\ OperationsShaped  BY DEF OperationsInvariant
<1>2. exec' = exec /\ exec[a] = NoExecution /\ \A b \in Slots : b # a => attempts'[b] = attempts[b]
  BY <1>1 DEF Admit, Replay, OperationsTypeOK
<1>3. ~Busy(a) /\ ~Busy(a)'  BY <1>2, NoExecutionFacts DEF Busy
<1>4. \A l \in Keys : \A owner : Held(l, owner) => Held(l, owner)'
  <2>1. CASE Admit(a, k)
    <3>1. \A l \in Keys : l # k => rows'[l] = rows[l]  BY <1>1, <2>1 DEF Admit, OperationsTypeOK
    <3>2. \A owner : ~Held(k, owner)  BY <2>1 DEF Admit, Held
    <3> QED  BY <3>1, <3>2 DEF Held
  <2>2. CASE Replay(a, k)  BY <2>2 DEF Replay, Held
  <2> QED  BY <2>1, <2>2
<1>5. Serving(a)' => Held(attempts[a].key, a)'
  <2>1. CASE Admit(a, k)
    <3>1. attempts'[a] = [phase |-> "owner", key |-> k]  BY <1>1, <2>1 DEF Admit, OperationsTypeOK
    <3>2. rows'[k] = [state |-> "held", owner |-> a, live |-> TRUE]  BY <1>1, <2>1 DEF Admit, OperationsTypeOK
    <3> QED  BY <3>1, <3>2 DEF Held
  <2>2. CASE Replay(a, k)
    <3>1. attempts'[a] = [phase |-> "answered", key |-> k]  BY <1>1, <2>2 DEF Replay, OperationsTypeOK
    <3> QED  BY <3>1 DEF Serving
  <2> QED  BY <2>1, <2>2
<1>6. \A b \in Slots : Serving(b)' => Held(attempts[b].key, b)'
  <2> SUFFICES ASSUME NEW b \in Slots, b # a, Serving(b)' PROVE Held(attempts[b].key, b)'  BY <1>5
  <2>1. Serving(b) /\ attempts'[b] = attempts[b]  BY <1>2 DEF Serving
  <2>2. attempts[b].key \in Keys /\ Held(attempts[b].key, b)  BY <1>1, <2>1 DEF OperationsShaped, Leased, Serving
  <2>3. PICK l \in Keys : l = attempts[b].key  BY <2>2
  <2>4. Held(l, b)'  BY <1>4, <2>2, <2>3
  <2> QED  BY <2>1, <2>3, <2>4 DEF Held
<1>7. \A b \in Slots : Busy(b)' /\ exec'[b].orphan => attempts'[b] = Idle /\ Held(exec[b].key, Nobody)'
  <2> SUFFICES ASSUME NEW b \in Slots, Busy(b)', exec'[b].orphan
      PROVE  attempts'[b] = Idle /\ Held(exec[b].key, Nobody)'
    OBVIOUS
  <2>1. b # a /\ Busy(b) /\ exec[b].orphan /\ attempts'[b] = attempts[b]  BY <1>2, <1>3 DEF Busy
  <2>2. PICK l \in Keys : l = exec[b].key  BY <1>1, <2>1 DEF OperationsShaped
  <2>3. attempts[b] = Idle /\ Held(l, Nobody)  BY <2>1, <2>2 DEF Leased
  <2>4. Held(l, Nobody)'  BY <1>4, <2>3
  <2> QED  BY <1>2, <2>1, <2>2, <2>3, <2>4 DEF Held
<1>8. \A b \in Slots : Busy(b)' /\ ~exec'[b].orphan => attempts'[b].phase = "waiting"
  BY <1>2, <1>3 DEF Leased, Busy
<1>9. \A b, c \in Slots : Busy(b)' /\ Busy(c)' /\ exec'[b].key = exec'[c].key => b = c
  BY <1>2 DEF Leased, Busy
<1> QED  BY <1>6, <1>7, <1>8, <1>9 DEF Leased

\* The steps of a dispatch that holds its row on, without an execution before and after.
LEMMA LeasedMove ==
  ASSUME OperationsInvariant, Leased, NEW a \in Slots, ResolveRoute(a) \/ BeginRestoreLifecycle(a) \/ PersistResult(a)
  PROVE  Leased'
<1>1. OperationsTypeOK /\ OperationsShaped  BY DEF OperationsInvariant
<1>2. PICK phase \in {"routed", "fenced", "persisted"} :
        /\ attempts' = [attempts EXCEPT ![a].phase = phase]
        /\ attempts[a].phase \in {"owner", "routed", "returned"}
  BY DEF ResolveRoute, BeginRestoreLifecycle, PersistResult
<1>3. /\ \A b \in Slots : b # a => attempts'[b] = attempts[b]
      /\ attempts'[a].phase = phase /\ attempts'[a].key = attempts[a].key
  BY <1>1, <1>2, AttemptPhase DEF OperationsTypeOK, AttemptPhases
<1>4. UNCHANGED <<rows, exec>>  BY DEF ResolveRoute, BeginRestoreLifecycle, PersistResult
<1>5. ~Busy(a)  BY <1>2, IdleFacts DEF Leased
<1> QED  BY <1>2, <1>3, <1>4, <1>5 DEF Leased, Serving, Busy, Held

\* A dispatch that holds its row starts the only execution of its key.
LEMMA LeasedExecute ==
  ASSUME OperationsInvariant, Leased, NEW a \in Slots, Execute(a)
  PROVE  Leased'
<1>1. OperationsTypeOK /\ OperationsShaped  BY DEF OperationsInvariant
<1>2. attempts' = [attempts EXCEPT ![a].phase = "waiting"] /\ attempts[a].phase \in {"routed", "fenced"}  BY DEF Execute
<1>3. /\ \A b \in Slots : b # a => attempts'[b] = attempts[b]
      /\ attempts'[a].phase = "waiting" /\ attempts'[a].key = attempts[a].key
  BY <1>1, <1>2, AttemptPhase DEF OperationsTypeOK, AttemptPhases
<1>4. exec'[a] = [phase |-> "queued", key |-> attempts[a].key, orphan |-> FALSE] /\ rows' = rows
      /\ \A b \in Slots : b # a => exec'[b] = exec[b]
  BY <1>1 DEF Execute, OperationsTypeOK
<1>5. exec'[a].key = attempts[a].key /\ exec'[a].orphan = FALSE  BY <1>4
<1>6. Held(attempts[a].key, a) /\ attempts[a].key \in Keys  BY <1>1, <1>2 DEF Leased, Serving, OperationsShaped
<1>7. ASSUME NEW b \in Slots, b # a, Busy(b) PROVE exec[b].key # attempts[a].key
  <2>1. CASE exec[b].orphan
    <3>1. Held(exec[b].key, Nobody)  BY <1>7, <2>1 DEF Leased
    <3> QED  BY <1>6, <3>1, OperationsAssumption DEF Held
  <2>2. CASE ~exec[b].orphan
    <3>1. attempts[b].phase = "waiting"  BY <1>7, <2>2 DEF Leased
    <3>2. Held(attempts[b].key, b) /\ exec[b].key = attempts[b].key  BY <1>1, <3>1 DEF Leased, Serving, OperationsShaped
    <3> QED  BY <1>6, <1>7, <3>2 DEF Held
  <2> QED  BY <2>1, <2>2
<1>8. \A b \in Slots : Serving(b)' => Held(attempts[b].key, b)'
  BY <1>2, <1>3, <1>4, <1>6 DEF Leased, Serving, Held
<1>9. \A b \in Slots : Busy(b)' /\ exec'[b].orphan => attempts'[b] = Idle /\ Held(exec[b].key, Nobody)'
  BY <1>3, <1>4, <1>5 DEF Leased, Busy, Held
<1>10. \A b \in Slots : Busy(b)' /\ ~exec'[b].orphan => attempts'[b].phase = "waiting"
  BY <1>3, <1>4 DEF Leased, Busy
<1>11. \A b, c \in Slots : Busy(b)' /\ Busy(c)' /\ exec'[b].key = exec'[c].key => b = c
  BY <1>4, <1>5, <1>7 DEF Leased, Busy
<1> QED  BY <1>8, <1>9, <1>10, <1>11 DEF Leased

\* A dispatch takes its result.
LEMMA LeasedReturn ==
  ASSUME OperationsInvariant, Leased, NEW a \in Slots, Return(a)
  PROVE  Leased'
<1>1. OperationsTypeOK /\ OperationsShaped  BY DEF OperationsInvariant
<1>2. attempts' = [attempts EXCEPT ![a].phase = "returned"] /\ attempts[a].phase = "waiting" /\ rows' = rows
  BY DEF Return
<1>3. /\ \A b \in Slots : b # a => attempts'[b] = attempts[b]
      /\ attempts'[a].phase = "returned" /\ attempts'[a].key = attempts[a].key
  BY <1>1, <1>2, AttemptPhase DEF OperationsTypeOK, AttemptPhases
<1>4. exec'[a] = NoExecution /\ \A b \in Slots : b # a => exec'[b] = exec[b]
  BY <1>1 DEF Return, OperationsTypeOK
<1>5. ~Busy(a)'  BY <1>4, NoExecutionFacts DEF Busy
<1> QED  BY <1>2, <1>3, <1>4, <1>5 DEF Leased, Serving, Busy, Held

\* The steps that end a dispatch: it has no execution afterwards, and the rows of others are left alone.
LEMMA LeasedEnd ==
  ASSUME OperationsInvariant, LeasesKept, Leased, NEW a \in Slots,
         ExecutionError(a) \/ MismatchedAnswer(a) \/ GiveUp(a) \/ LoseClaim(a) \/ Answer(a) \/ Complete(a)
  PROVE  Leased'
<1>1. OperationsTypeOK /\ OperationsShaped  BY DEF OperationsInvariant
<1>2. attempts[a].phase \in {"owner", "routed", "fenced", "waiting", "returned", "persisted", "answered"}
      /\ attempts[a].key \in Keys
  BY <1>1 DEF OperationsShaped, ExecutionError, MismatchedAnswer, LeftBehind, GiveUp, LoseClaim, Answer, Complete
<1>3. ~MismatchedAnswer(a)  BY OwnAnswers DEF LeasesKept
<1>4. /\ \A b \in Slots : b # a => attempts'[b] = attempts[b] /\ exec'[b] = exec[b]
      /\ ~Serving(a)' /\ ~Busy(a)'
  <2>1. CASE ExecutionError(a)
    <3>1. attempts'[a] = Idle /\ exec'[a] = NoExecution /\ \A b \in Slots : b # a => attempts'[b] = attempts[b] /\ exec'[b] = exec[b]
      BY <1>1, <2>1 DEF ExecutionError, OperationsTypeOK
    <3> QED  BY <3>1, IdleFacts, NoExecutionFacts DEF Serving, Busy
  <2>2. CASE GiveUp(a) \/ LoseClaim(a) \/ Answer(a)
    <3>1. attempts'[a] = Idle /\ exec' = exec /\ \A b \in Slots : b # a => attempts'[b] = attempts[b]
      BY <1>1, <2>2 DEF GiveUp, LoseClaim, Answer, OperationsTypeOK
    <3>2. attempts[a].phase # "waiting" /\ attempts[a].phase # "idle"  BY <2>2 DEF GiveUp, LoseClaim, Answer
    <3>3. ~Busy(a)  BY <3>2, IdleFacts DEF Leased
    <3> QED  BY <3>1, <3>3, IdleFacts DEF Serving, Busy
  <2>3. CASE Complete(a)
    <3>1. attempts' = [attempts EXCEPT ![a].phase = "answered"] /\ exec' = exec /\ attempts[a].phase = "persisted"
      BY <2>3 DEF Complete
    <3>2. attempts'[a].phase = "answered" /\ \A b \in Slots : b # a => attempts'[b] = attempts[b]
      BY <1>1, <3>1, AttemptPhase DEF OperationsTypeOK, AttemptPhases
    <3>3. ~Busy(a)  BY <3>1, IdleFacts DEF Leased
    <3> QED  BY <3>1, <3>2, <3>3 DEF Serving, Busy
  <2> QED  BY <1>3, <2>1, <2>2, <2>3
<1>5. \A k \in Keys : rows[k].owner # a => rows'[k] = rows[k]
  <2>1. CASE Abandon(a)  BY <1>1, <1>2, <2>1, AbandonFacts DEF OperationsTypeOK
  <2>2. CASE rows' = Disowned({a})
    <3>1. {a} \in SUBSET Slots  OBVIOUS
    <3> QED  BY <1>1, <2>2, <3>1, DisownFacts DEF OperationsTypeOK
  <2>3. CASE rows' = rows  BY <2>3
  <2>4. CASE Complete(a)  BY <1>1, <2>4 DEF Complete, Owns, OperationsTypeOK
  <2> QED  BY <2>1, <2>2, <2>3, <2>4 DEF ExecutionError, MismatchedAnswer, GiveUp, LoseClaim, Answer
<1>6. \A k \in Keys : \A owner : owner # a /\ Held(k, owner) => Held(k, owner)'  BY <1>5 DEF Held
<1>7. \A b \in Slots : Serving(b)' => Held(attempts[b].key, b)'
  <2> SUFFICES ASSUME NEW b \in Slots, Serving(b)' PROVE Held(attempts[b].key, b)'  OBVIOUS
  <2>1. b # a /\ Serving(b) /\ attempts'[b] = attempts[b]  BY <1>4 DEF Serving
  <2>2. PICK l \in Keys : l = attempts[b].key  BY <1>1, <2>1 DEF OperationsShaped, Serving
  <2>3. Held(l, b)'  BY <1>6, <2>1, <2>2 DEF Leased
  <2> QED  BY <2>1, <2>2, <2>3 DEF Held
<1>8. \A b \in Slots : Busy(b)' /\ exec'[b].orphan => attempts'[b] = Idle /\ Held(exec[b].key, Nobody)'
  <2> SUFFICES ASSUME NEW b \in Slots, Busy(b)', exec'[b].orphan
      PROVE  attempts'[b] = Idle /\ Held(exec[b].key, Nobody)'
    OBVIOUS
  <2>1. b # a /\ Busy(b) /\ exec[b].orphan /\ attempts'[b] = attempts[b] /\ exec'[b] = exec[b]  BY <1>4 DEF Busy
  <2>2. PICK l \in Keys : l = exec[b].key  BY <1>1, <2>1 DEF OperationsShaped
  <2>3. attempts[b] = Idle /\ Held(l, Nobody)  BY <2>1, <2>2 DEF Leased
  <2>4. Held(l, Nobody)'  BY <1>6, <2>3, OperationsAssumption
  <2> QED  BY <2>1, <2>2, <2>3, <2>4 DEF Held
<1>9. \A b \in Slots : Busy(b)' /\ ~exec'[b].orphan => attempts'[b].phase = "waiting"  BY <1>4 DEF Leased, Busy
<1>10. \A b, c \in Slots : Busy(b)' /\ Busy(c)' /\ exec'[b].key = exec'[c].key => b = c  BY <1>4 DEF Leased, Busy
<1> QED  BY <1>7, <1>8, <1>9, <1>10 DEF Leased

\* A crash of the API leaves behind the execution of one dispatch, whose row is held by nobody then.
LEMMA LeasedCrash ==
  ASSUME OperationsInvariant, Leased, ApiCrash
  PROVE  Leased'
<1>1. OperationsTypeOK /\ OperationsShaped  BY DEF OperationsInvariant
<1>2. rows' = Disowned(Slots) /\ \A a \in Slots : attempts'[a] = Idle  BY <1>1, CrashFacts
<1>3. PICK last \in Slots : \A a \in Slots :
        \/ exec'[a] = exec[a] /\ exec[a].orphan
        \/ exec'[a] = NoExecution /\ ~exec[a].orphan
        \/ /\ a = last /\ InWorker(a) /\ ~exec[a].orphan /\ exec'[a].orphan
           /\ exec'[a].phase = exec[a].phase /\ exec'[a].key = exec[a].key
  BY <1>1, CrashFacts
<1>4. \A a \in Slots : ~Serving(a)'  BY <1>2, IdleFacts DEF Serving
<1>5. Slots \in SUBSET Slots  OBVIOUS
<1>6. \A k \in Keys : \A owner \in Slots \cup {Nobody} : Held(k, owner) => Held(k, Nobody)'
  BY <1>1, <1>2, <1>5, DisownFacts, OperationsAssumption DEF OperationsTypeOK, Held
<1>7. \A a \in Slots : Busy(a)' => Busy(a) /\ exec'[a].orphan /\ exec'[a].key = exec[a].key
  BY <1>1, <1>3, NoExecutionFacts DEF Busy, InWorker, Restoring
<1>8. ASSUME NEW a \in Slots, Busy(a)' PROVE Held(exec[a].key, Nobody)'
  <2>1. Busy(a) /\ exec'[a].key = exec[a].key  BY <1>7, <1>8
  <2>2. PICK k \in Keys : k = exec[a].key  BY <1>1, <2>1 DEF OperationsShaped
  <2>3. \E owner \in Slots \cup {Nobody} : Held(k, owner)
    <3>1. CASE exec[a].orphan  BY <2>1, <2>2, <3>1 DEF Leased
    <3>2. CASE ~exec[a].orphan
      <4>1. attempts[a].phase = "waiting" /\ exec[a].key = attempts[a].key  BY <1>1, <2>1, <3>2 DEF Leased, OperationsShaped
      <4>2. Held(k, a)  BY <2>2, <4>1 DEF Leased, Serving
      <4> QED  BY <4>2
    <3> QED  BY <3>1, <3>2
  <2>4. Held(k, Nobody)'  BY <1>6, <2>3
  <2> QED  BY <2>1, <2>2, <2>4 DEF Held
<1>9. \A a, b \in Slots : Busy(a)' /\ Busy(b)' /\ exec'[a].key = exec'[b].key => a = b  BY <1>7 DEF Leased
<1> QED  BY <1>2, <1>4, <1>7, <1>8, <1>9 DEF Leased

\* A step of a worker.
LEMMA LeasedWorker ==
  ASSUME OperationsInvariant, Leased, NEW a \in Slots, Worker(a) \/ ExecutionFails(a)
  PROVE  Leased'
<1>1. OperationsTypeOK /\ OperationsShaped  BY DEF OperationsInvariant
<1>2. Busy(a) /\ UNCHANGED <<rows, attempts>>
  BY DEF Worker, ExecutionFails, ExecuteWrite, CreateReceipt, ReadReceipt, CommitRestore, VerifyRestore, CompleteReceipt, Busy
<1>3. \E phase \in ExecPhases \ {"none"} : exec' = Executed(a, phase)  BY <1>1, WorkerPhase
<1>4. /\ \A b \in Slots : b # a => exec'[b] = exec[b]
      /\ exec'[a].phase # "none" /\ exec'[a].key = exec[a].key /\ exec'[a].orphan = exec[a].orphan
  BY <1>1, <1>3, ExecPhase DEF OperationsTypeOK
<1> QED  BY <1>2, <1>4 DEF Leased, Serving, Busy, Held

\* An execution nobody waits for ends.
LEMMA LeasedOrphan ==
  ASSUME OperationsInvariant, Leased, NEW a \in Slots, OrphanEnds(a)
  PROVE  Leased'
<1>1. OperationsTypeOK  BY DEF OperationsInvariant
<1>2. UNCHANGED <<rows, attempts>> /\ exec'[a] = NoExecution /\ \A b \in Slots : b # a => exec'[b] = exec[b]
  BY <1>1 DEF OrphanEnds, OperationsTypeOK
<1>3. ~Busy(a)'  BY <1>2, NoExecutionFacts DEF Busy
<1> QED  BY <1>2, <1>3 DEF Leased, Serving, Busy, Held

\* Every step keeps the rows with those who rely on them.
LEMMA LeasedStep ==
  ASSUME OperationsInvariant, LeasesKept, Leased, [Next]_operationVars
  PROVE  Leased'
<1>1. CASE UNCHANGED operationVars
  <2>1. UNCHANGED <<rows, attempts, exec>>  BY <1>1 DEF operationVars
  <2> QED  BY <2>1 DEF Leased, Serving, Busy, Held
<1>2. CASE Next
  <2>1. CASE ApiCrash  BY <2>1, LeasedCrash
  <2>2. CASE \E k \in Keys : LeaseExpires(k) \/ PurgeExpired(k)  BY <2>2, LeasedKeys
  <2>3. ASSUME NEW a \in Slots, \E k \in Keys : Admit(a, k) \/ Replay(a, k) PROVE Leased'  BY <2>3, LeasedAdmit
  <2>4. ASSUME NEW a \in Slots, Dispatch(a) PROVE Leased'
    BY <2>4, LeasedMove, LeasedExecute, LeasedReturn, LeasedEnd DEF Dispatch
  <2>5. ASSUME NEW a \in Slots, Worker(a) \/ ExecutionFails(a) PROVE Leased'  BY <2>5, LeasedWorker
  <2>6. ASSUME NEW a \in Slots, Failure(a) PROVE Leased'
    <3>1. ~StrayAnswer(a)  BY OwnAnswers DEF LeasesKept
    <3> QED  BY <2>5, <2>6, <3>1, LeasedEnd DEF Failure
  <2>7. ASSUME NEW a \in Slots, Renew(a) PROVE Leased'
    <3>1. attempts[a].phase # "idle"  BY <2>7 DEF Renew, OperationsInvariant, OperationsShaped
    <3>2. Serving(a) /\ ~rows[attempts[a].key].live  BY <2>7, <3>1 DEF Renew, Serving
    <3> QED  BY <3>2 DEF Leased, Held
  <2>8. ASSUME NEW a \in Slots, OrphanEnds(a) PROVE Leased'  BY <2>8, LeasedOrphan
  <2> QED  BY <1>2, <2>1, <2>2, <2>3, <2>4, <2>5, <2>6, <2>7, <2>8 DEF Next
<1> QED  BY <1>1, <1>2

-----------------------------------------------------------------------------

\* Without a crash there is one worker; with one, a worker left behind and the next one work on different keys.
LEMMA WorkersApart ==
  ASSUME OperationsInvariant, WorkInvariant, CrashesApart, NEW a \in Slots, InWorker(a), NEW b \in Slots, b # a, Restoring(b)
  PROVE  exec[b].key # exec[a].key
<1>1. CASE "crash" \notin Faults
  <2>1. ~exec[a].orphan /\ ~exec[b].orphan  BY <1>1 DEF WorkInvariant, NoOrphans
  <2>2. CASE Restoring(a)  BY <2>1, <2>2 DEF WorkInvariant, OneWorks
  <2>3. CASE Free(a)  BY <2>1, <2>3 DEF Free
  <2> QED  BY <2>2, <2>3 DEF InWorker
<1>2. CASE LeasesKept
  <2>1. Busy(a) /\ Busy(b)  BY DEF Busy, InWorker, Restoring
  <2> QED  BY <1>2, <2>1 DEF WorkInvariant, Leased
<1> QED  BY <1>1, <1>2 DEF CrashesApart

\* The steps that do not start an execution's work, and those that do when the worker is free.
LEMMA WorksOn ==
  ASSUME OneWorks, NEW a \in Slots, \A b \in Slots : b # a => exec'[b] = exec[b],
         Restoring(a)' => (Restoring(a) \/ Free(a)) /\ exec'[a].orphan = exec[a].orphan
  PROVE  OneWorks'
BY DEF OneWorks, Restoring, Free

\* Every step keeps the workers apart.
LEMMA WorkStep ==
  ASSUME OperationsInvariant, WorkInvariant, CrashesApart, [Next]_operationVars
  PROVE  WorkInvariant'
<1>0. OperationsTypeOK /\ OperationsShaped /\ OneWorks  BY DEF OperationsInvariant, WorkInvariant
<1>1. LeasesKept => Leased'  BY LeasedStep DEF WorkInvariant
<1>2. CASE exec' = exec
  <2>1. OneWorks' /\ (NoOrphans => NoOrphans')  BY <1>0, <1>2 DEF OneWorks, NoOrphans, Restoring
  <2> QED  BY <1>1, <2>1 DEF WorkInvariant
<1>3. ASSUME NEW a \in Slots, Execute(a) \/ Return(a) \/ ExecutionError(a) \/ OrphanEnds(a) PROVE WorkInvariant'
  <2>1. /\ \A b \in Slots : b # a => exec'[b] = exec[b]
        /\ exec'[a] \in {NoExecution, [phase |-> "queued", key |-> attempts[a].key, orphan |-> FALSE]}
    BY <1>0, <1>3 DEF Execute, Return, ExecutionError, OrphanEnds, OperationsTypeOK
  <2>2. ~Restoring(a)' /\ ~exec'[a].orphan  BY <2>1, NoExecutionFacts DEF Restoring
  <2>3. OneWorks'  BY <1>0, <2>1, <2>2, WorksOn
  <2>4. NoOrphans => NoOrphans'  BY <2>1, <2>2 DEF NoOrphans
  <2> QED  BY <1>1, <2>3, <2>4 DEF WorkInvariant
<1>4. ASSUME NEW a \in Slots, Worker(a) \/ ExecutionFails(a) PROVE WorkInvariant'
  <2>1. PICK phase \in ExecPhases \ {"none"} : exec' = Executed(a, phase)  BY <1>0, <1>4, WorkerPhase
  <2>2. /\ \A b \in Slots : b # a => exec'[b] = exec[b]
        /\ exec'[a].orphan = exec[a].orphan
    BY <1>0, <2>1, ExecPhase DEF OperationsTypeOK
  <2>3. Restoring(a)' => Restoring(a) \/ Free(a)
    <3>1. CASE ExecuteWrite(a) \/ CreateReceipt(a) \/ ReadReceipt(a)
      BY <3>1 DEF ExecuteWrite, CreateReceipt, ReadReceipt
    <3>2. CASE CommitRestore(a) \/ VerifyRestore(a) \/ CompleteReceipt(a)
      BY <3>2 DEF CommitRestore, VerifyRestore, CompleteReceipt, Restoring
    <3>3. CASE ExecutionFails(a)
      <4>1. exec'[a].phase = "failed"  BY <1>0, <3>3, ExecPhase DEF ExecutionFails, ExecPhases, OperationsTypeOK
      <4> QED  BY <4>1 DEF Restoring
    <3> QED  BY <1>4, <3>1, <3>2, <3>3 DEF Worker
  <2>4. OneWorks'  BY <1>0, <2>2, <2>3, WorksOn
  <2>5. NoOrphans => NoOrphans'  BY <2>2 DEF NoOrphans
  <2> QED  BY <1>1, <2>4, <2>5 DEF WorkInvariant
<1>5. CASE ApiCrash
  <2>1. \A a \in Slots : exec'[a].orphan \/ exec'[a] = NoExecution  BY <1>0, <1>5, CrashFacts
  <2>2. \A a \in Slots : Restoring(a)' => exec'[a].orphan  BY <2>1, NoExecutionFacts DEF Restoring
  <2>3. OneWorks'  BY <2>2 DEF OneWorks
  <2> QED  BY <1>1, <1>5, <2>3 DEF WorkInvariant, ApiCrash
<1>6. CASE Next
  <2>1. CASE \E k \in Keys : LeaseExpires(k) \/ PurgeExpired(k)
    <3>1. exec' = exec  BY <2>1 DEF LeaseExpires, PurgeExpired
    <3> QED  BY <1>2, <3>1
  <2>2. ASSUME NEW a \in Slots, \E k \in Keys : Admit(a, k) \/ Replay(a, k) PROVE WorkInvariant'
    <3>1. exec' = exec  BY <2>2 DEF Admit, Replay
    <3> QED  BY <1>2, <3>1
  <2>3. ASSUME NEW a \in Slots,
               ResolveRoute(a) \/ BeginRestoreLifecycle(a) \/ PersistResult(a) \/ Complete(a) \/ Answer(a)
        PROVE WorkInvariant'
    <3>1. exec' = exec  BY <2>3 DEF ResolveRoute, BeginRestoreLifecycle, PersistResult, Complete, Answer
    <3> QED  BY <1>2, <3>1
  <2>4. ASSUME NEW a \in Slots, GiveUp(a) \/ LoseClaim(a) \/ Renew(a) PROVE WorkInvariant'
    <3>1. exec' = exec  BY <2>4 DEF GiveUp, LoseClaim, Renew
    <3> QED  BY <1>2, <3>1
  <2>5. \A a \in Slots : ~MismatchedAnswer(a) /\ ~StrayAnswer(a)  BY OwnAnswers DEF CrashesApart
  <2> QED  BY <1>3, <1>4, <1>5, <1>6, <2>1, <2>2, <2>3, <2>4, <2>5 DEF Next, Dispatch, Failure
<1> QED  BY <1>2, <1>6 DEF operationVars

\* Initially no worker is at work.
LEMMA WorkInit == Init => WorkInvariant
<1> SUFFICES ASSUME Init PROVE WorkInvariant  OBVIOUS
<1>1. \A a \in Slots : attempts[a] = Idle /\ exec[a] = NoExecution  BY DEF Init
<1>2. \A a \in Slots : ~Busy(a) /\ ~Serving(a) /\ ~Restoring(a) /\ ~exec[a].orphan
  BY <1>1, IdleFacts, NoExecutionFacts DEF Busy, Serving, Restoring
<1> QED  BY <1>2 DEF WorkInvariant, OneWorks, NoOrphans, Leased

-----------------------------------------------------------------------------

\* Steps that leave receipts, effects and the database alone and start no restore.
LEMMA OnceKept ==
  ASSUME CarriedOutOnce, UNCHANGED <<receipts, db, effects, strays>>,
         \A a \in Slots : Restoring(a)' => exec'[a].phase = exec[a].phase /\ exec'[a].key = exec[a].key
  PROVE  CarriedOutOnce'
<1>1. \A a \in Slots : Restoring(a)' => Restoring(a) /\ exec'[a].key = exec[a].key  BY DEF Restoring
<1>2. \A a \in Slots : exec'[a].phase = "owner" => exec[a].phase = "owner" /\ exec'[a].key = exec[a].key  BY DEF Restoring
<1> QED  BY <1>1, <1>2 DEF CarriedOutOnce, Earned

\* A worker starts a restore only when no other works on its key and it was not committed.
LEMMA OnceReceipt ==
  ASSUME OperationsInvariant, WorkInvariant, CrashesApart, CarriedOutOnce,
         NEW a \in Slots, CreateReceipt(a) \/ ReadReceipt(a) \/ CompleteReceipt(a)
  PROVE  CarriedOutOnce'
<1>1. OperationsTypeOK /\ OperationsShaped  BY DEF OperationsInvariant
<1>2. PICK key \in RestoreKeys, phase \in {"owner", "ok", "failed", "unknown"} :
           /\ key = exec[a].key /\ Busy(a) /\ exec' = Executed(a, phase)
           /\ UNCHANGED <<rows, attempts, project, backups, db, effects, strays>>
           /\ \A k \in RestoreKeys : k # key => receipts'[k] = receipts[k]
           /\ exec[a].phase = "verified" \/ (exec[a].phase = "queued" /\ Free(a))
           /\ \/ phase = "ok" /\ receipts'[key] = "completed"
                 /\ (receipts[key] = "completed" \/ db.marker = key \/ exec[a].phase = "verified")
              \/ phase = "owner" /\ receipts'[key] = "started" /\ exec[a].phase = "queued"
                 /\ (receipts[key] = "none" \/ (receipts[key] = "started" /\ db.marker = Nothing))
              \/ phase = "unknown" /\ receipts' = receipts
              \/ phase = "failed" /\ receipts[key] = "none" /\ receipts'[key] = "torn"
  BY <1>1, ReceiptFacts
<1>3. /\ \A b \in Slots : b # a => exec'[b] = exec[b]
      /\ exec'[a].phase = phase /\ exec'[a].key = key
  BY <1>1, <1>2, ExecPhase DEF ExecPhases, OperationsTypeOK
<1>4. \A b \in Slots : b # a /\ Restoring(b) => exec[b].key # key /\ exec[b].key \in RestoreKeys
  <2>1. InWorker(a)  BY <1>2 DEF InWorker, Restoring
  <2> QED  BY <1>1, <1>2, <2>1, WorkersApart DEF OperationsShaped
<1>5. effects[key] \in 0..2  BY <1>1 DEF OperationsTypeOK, Keys
<1>6. receipts'[key] = "torn" /\ phase = "failed" => ~Earned(key)  BY <1>2 DEF CarriedOutOnce
<1>7. phase = "owner" => effects[key] = 0 /\ receipts'[key] = "started"
  <2>1. phase = "owner" => ~Earned(key)  BY <1>2 DEF CarriedOutOnce
  <2> QED  BY <1>2, <1>5, <2>1 DEF Earned
<1>8. \A k \in RestoreKeys : Earned(k)' => receipts'[k] \in {"started", "completed"} /\ db'.marker # Nothing
  BY <1>2, <1>6 DEF CarriedOutOnce, Earned
<1>9. \A b \in Slots : Restoring(b)' => receipts'[exec'[b].key] = "started"
  <2>1. \A b \in Slots : b # a /\ Restoring(b)' => receipts'[exec'[b].key] = "started"
    BY <1>2, <1>3, <1>4 DEF CarriedOutOnce, Restoring
  <2>2. Restoring(a)' => phase = "owner"  BY <1>2, <1>3 DEF Restoring
  <2> QED  BY <1>3, <1>7, <2>1, <2>2
<1>10. \A b \in Slots : exec'[b].phase = "owner" => effects'[exec'[b].key] = 0
  BY <1>2, <1>3, <1>7 DEF CarriedOutOnce
<1> QED  BY <1>2, <1>8, <1>9, <1>10 DEF CarriedOutOnce

\* A restore is committed for the first time.
LEMMA OnceCommit ==
  ASSUME OperationsInvariant, WorkInvariant, CrashesApart, CarriedOutOnce, NEW a \in Slots, CommitRestore(a)
  PROVE  CarriedOutOnce'
<1>1. OperationsTypeOK /\ OperationsShaped  BY DEF OperationsInvariant
<1>2. PICK key \in RestoreKeys : key = exec[a].key  BY <1>1 DEF CommitRestore, OperationsShaped, Restoring
<1>3. Restoring(a) /\ exec[a].phase = "owner" /\ exec' = Executed(a, "committed") /\ receipts' = receipts
  BY DEF CommitRestore, Restoring
<1>4. /\ \A b \in Slots : b # a => exec'[b] = exec[b]
      /\ exec'[a].phase = "committed" /\ exec'[a].key = key
  BY <1>1, <1>2, <1>3, ExecPhase DEF ExecPhases, OperationsTypeOK
<1>5. db'.marker = key /\ key # Nothing  BY <1>2, OperationsAssumption DEF CommitRestore, Keys
<1>6. effects' = [effects EXCEPT ![key] = Capped(@ + 1)] /\ key \in Keys  BY <1>2 DEF CommitRestore, Keys
<1>7. effects[key] = 0 /\ receipts[key] = "started"  BY <1>2, <1>3 DEF CarriedOutOnce
<1>8. effects'[key] = 1 /\ \A l \in RestoreKeys : l # key => effects'[l] = effects[l]
  BY <1>1, <1>6, <1>7, EffectFacts DEF OperationsTypeOK, Keys
<1>9. \A b \in Slots : b # a /\ Restoring(b) => exec[b].key # key /\ exec[b].key \in RestoreKeys
  BY <1>1, <1>2, <1>3, WorkersApart DEF OperationsShaped, InWorker
<1>10. \A k \in RestoreKeys : effects'[k] <= 1  BY <1>8 DEF CarriedOutOnce
<1>11. \A k \in RestoreKeys : Earned(k)' => receipts'[k] \in {"started", "completed"} /\ db'.marker # Nothing
  BY <1>3, <1>5, <1>7, <1>8 DEF CarriedOutOnce, Earned
<1>12. \A b \in Slots : Restoring(b)' => receipts'[exec'[b].key] = "started"
  BY <1>3, <1>4, <1>7 DEF CarriedOutOnce, Restoring
<1>13. \A b \in Slots : exec'[b].phase = "owner" => effects'[exec'[b].key] = 0
  <2> SUFFICES ASSUME NEW b \in Slots, exec'[b].phase = "owner" PROVE effects'[exec'[b].key] = 0  OBVIOUS
  <2>1. b # a /\ exec'[b] = exec[b] /\ Restoring(b)  BY <1>4 DEF Restoring
  <2> QED  BY <1>8, <1>9, <2>1 DEF CarriedOutOnce
<1> QED  BY <1>10, <1>11, <1>12, <1>13 DEF CarriedOutOnce

\* A write, the verification and a failure commit no restore.
LEMMA OnceWrite ==
  ASSUME OperationsInvariant, CarriedOutOnce, NEW a \in Slots, ExecuteWrite(a) \/ VerifyRestore(a) \/ ExecutionFails(a)
  PROVE  CarriedOutOnce'
<1>1. OperationsTypeOK /\ OperationsShaped  BY DEF OperationsInvariant
<1>2. receipts' = receipts  BY DEF ExecuteWrite, VerifyRestore, ExecutionFails
<1>3. PICK phase \in {"ok", "verified", "failed"} : exec' = Executed(a, phase) /\ (phase = "verified" => Restoring(a))
  BY DEF ExecuteWrite, VerifyRestore, ExecutionFails, Restoring
<1>4. /\ \A b \in Slots : b # a => exec'[b] = exec[b]
      /\ exec'[a].phase = phase /\ exec'[a].key = exec[a].key
  BY <1>1, <1>3, ExecPhase DEF ExecPhases, OperationsTypeOK
<1>5. db'.marker = db.marker /\ \A k \in RestoreKeys : effects'[k] = effects[k]
  <2>1. PICK old \in Database : old = db  BY <1>1 DEF OperationsTypeOK
  <2>2. CASE ExecuteWrite(a)
    <3>1. CASE UNCHANGED <<db, effects>>  BY <3>1
    <3>2. CASE effects' = [effects EXCEPT ![exec[a].key] = Capped(@ + 1)]
               /\ db' = [db EXCEPT !.writes[exec[a].key] = Capped(@ + 1), !.usage = @ \cup {exec[a].key}]
      <4>1. \A k \in RestoreKeys : effects'[k] = effects[k]
        <5>1. \A k \in RestoreKeys : k # exec[a].key /\ k \in Keys  BY <2>2, OperationsAssumption DEF ExecuteWrite, Keys
        <5> QED  BY <1>1, <3>2, <5>1 DEF OperationsTypeOK
      <4>2. PICK counts, stored : db' = [old EXCEPT !.writes = counts, !.usage = stored]  BY <2>1, <3>2
      <4>3. db'.marker = db.marker  BY <2>1, <4>2 DEF Database
      <4> QED  BY <4>1, <4>3
    <3> QED  BY <2>2, <3>1, <3>2 DEF ExecuteWrite
  <2>3. CASE VerifyRestore(a) \/ ExecutionFails(a)
    <3>1. effects' = effects /\ (db' = db \/ db' = [old EXCEPT !.verified = TRUE])
      BY <2>1, <2>3 DEF VerifyRestore, ExecutionFails
    <3> QED  BY <2>1, <3>1 DEF Database
  <2> QED  BY <2>2, <2>3
<1>6. \A b \in Slots : Restoring(b)' => Restoring(b) /\ exec'[b].key = exec[b].key
  BY <1>3, <1>4 DEF Restoring
<1>7. \A b \in Slots : exec'[b].phase = "owner" => exec[b].phase = "owner" /\ exec'[b].key = exec[b].key /\ exec[b].key \in RestoreKeys
  BY <1>1, <1>3, <1>4 DEF OperationsShaped, Restoring
<1> QED  BY <1>2, <1>5, <1>6, <1>7 DEF CarriedOutOnce, Earned

\* Every step keeps restores carried out once.
LEMMA OnceStep ==
  ASSUME OperationsInvariant, WorkInvariant, CrashesApart, CarriedOutOnce, [Next]_operationVars
  PROVE  CarriedOutOnce'
<1>0. OperationsTypeOK /\ OperationsShaped  BY DEF OperationsInvariant
<1>1. CASE UNCHANGED <<exec, receipts, db, effects, strays>>  BY <1>1, OnceKept
<1>2. ASSUME NEW a \in Slots, Execute(a) \/ Return(a) \/ ExecutionError(a) \/ OrphanEnds(a) PROVE CarriedOutOnce'
  <2>1. /\ \A b \in Slots : b # a => exec'[b] = exec[b]
        /\ exec'[a] \in {NoExecution, [phase |-> "queued", key |-> attempts[a].key, orphan |-> FALSE]}
    BY <1>0, <1>2 DEF Execute, Return, ExecutionError, OrphanEnds, OperationsTypeOK
  <2>2. ~Restoring(a)'  BY <2>1, NoExecutionFacts DEF Restoring
  <2>3. UNCHANGED <<receipts, db, effects, strays>>  BY <1>2 DEF Execute, Return, ExecutionError, OrphanEnds
  <2> QED  BY <2>1, <2>2, <2>3, OnceKept
<1>3. CASE ApiCrash
  <2>1. \A a \in Slots : (exec'[a].phase = exec[a].phase /\ exec'[a].key = exec[a].key) \/ exec'[a] = NoExecution
    BY <1>0, <1>3, CrashFacts
  <2>2. \A a \in Slots : Restoring(a)' => exec'[a].phase = exec[a].phase /\ exec'[a].key = exec[a].key
    BY <2>1, NoExecutionFacts DEF Restoring
  <2> QED  BY <1>3, <2>2, OnceKept DEF ApiCrash
<1>4. CASE Next
  <2>1. CASE \E k \in Keys : LeaseExpires(k) \/ PurgeExpired(k)
    BY <1>1, <2>1 DEF LeaseExpires, PurgeExpired
  <2>2. ASSUME NEW a \in Slots, \E k \in Keys : Admit(a, k) \/ Replay(a, k) PROVE CarriedOutOnce'
    BY <1>1, <2>2 DEF Admit, Replay
  <2>3. ASSUME NEW a \in Slots,
               ResolveRoute(a) \/ BeginRestoreLifecycle(a) \/ PersistResult(a) \/ Complete(a) \/ Answer(a)
        PROVE CarriedOutOnce'
    BY <1>1, <2>3 DEF ResolveRoute, BeginRestoreLifecycle, PersistResult, Complete, Answer
  <2>4. ASSUME NEW a \in Slots, GiveUp(a) \/ LoseClaim(a) \/ Renew(a) PROVE CarriedOutOnce'
    BY <1>1, <2>4 DEF GiveUp, LoseClaim, Renew
  <2>5. ASSUME NEW a \in Slots, Worker(a) \/ ExecutionFails(a) PROVE CarriedOutOnce'
    BY <2>5, OnceReceipt, OnceCommit, OnceWrite DEF Worker
  <2>6. \A a \in Slots : ~MismatchedAnswer(a) /\ ~StrayAnswer(a)  BY OwnAnswers DEF CrashesApart
  <2> QED  BY <1>2, <1>3, <1>4, <2>1, <2>2, <2>3, <2>4, <2>5, <2>6 DEF Next, Dispatch, Failure
<1> QED  BY <1>1, <1>4 DEF operationVars

\* Initially no restore was carried out.
LEMMA OnceInit == Init => CarriedOutOnce
<1> SUFFICES ASSUME Init PROVE CarriedOutOnce  OBVIOUS
<1>1. \A a \in Slots : exec[a] = NoExecution  BY DEF Init
<1>2. \A k \in RestoreKeys : effects[k] = 0  BY DEF Init, Keys
<1> QED  BY <1>1, <1>2, NoExecutionFacts DEF CarriedOutOnce, Restoring, Earned

\* A restore is carried out at most once for its key, for any number of
\* dispatches, keys and backups, as long as every call gets its own answer and
\* crashes of the API do not come together with lost leases
\* (reconcile_started_receipt): otherwise a dispatch may run a key again while
\* a worker that was left behind is still at it.
THEOREM RestoredOnce ==
  ASSUME CrashesApart
  PROVE  Spec => []RestoreOnce
<1>1. Init => OperationsInvariant /\ WorkInvariant /\ CarriedOutOnce  BY AnswersInit, WorkInit, OnceInit
<1>2. OperationsInvariant /\ WorkInvariant /\ CarriedOutOnce /\ [Next]_operationVars
        => (OperationsInvariant /\ WorkInvariant /\ CarriedOutOnce)'
  BY AnswersStep, WorkStep, OnceStep
<1>3. CarriedOutOnce => RestoreOnce  BY DEF CarriedOutOnce, RestoreOnce
<1> QED  BY <1>1, <1>2, <1>3, PTL DEF Spec

-----------------------------------------------------------------------------

\* What stays fenced and completed keeps the fence, as long as nobody newly relies on it.
LEMMA FenceKept ==
  ASSUME FenceRelied,
         \A k \in RestoreKeys : receipts[k] = "completed" => receipts'[k] = "completed",
         \A k \in RestoreKeys : Fenced(k) => Fenced(k)',
         \A a \in Slots : \/ attempts'[a].phase = attempts[a].phase /\ attempts'[a].key = attempts[a].key
                          \/ attempts'[a].phase \notin {"fenced", "waiting", "returned"},
         \A a \in Slots : \/ exec'[a].phase = exec[a].phase /\ exec'[a].key = exec[a].key
                          \/ exec'[a].phase = "none"
  PROVE  FenceRelied'
<1>1. \A a \in Slots : attempts'[a].phase \in {"fenced", "waiting"} /\ attempts'[a].key \in RestoreKeys
                       => Fenced(attempts[a].key)'
  <2> SUFFICES ASSUME NEW a \in Slots, attempts'[a].phase \in {"fenced", "waiting"}, attempts'[a].key \in RestoreKeys
      PROVE  Fenced(attempts[a].key)'
    OBVIOUS
  <2>1. PICK k \in RestoreKeys : k = attempts[a].key /\ k = attempts'[a].key /\ Fenced(k)  BY DEF FenceRelied
  <2>2. Fenced(k)'  BY <2>1
  <2> QED  BY <2>1, <2>2 DEF Fenced
<1>2. \A a \in Slots : Busy(a)' /\ exec'[a].key \in RestoreKeys => Fenced(exec[a].key)'
  <2> SUFFICES ASSUME NEW a \in Slots, Busy(a)', exec'[a].key \in RestoreKeys PROVE Fenced(exec[a].key)'  OBVIOUS
  <2>1. PICK k \in RestoreKeys : k = exec[a].key /\ k = exec'[a].key /\ Fenced(k)  BY DEF FenceRelied, Busy
  <2>2. Fenced(k)'  BY <2>1
  <2> QED  BY <2>1, <2>2 DEF Fenced
<1>3. \A a \in Slots : attempts'[a].phase = "returned" /\ attempts'[a].key \in RestoreKeys
                       => receipts'[attempts'[a].key] = "completed"
  BY DEF FenceRelied
<1>4. \A a \in Slots : exec'[a].phase = "ok" /\ exec'[a].key \in RestoreKeys => receipts'[exec'[a].key] = "completed"
  BY DEF FenceRelied
<1> QED  BY <1>1, <1>2, <1>3, <1>4 DEF FenceRelied

\* A step that touches neither the project, its backups nor the receipts.
LEMMA FenceStays ==
  ASSUME UNCHANGED <<project, backups, receipts>>
  PROVE  /\ \A k \in RestoreKeys : receipts[k] = "completed" => receipts'[k] = "completed"
         /\ \A k \in RestoreKeys : Fenced(k) => Fenced(k)'
BY DEF Fenced

\* The one backup is restored by one key at a time.
LEMMA FenceBegin ==
  ASSUME OperationsInvariant, OneBackup, FenceRelied, NEW a \in Slots, BeginRestoreLifecycle(a)
  PROVE  FenceRelied'
<1>1. OperationsTypeOK  BY DEF OperationsInvariant
<1>2. PICK key \in RestoreKeys : key = attempts[a].key  BY DEF BeginRestoreLifecycle
<1>3. PICK b \in Backups : b = Backup[key]  BY OperationsAssumption
<1>4. backups[b] \in {Nothing, key} /\ backups' = [backups EXCEPT ![b] = key] /\ project' = "restoring"
      /\ UNCHANGED <<exec, receipts>>
  BY <1>2, <1>3 DEF BeginRestoreLifecycle
<1>5. \A k \in RestoreKeys : Fenced(k) => Fenced(k)'
  <2> SUFFICES ASSUME NEW k \in RestoreKeys, Fenced(k), receipts[k] # "completed" PROVE k = key
    BY <1>1, <1>3, <1>4 DEF Fenced, OperationsTypeOK
  <2>1. backups[Backup[k]] = k /\ Backup[k] = b  BY <1>3 DEF Fenced, OneBackup
  <2>2. k # Nothing  BY OperationsAssumption DEF Keys
  <2> QED  BY <1>4, <2>1, <2>2
<1>6. Fenced(key)'  BY <1>1, <1>3, <1>4 DEF Fenced, OperationsTypeOK
<1>7. /\ \A c \in Slots : c # a => attempts'[c] = attempts[c]
      /\ attempts'[a].phase = "fenced" /\ attempts'[a].key = key
  BY <1>1, <1>2, AttemptPhase DEF BeginRestoreLifecycle, OperationsTypeOK, AttemptPhases
<1>8. \A c \in Slots : attempts'[c].phase \in {"fenced", "waiting"} /\ attempts'[c].key \in RestoreKeys
                       => Fenced(attempts[c].key)'
  <2> SUFFICES ASSUME NEW c \in Slots, attempts'[c].phase \in {"fenced", "waiting"}, attempts'[c].key \in RestoreKeys
      PROVE  Fenced(attempts[c].key)'
    OBVIOUS
  <2>1. CASE c = a  BY <1>6, <1>7, <2>1 DEF Fenced
  <2>2. CASE c # a
    <3>1. PICK k \in RestoreKeys : k = attempts[c].key /\ k = attempts'[c].key /\ Fenced(k)
      BY <1>7, <2>2 DEF FenceRelied
    <3>2. Fenced(k)'  BY <1>5, <3>1
    <3> QED  BY <3>1, <3>2 DEF Fenced
  <2> QED  BY <2>1, <2>2
<1>9. \A c \in Slots : Busy(c)' /\ exec'[c].key \in RestoreKeys => Fenced(exec[c].key)'
  <2> SUFFICES ASSUME NEW c \in Slots, Busy(c)', exec'[c].key \in RestoreKeys PROVE Fenced(exec[c].key)'  OBVIOUS
  <2>1. PICK k \in RestoreKeys : k = exec[c].key /\ k = exec'[c].key /\ Fenced(k)  BY <1>4 DEF FenceRelied, Busy
  <2>2. Fenced(k)'  BY <1>5, <2>1
  <2> QED  BY <2>1, <2>2 DEF Fenced
<1> QED  BY <1>4, <1>7, <1>8, <1>9 DEF FenceRelied

\* The result of a restore is recorded after its receipt was completed, so nobody relies on its fence any more.
LEMMA FencePersist ==
  ASSUME OperationsInvariant, OneBackup, FenceRelied, NEW a \in Slots, PersistResult(a)
  PROVE  FenceRelied'
<1>1. OperationsTypeOK  BY DEF OperationsInvariant
<1>2. \A k \in RestoreKeys : Fenced(k) => Fenced(k)'
  <2>1. CASE attempts[a].key \notin RestoreKeys  BY <2>1 DEF PersistResult, Fenced
  <2>2. CASE attempts[a].key \in RestoreKeys
    <3>1. PICK key \in RestoreKeys : key = attempts[a].key  BY <2>2
    <3>2. backups[Backup[key]] = key /\ receipts[key] = "completed" /\ receipts' = receipts
      BY <3>1 DEF PersistResult, FenceRelied
    <3> SUFFICES ASSUME NEW k \in RestoreKeys, Fenced(k) PROVE receipts[k] = "completed"  BY <3>2 DEF Fenced
    <3> QED  BY <3>2 DEF Fenced, OneBackup
  <2> QED  BY <2>1, <2>2
<1>3. UNCHANGED <<exec, receipts>>  BY DEF PersistResult
<1>4. /\ \A c \in Slots : c # a => attempts'[c] = attempts[c]
      /\ attempts'[a].phase = "persisted"
  BY <1>1, AttemptPhase DEF PersistResult, OperationsTypeOK, AttemptPhases
<1> QED  BY <1>2, <1>3, <1>4, FenceKept

\* A restore is sent to the worker under its fence.
LEMMA FenceExecute ==
  ASSUME OperationsInvariant, FenceRelied, NEW a \in Slots, Execute(a)
  PROVE  FenceRelied'
<1>1. OperationsTypeOK  BY DEF OperationsInvariant
<1>2. PICK key : key = attempts[a].key  OBVIOUS
<1>3. key \in RestoreKeys => Fenced(key)
  BY <1>2, OperationsAssumption DEF Execute, FenceRelied
<1>4. UNCHANGED <<project, backups, receipts>>  BY DEF Execute
<1>5. /\ \A c \in Slots : c # a => attempts'[c] = attempts[c]
      /\ attempts'[a].phase = "waiting" /\ attempts'[a].key = key
  BY <1>1, <1>2, AttemptPhase DEF Execute, OperationsTypeOK, AttemptPhases
<1>6. /\ \A c \in Slots : c # a => exec'[c] = exec[c]
      /\ exec'[a] = [phase |-> "queued", key |-> key, orphan |-> FALSE]
  BY <1>1, <1>2 DEF Execute, OperationsTypeOK
<1>7. exec'[a].phase = "queued" /\ exec'[a].key = key  BY <1>6
<1> QED  BY <1>3, <1>4, <1>5, <1>6, <1>7 DEF FenceRelied, Fenced, Busy

\* A dispatch takes the result of a restore whose receipt is complete.
LEMMA FenceReturn ==
  ASSUME OperationsInvariant, FenceRelied, NEW a \in Slots, Return(a)
  PROVE  FenceRelied'
<1>1. OperationsTypeOK /\ OperationsShaped  BY DEF OperationsInvariant
<1>2. UNCHANGED <<project, backups, receipts>>  BY DEF Return
<1>3. exec[a].key = attempts[a].key /\ exec[a].phase = "ok"  BY <1>1 DEF Return, OperationsShaped
<1>4. /\ \A c \in Slots : c # a => attempts'[c] = attempts[c]
      /\ attempts'[a].phase = "returned" /\ attempts'[a].key = attempts[a].key
  BY <1>1, AttemptPhase DEF Return, OperationsTypeOK, AttemptPhases
<1>5. exec'[a] = NoExecution /\ \A c \in Slots : c # a => exec'[c] = exec[c]
  BY <1>1 DEF Return, OperationsTypeOK
<1> QED  BY <1>2, <1>3, <1>4, <1>5, NoExecutionFacts DEF FenceRelied, Fenced, Busy

\* A receipt, once complete, stays complete.
LEMMA FenceReceipt ==
  ASSUME OperationsInvariant, FenceRelied, NEW a \in Slots, CreateReceipt(a) \/ ReadReceipt(a) \/ CompleteReceipt(a)
  PROVE  FenceRelied'
<1>1. OperationsTypeOK /\ OperationsShaped  BY DEF OperationsInvariant
<1>2. PICK key \in RestoreKeys, phase \in {"owner", "ok", "failed", "unknown"} :
           /\ key = exec[a].key /\ Busy(a) /\ exec' = Executed(a, phase)
           /\ UNCHANGED <<rows, attempts, project, backups, db, effects, strays>>
           /\ \A k \in RestoreKeys : k # key => receipts'[k] = receipts[k]
           /\ \/ phase = "ok" /\ receipts'[key] = "completed"
              \/ phase = "owner" /\ receipts[key] \in {"none", "started"}
              \/ phase = "unknown" /\ receipts' = receipts
              \/ phase = "failed" /\ receipts[key] = "none"
  BY <1>1, ReceiptFacts
<1>3. /\ \A b \in Slots : b # a => exec'[b] = exec[b]
      /\ exec'[a].phase = phase /\ exec'[a].key = key
  BY <1>1, <1>2, ExecPhase DEF ExecPhases, OperationsTypeOK
<1>4. \A k \in RestoreKeys : receipts[k] = "completed" => receipts'[k] = "completed"  BY <1>2
<1>5. \A k \in RestoreKeys : Fenced(k) => Fenced(k)'  BY <1>2, <1>4 DEF Fenced
<1>6. \A b \in Slots : attempts'[b].phase \in {"fenced", "waiting"} /\ attempts'[b].key \in RestoreKeys
                       => Fenced(attempts[b].key)'
  <2> SUFFICES ASSUME NEW b \in Slots, attempts'[b].phase \in {"fenced", "waiting"}, attempts'[b].key \in RestoreKeys
      PROVE  Fenced(attempts[b].key)'
    OBVIOUS
  <2>1. PICK k \in RestoreKeys : k = attempts[b].key /\ k = attempts'[b].key /\ Fenced(k)  BY <1>2 DEF FenceRelied
  <2>2. Fenced(k)'  BY <1>5, <2>1
  <2> QED  BY <2>1, <2>2 DEF Fenced
<1>7. \A b \in Slots : Busy(b)' /\ exec'[b].key \in RestoreKeys => Fenced(exec[b].key)'
  <2> SUFFICES ASSUME NEW b \in Slots, Busy(b)', exec'[b].key \in RestoreKeys PROVE Fenced(exec[b].key)'  OBVIOUS
  <2>0. Busy(b) /\ exec'[b].key = exec[b].key  BY <1>2, <1>3 DEF Busy
  <2>1. PICK k \in RestoreKeys : k = exec[b].key /\ k = exec'[b].key /\ Fenced(k)  BY <2>0 DEF FenceRelied
  <2>2. Fenced(k)'  BY <1>5, <2>1
  <2> QED  BY <2>1, <2>2 DEF Fenced
<1>8. \A b \in Slots : exec'[b].phase = "ok" /\ exec'[b].key \in RestoreKeys => receipts'[exec'[b].key] = "completed"
  BY <1>2, <1>3, <1>4 DEF FenceRelied
<1> QED  BY <1>2, <1>4, <1>6, <1>7, <1>8 DEF FenceRelied

\* The other steps of a worker.
LEMMA FenceWorker ==
  ASSUME OperationsInvariant, FenceRelied, NEW a \in Slots,
         ExecuteWrite(a) \/ CommitRestore(a) \/ VerifyRestore(a) \/ ExecutionFails(a)
  PROVE  FenceRelied'
<1>1. OperationsTypeOK  BY DEF OperationsInvariant
<1>2. UNCHANGED <<attempts, project, backups, receipts>>
  BY DEF ExecuteWrite, CommitRestore, VerifyRestore, ExecutionFails
<1>3. PICK phase \in {"ok", "committed", "verified", "failed"} :
        exec' = Executed(a, phase) /\ Busy(a) /\ (phase = "ok" => exec[a].key \in WriteKeys)
  BY DEF ExecuteWrite, CommitRestore, VerifyRestore, ExecutionFails, Busy
<1>4. /\ \A b \in Slots : b # a => exec'[b] = exec[b]
      /\ exec'[a].phase = phase /\ exec'[a].key = exec[a].key
  BY <1>1, <1>3, ExecPhase DEF ExecPhases, OperationsTypeOK
<1>5. phase = "ok" => exec'[a].key \notin RestoreKeys  BY <1>3, <1>4, OperationsAssumption
<1> QED  BY <1>2, <1>3, <1>4, <1>5 DEF FenceRelied, Fenced, Busy

\* Every step keeps the fence of those who rely on it.
LEMMA FenceStep ==
  ASSUME OperationsInvariant, OneBackup, CrashesApart, FenceRelied, [Next]_operationVars
  PROVE  FenceRelied'
<1>0. OperationsTypeOK  BY DEF OperationsInvariant
<1>1. CASE UNCHANGED <<attempts, exec, project, backups, receipts>>  BY <1>1, FenceKept, FenceStays
<1>2. ASSUME NEW a \in Slots,
             \/ \E k \in Keys : Admit(a, k) \/ Replay(a, k)
             \/ ResolveRoute(a) \/ Complete(a) \/ Answer(a)
             \/ ExecutionError(a) \/ GiveUp(a) \/ LoseClaim(a) \/ OrphanEnds(a)
      PROVE  FenceRelied'
  <2>1. UNCHANGED <<project, backups, receipts>>
    BY <1>2 DEF Admit, Replay, ResolveRoute, Complete, Answer, ExecutionError, GiveUp, LoseClaim, OrphanEnds
  <2>2. \A b \in Slots : exec'[b] = exec[b] \/ exec'[b] = NoExecution
    <3>1. exec' = exec \/ exec' = [exec EXCEPT ![a] = NoExecution]
      BY <1>2 DEF Admit, Replay, ResolveRoute, Complete, Answer, ExecutionError, GiveUp, LoseClaim, OrphanEnds
    <3> QED  BY <1>0, <3>1 DEF OperationsTypeOK
  <2>3. \A b \in Slots : \/ attempts'[b] = attempts[b]
                         \/ attempts'[b].phase \notin {"fenced", "waiting", "returned"}
    <3>1. CASE \E k \in Keys : Admit(a, k) \/ Replay(a, k)
      <4>1. PICK k \in Keys, phase \in {"owner", "answered"} : attempts' = [attempts EXCEPT ![a] = [phase |-> phase, key |-> k]]
        BY <3>1 DEF Admit, Replay
      <4> QED  BY <1>0, <4>1 DEF OperationsTypeOK
    <3>2. CASE ResolveRoute(a) \/ Complete(a)
      <4>1. PICK phase \in {"routed", "answered"} : attempts' = [attempts EXCEPT ![a].phase = phase]
        BY <3>2 DEF ResolveRoute, Complete
      <4>2. attempts'[a].phase = phase /\ \A b \in Slots : b # a => attempts'[b] = attempts[b]
        BY <1>0, <4>1, AttemptPhase DEF AttemptPhases, OperationsTypeOK
      <4> QED  BY <4>2
    <3>3. CASE Answer(a) \/ ExecutionError(a) \/ GiveUp(a) \/ LoseClaim(a)
      <4>1. attempts' = [attempts EXCEPT ![a] = Idle]  BY <3>3 DEF Answer, ExecutionError, GiveUp, LoseClaim
      <4> QED  BY <1>0, <4>1, IdleFacts DEF OperationsTypeOK
    <3>4. CASE OrphanEnds(a)  BY <3>4 DEF OrphanEnds
    <3> QED  BY <1>2, <3>1, <3>2, <3>3, <3>4
  <2> QED  BY <2>1, <2>2, <2>3, NoExecutionFacts, FenceKept, FenceStays
<1>3. CASE ApiCrash
  <2>1. \A a \in Slots : /\ (exec'[a].phase = exec[a].phase /\ exec'[a].key = exec[a].key) \/ exec'[a] = NoExecution
                         /\ attempts'[a] = Idle
    BY <1>0, <1>3, CrashFacts
  <2>2. UNCHANGED <<project, backups, receipts>>  BY <1>3 DEF ApiCrash
  <2> QED  BY <2>1, <2>2, IdleFacts, NoExecutionFacts, FenceKept, FenceStays
<1>4. CASE Next
  <2>1. CASE \E k \in Keys : LeaseExpires(k) \/ PurgeExpired(k)
    BY <1>1, <2>1 DEF LeaseExpires, PurgeExpired
  <2>2. ASSUME NEW a \in Slots, Renew(a) PROVE FenceRelied'  BY <1>1, <2>2 DEF Renew
  <2>3. \A a \in Slots : ~MismatchedAnswer(a) /\ ~StrayAnswer(a)  BY OwnAnswers DEF CrashesApart
  <2>4. ASSUME NEW a \in Slots, Dispatch(a) PROVE FenceRelied'
    BY <1>2, <2>4, FenceBegin, FenceExecute, FenceReturn, FencePersist DEF Dispatch
  <2>5. ASSUME NEW a \in Slots, Worker(a) \/ ExecutionFails(a) PROVE FenceRelied'
    BY <2>5, FenceReceipt, FenceWorker DEF Worker
  <2>6. ASSUME NEW a \in Slots, Failure(a) PROVE FenceRelied'  BY <1>2, <2>3, <2>5, <2>6 DEF Failure
  <2> QED  BY <1>2, <1>3, <1>4, <2>1, <2>2, <2>4, <2>5, <2>6 DEF Next
<1> QED  BY <1>1, <1>4 DEF operationVars

\* Initially nobody relies on a fence.
LEMMA FenceInit == Init => FenceRelied
<1> SUFFICES ASSUME Init PROVE FenceRelied  OBVIOUS
<1>1. \A a \in Slots : attempts[a] = Idle /\ exec[a] = NoExecution  BY DEF Init
<1> QED  BY <1>1, IdleFacts, NoExecutionFacts DEF FenceRelied, Busy

\* ... and when the restores are of one backup, the project is fenced off while
\* a worker restores
\* (begin_restore_lifecycle, persist_control_plane_result).
THEOREM RestoreFencedHolds ==
  ASSUME CrashesApart, OneBackup
  PROVE  Spec => []RestoreFenced
<1> DEFINE Inv == OperationsInvariant /\ WorkInvariant /\ CarriedOutOnce /\ FenceRelied
<1>1. Init => Inv  BY AnswersInit, WorkInit, OnceInit, FenceInit
<1>2. Inv /\ [Next]_operationVars => Inv'
  BY AnswersStep, WorkStep, OnceStep, FenceStep
<1>3. Inv => RestoreFenced
  <2> SUFFICES ASSUME Inv PROVE FenceHolds /\ RestoreOnce  BY DEF RestoreFenced
  <2>1. RestoreOnce  BY DEF CarriedOutOnce, RestoreOnce
  <2>2. FenceHolds
    <3> SUFFICES ASSUME NEW a \in Slots, Restoring(a) PROVE project # "active"  BY DEF FenceHolds
    <3>1. exec[a].key \in RestoreKeys /\ Busy(a)  BY DEF OperationsInvariant, OperationsShaped, Busy, Restoring
    <3>2. receipts[exec[a].key] = "started" /\ Fenced(exec[a].key)  BY <3>1 DEF CarriedOutOnce, FenceRelied
    <3> QED  BY <3>2 DEF Fenced
  <2> QED  BY <2>1, <2>2
<1> QED  BY <1>1, <1>2, <1>3, PTL DEF Spec

-----------------------------------------------------------------------------
(* Rate limits. The inductive invariant: what a row holds and what its key    *)
(* was granted fit in the capacity and the refill up to the row's time; a     *)
(* key without a row was granted nothing, or the refill has caught up with    *)
(* it even at the time of the oldest request that waits; requests hold        *)
(* disjoint locks, and the rows one has read stay as it read them.            *)

BucketRow == [tokens : Nat, refilled : Nat, expires : Nat, there : BOOLEAN]

SeenRows == {<<>>} \cup UNION {[D -> BucketRow] : D \in SUBSET BucketKeys}

CheckRow ==
  [step : {"idle", "locking", "read"}, keys : CheckKeys \cup {<<>>}, cost : Nat, now : Nat,
   held : SUBSET BucketKeys, seen : SeenRows]

\* A row that is there: it is charged and refilled together.
RowCharged(k, row, granted) ==
  /\ row.tokens <= Capacity[k] /\ row.expires = row.refilled + IdleTtl
  /\ IdleRowsFull(k) => granted + row.tokens <= Capacity[k] + Rate * row.refilled

\* A key that has no row is as good as full, if idle rows are.
KeyRested(k, granted, time) ==
  IdleRowsFull(k) => granted = 0 \/ granted + Rate * Patience <= Rate * time

BucketFits(k, row, granted, time) ==
  /\ row.there => row.refilled <= time /\ RowCharged(k, row, granted)
  /\ ~row.there => row = NoRow /\ KeyRested(k, granted, time)

BucketsFit ==
  /\ buckets \in [BucketKeys -> BucketRow] /\ spent \in [BucketKeys -> Nat]
  /\ instant \in 0..MaxInstant
  /\ \A k \in BucketKeys : BucketFits(k, buckets[k], spent[k], instant)

\* A request between its begin and its end.
CheckUnderway(c, written, time) ==
  /\ c.keys \in CheckKeys /\ c.held \subseteq ToSet(c.keys)
  /\ c.now <= time /\ time <= c.now + Patience
  /\ c.step = "read" => c.held = ToSet(c.keys) /\ \A k \in c.held : c.seen[k] = written[k]

CheckFits(c, written, time) == IF c.step = "idle" THEN c = NoCheck ELSE CheckUnderway(c, written, time)

ChecksFit ==
  /\ checks \in [Checkers -> CheckRow]
  /\ \A r \in Checkers : CheckFits(checks[r], buckets, instant)

LocksFit == \A r, q \in Checkers : r # q => checks[r].held \cap checks[q].held = {}

RowsThere == {k \in BucketKeys : buckets[k].there}

EntriesCount == IsFiniteSet(RowsThere) /\ entries = Cardinality(RowsThere) /\ entries <= MaxEntries + 1

RateInvariant == BucketsFit /\ ChecksFit /\ LocksFit /\ EntriesCount

-----------------------------------------------------------------------------
(* Arithmetic of the refill.                                                 *)

LEMMA RateConstants ==
  ASSUME RateLimitsAssumption
  PROVE  /\ Rate \in Nat /\ IdleTtl \in Nat /\ MaxEntries \in Nat /\ MaxCost \in Nat
         /\ Patience \in Nat /\ MaxInstant \in Nat
         /\ \A k \in BucketKeys : Capacity[k] \in Nat
BY DEF RateLimitsAssumption

LEMMA ProductGrows ==
  ASSUME NEW f \in Nat, NEW a \in Nat, NEW b \in Nat, a <= b
  PROVE  f * a \in Nat /\ f * b \in Nat /\ f * a <= f * b
OBVIOUS

LEMMA ProductOfSum ==
  ASSUME NEW f \in Nat, NEW a \in Nat, NEW b \in Nat
  PROVE  f * (a + b) = f * a + f * b /\ f * a \in Nat /\ f * b \in Nat
OBVIOUS

LEMMA ProductOfGap ==
  ASSUME NEW f \in Nat, NEW a \in Nat, NEW b \in Nat, a <= b
  PROVE  /\ f * (b - a) \in Nat /\ f * (b - a) = f * b - f * a
         /\ f * a \in Nat /\ f * b \in Nat
OBVIOUS

\* What was granted fits in the refill to a later time, with what was added.
LEMMA RefillFits ==
  ASSUME NEW f \in Nat, NEW cap \in Nat, NEW granted \in Nat, NEW have \in Nat, NEW from \in Nat, NEW to \in Nat,
         from <= to, granted + have <= cap + f * from
  PROVE  granted + (have + f * (to - from)) <= cap + f * to
<1>1. f * (to - from) \in Nat /\ f * (to - from) = f * to - f * from /\ f * from \in Nat /\ f * to \in Nat
  BY ProductOfGap
<1> QED BY <1>1

\* An idle row is deleted when the refill has caught up.
LEMMA DeletionRests ==
  ASSUME RateLimitsAssumption, NEW k \in BucketKeys, NEW row \in BucketRow, NEW granted \in Nat, NEW time \in Nat,
         RowCharged(k, row, granted), row.expires <= time
  PROVE  KeyRested(k, granted, time)
<1> SUFFICES ASSUME IdleRowsFull(k) PROVE granted + Rate * Patience <= Rate * time BY DEF KeyRested
<1> PICK a : a = row.refilled OBVIOUS
<1> PICK t : t = row.tokens OBVIOUS
<1>0. a \in Nat /\ t \in Nat BY DEF BucketRow
<1>c. /\ Rate \in Nat /\ IdleTtl \in Nat /\ Patience \in Nat /\ Patience <= IdleTtl /\ Capacity[k] \in Nat
  BY RateConstants DEF IdleRowsFull
<1>1. granted + t <= Capacity[k] + Rate * a BY DEF RowCharged
<1>2. Capacity[k] <= Rate * (IdleTtl - Patience) BY DEF IdleRowsFull
<1>3. /\ Rate * (IdleTtl - Patience) = Rate * IdleTtl - Rate * Patience
      /\ Rate * Patience \in Nat /\ Rate * IdleTtl \in Nat
  BY <1>c, ProductOfGap
<1>4. Rate * (a + IdleTtl) = Rate * a + Rate * IdleTtl /\ Rate * a \in Nat
  BY <1>0, <1>c, ProductOfSum
<1>5. a + IdleTtl <= time BY DEF RowCharged
<1>6. Rate * (a + IdleTtl) <= Rate * time /\ Rate * time \in Nat
  BY <1>0, <1>c, <1>5, ProductGrows
<1>7. granted + Rate * Patience <= Rate * time
  BY <1>0, <1>c, <1>1, <1>2, <1>3, <1>4, <1>6
<1> QED BY <1>7

\* A key that rested is as good as full for every request that is under way.
LEMMA RestedFits ==
  ASSUME RateLimitsAssumption, NEW k \in BucketKeys, IdleRowsFull(k), NEW granted \in Nat, NEW time \in Nat, NEW begun \in Nat, time <= begun + Patience,
         KeyRested(k, granted, time)
  PROVE  granted <= Rate * begun
<1>c. Rate \in Nat /\ Patience \in Nat BY RateConstants
<1>1. Rate * begun \in Nat /\ Rate * Patience \in Nat /\ Rate * (begun + Patience) = Rate * begun + Rate * Patience
  BY <1>c, ProductOfSum
<1>2. Rate * time <= Rate * (begun + Patience) /\ Rate * time \in Nat BY <1>c, ProductGrows
<1> QED BY <1>1, <1>2 DEF KeyRested

LEMMA RestedLater ==
  ASSUME RateLimitsAssumption, NEW k \in BucketKeys, NEW granted \in Nat, NEW time \in Nat, NEW later \in Nat, time <= later,
         KeyRested(k, granted, time)
  PROVE  KeyRested(k, granted, later)
<1>c. Rate \in Nat /\ Patience \in Nat BY RateConstants
<1>1. Rate * time <= Rate * later /\ Rate * time \in Nat /\ Rate * later \in Nat BY <1>c, ProductGrows
<1>2. Rate * Patience \in Nat BY <1>c, ProductGrows
<1> QED BY <1>1, <1>2 DEF KeyRested

-----------------------------------------------------------------------------
(* Charging a key.                                                           *)

\* The row that replaces the one a request has read.
Charged(c, k, old) ==
  LET now == IF old.there THEN Most(old.refilled, c.now) ELSE c.now
      have == Available(old, k, c.now)
  IN [tokens |-> IF have >= c.cost THEN have - c.cost ELSE have,
      refilled |-> now, expires |-> now + IdleTtl, there |-> TRUE]

GrantedTo(c, k, old) == IF Available(old, k, c.now) >= c.cost THEN c.cost ELSE 0

LEMMA AvailableFits ==
  ASSUME RateLimitsAssumption, NEW k \in BucketKeys, NEW old \in BucketRow, NEW granted \in Nat, NEW time \in Nat,
         NEW begun \in Nat, BucketFits(k, old, granted, time), begun <= time, time <= begun + Patience
  PROVE  /\ Available(old, k, begun) \in Nat /\ Available(old, k, begun) <= Capacity[k]
         /\ LET to == IF old.there THEN Most(old.refilled, begun) ELSE begun
            IN to \in Nat /\ to <= time
               /\ (IdleRowsFull(k) => granted + Available(old, k, begun) <= Capacity[k] + Rate * to)
<1>c. Rate \in Nat /\ Capacity[k] \in Nat BY RateConstants
<1> PICK a : a = old.refilled OBVIOUS
<1> PICK t : t = old.tokens OBVIOUS
<1>0. a \in Nat /\ t \in Nat /\ old.there \in BOOLEAN BY DEF BucketRow
<1>1. CASE old.there
  <2> PICK to : to = Most(a, begun) OBVIOUS
  <2>1. to \in Nat /\ a <= to /\ to <= time /\ Most(begun, a) = to
    BY <1>0, <1>1 DEF Most, BucketFits
  <2>2. (IdleRowsFull(k) => granted + t <= Capacity[k] + Rate * a) /\ t <= Capacity[k]
    BY <1>1 DEF BucketFits, RowCharged
  <2>3. IdleRowsFull(k) => granted + (t + Rate * (to - a)) <= Capacity[k] + Rate * to
    BY <1>c, <1>0, <2>1, <2>2, RefillFits
  <2>4. Rate * (to - a) \in Nat /\ Rate * to \in Nat BY <1>c, <1>0, <2>1, ProductOfGap
  <2> PICK x : x = Rate * (to - a) OBVIOUS
  <2> PICK y : y = Rate * to OBVIOUS
  <2> PICK v : v = Available(old, k, begun) OBVIOUS
  <2>5. v = Least(Capacity[k], t + x) BY <1>1, <2>1 DEF Available
  <2>6. v \in Nat /\ v <= Capacity[k] /\ v <= t + x BY <2>5, <2>4, <1>0, <1>c DEF Least
  <2>7. IdleRowsFull(k) => granted + v <= Capacity[k] + y BY <2>3, <2>4, <2>6, <1>0, <1>c
  <2> QED BY <2>1, <2>6, <2>7, <1>1
<1>2. CASE ~old.there
  <2>1. Available(old, k, begun) = Capacity[k] BY <1>2 DEF Available
  <2>2. IdleRowsFull(k) => granted <= Rate * begun BY <1>2, RestedFits DEF BucketFits
  <2>3. Rate * begun \in Nat BY <1>c, ProductGrows
  <2> QED BY <2>1, <2>2, <2>3, <1>2, <1>c
<1> QED BY <1>0, <1>1, <1>2

LEMMA ChargedFits ==
  ASSUME RateLimitsAssumption, NEW k \in BucketKeys, NEW old \in BucketRow, NEW granted \in Nat, NEW time \in Nat,
         NEW c \in CheckRow, BucketFits(k, old, granted, time), c.now <= time, time <= c.now + Patience
  PROVE  /\ Charged(c, k, old) \in BucketRow /\ Charged(c, k, old).there
         /\ GrantedTo(c, k, old) \in Nat
         /\ BucketFits(k, Charged(c, k, old), granted + GrantedTo(c, k, old), time)
<1>c. Rate \in Nat /\ Capacity[k] \in Nat /\ IdleTtl \in Nat BY RateConstants
<1>0. c.now \in Nat /\ c.cost \in Nat BY DEF CheckRow
<1> PICK to : to = IF old.there THEN Most(old.refilled, c.now) ELSE c.now OBVIOUS
<1> PICK v : v = Available(old, k, c.now) OBVIOUS
<1>1. /\ v \in Nat /\ v <= Capacity[k] /\ to \in Nat /\ to <= time
      /\ IdleRowsFull(k) => granted + v <= Capacity[k] + Rate * to
  BY <1>0, AvailableFits
<1> PICK g : g = GrantedTo(c, k, old) OBVIOUS
<1>2. g \in Nat /\ g <= v /\ (g = IF v >= c.cost THEN c.cost ELSE 0) BY <1>0, <1>1 DEF GrantedTo
<1> PICK n : n = Charged(c, k, old) OBVIOUS
<1>3. n = [tokens |-> v - g, refilled |-> to, expires |-> to + IdleTtl, there |-> TRUE]
  <2>1. (IF v >= c.cost THEN v - c.cost ELSE v) = v - g BY <1>0, <1>1, <1>2
  <2> QED BY <2>1 DEF Charged
<1>4. v - g \in Nat /\ to + IdleTtl \in Nat BY <1>1, <1>2, <1>c
<1>5. n.tokens = v - g /\ n.refilled = to /\ n.expires = to + IdleTtl /\ n.there = TRUE BY <1>3
<1>6. n \in BucketRow BY <1>1, <1>3, <1>4 DEF BucketRow
<1>7. Rate * to \in Nat BY <1>c, <1>1, ProductGrows
<1> PICK y : y = Rate * to OBVIOUS
<1>8. IdleRowsFull(k) => (granted + g) + (v - g) <= Capacity[k] + y BY <1>1, <1>2, <1>7, <1>c
<1>9. v - g <= Capacity[k] BY <1>1, <1>2, <1>c
<1>10. BucketFits(k, n, granted + g, time)
  BY <1>1, <1>5, <1>8, <1>9 DEF BucketFits, RowCharged
<1> QED BY <1>2, <1>5, <1>6, <1>10

-----------------------------------------------------------------------------
(* The requests and the locks.                                               *)

LEMMA KeysOfCheck ==
  ASSUME NEW keys \in CheckKeys
  PROVE  /\ ToSet(keys) \subseteq BucketKeys /\ IsFiniteSet(ToSet(keys)) /\ Cardinality(ToSet(keys)) <= 2
         /\ ToSet(keys) = {keys[i] : i \in DOMAIN keys}
<1>0. ToSet(keys) = {keys[i] : i \in DOMAIN keys} BY DEF ToSet
<1>s. \A x : IsFiniteSet({x}) /\ Cardinality({x}) = 1 BY FS_Singleton
<1>1. CASE keys \in {<<Project, a>> : a \in Actors}
  <2> PICK a \in Actors : keys = <<Project, a>> BY <1>1
  <2>1. ToSet(keys) = {Project} \cup {a} BY DEF ToSet
  <2>2. /\ IsFiniteSet({Project} \cup {a})
        /\ Cardinality({Project} \cup {a}) = IF a \in {Project} THEN Cardinality({Project}) ELSE Cardinality({Project}) + 1
    BY <1>s, FS_AddElement
  <2>3. Cardinality({Project} \cup {a}) <= 2
    <3>1. Cardinality({Project}) = 1 BY <1>s
    <3> PICK n : n = Cardinality({Project} \cup {a}) OBVIOUS
    <3>2. n = IF a \in {Project} THEN 1 ELSE 1 + 1 BY <2>2, <3>1
    <3>3. n = 1 \/ n = 2 BY <3>2
    <3> QED BY <3>3
  <2> QED BY <2>1, <2>2, <2>3, <1>0 DEF BucketKeys
<1>2. CASE keys \in {<<a>> : a \in Actors}
  <2> PICK a \in Actors : keys = <<a>> BY <1>2
  <2>1. ToSet(keys) = {a} BY DEF ToSet
  <2>2. IsFiniteSet(ToSet(keys)) /\ Cardinality(ToSet(keys)) = 1 BY <2>1, <1>s
  <2>3. Cardinality(ToSet(keys)) <= 2 BY <2>2
  <2> QED BY <2>1, <2>2, <2>3, <1>0 DEF BucketKeys
<1> QED BY <1>1, <1>2 DEF CheckKeys

LEMMA NoCheckShaped ==
  /\ NoCheck \in CheckRow /\ NoCheck.step = "idle" /\ NoCheck.held = {}
  /\ \A written, time : CheckFits(NoCheck, written, time)
<1>1. NoCheck.step = "idle" /\ NoCheck.held = {} BY DEF NoCheck
<1>2. <<>> \in SeenRows BY DEF SeenRows
<1>3. NoCheck \in CheckRow BY <1>2 DEF NoCheck, CheckRow
<1> QED BY <1>1, <1>3 DEF CheckFits

\* One request moves on while the rows it and the others have read stay.
LEMMA CheckMoves ==
  ASSUME ChecksFit, LocksFit, NEW r \in Checkers, NEW n \in CheckRow,
         checks' = [checks EXCEPT ![r] = n], CheckFits(n, buckets', instant), instant' = instant,
         \A q \in Checkers : q # r => CheckFits(checks[q], buckets', instant),
         \A q \in Checkers : q # r => n.held \cap checks[q].held = {}
  PROVE  ChecksFit' /\ LocksFit'
<1>1. checks' \in [Checkers -> CheckRow] BY DEF ChecksFit
<1>2. checks'[r] = n /\ \A q \in Checkers : q # r => checks'[q] = checks[q] BY DEF ChecksFit
<1>3. \A q \in Checkers : CheckFits(checks'[q], buckets', instant') BY <1>2
<1>4. LocksFit'
  <2> SUFFICES ASSUME NEW p \in Checkers, NEW q \in Checkers, p # q
               PROVE  checks'[p].held \cap checks'[q].held = {}
    BY DEF LocksFit
  <2>1. CASE p = r BY <2>1, <1>2
  <2>2. CASE q = r BY <2>2, <1>2
  <2>3. CASE p # r /\ q # r BY <2>3, <1>2 DEF LocksFit
  <2> QED BY <2>1, <2>2, <2>3
<1> QED BY <1>1, <1>3, <1>4 DEF ChecksFit

LEMMA BucketsStay ==
  ASSUME BucketsFit, EntriesCount, UNCHANGED <<buckets, entries, spent, instant>>
  PROVE  BucketsFit' /\ EntriesCount'
BY DEF BucketsFit, EntriesCount, RowsThere

-----------------------------------------------------------------------------
(* The steps.                                                                *)

LEMMA BeginKeeps ==
  ASSUME RateLimitsAssumption, RateInvariant, NEW r \in Checkers, NEW keys \in CheckKeys, NEW cost \in 1..MaxCost,
         BeginCheck(r, keys, cost)
  PROVE  RateInvariant'
<1> USE DEF RateInvariant
<1>c. MaxCost \in Nat /\ Patience \in Nat BY RateConstants
<1>i. instant \in Nat BY RateConstants DEF BucketsFit
<1>u. UNCHANGED <<buckets, entries, spent, instant>> BY DEF BeginCheck
<1>1. BucketsFit' /\ EntriesCount' BY <1>u, BucketsStay
<1> PICK n : n = [NoCheck EXCEPT !.step = "locking", !.keys = keys, !.cost = cost, !.now = instant] OBVIOUS
<1>2. checks' = [checks EXCEPT ![r] = n] BY DEF BeginCheck
<1>3. n = [step |-> "locking", keys |-> keys, cost |-> cost, now |-> instant, held |-> {}, seen |-> <<>>]
  BY DEF NoCheck
<1>4. <<>> \in SeenRows BY DEF SeenRows
<1>5. n \in CheckRow BY <1>c, <1>i, <1>3, <1>4 DEF CheckRow
<1>6. n.step = "locking" /\ n.keys = keys /\ n.now = instant /\ n.held = {}
  <2> HIDE DEF RateInvariant
  <2>1. n.step = "locking" /\ n.now = instant BY <1>3
  <2>2. n.keys = keys BY <1>3
  <2>3. n.held = NoCheck.held BY DEF NoCheck
  <2>4. NoCheck.held = {} BY NoCheckShaped
  <2> QED BY <2>1, <2>2, <2>3, <2>4
<1>7. CheckFits(n, buckets', instant) BY <1>6, <1>c, <1>i DEF CheckFits, CheckUnderway
<1>8. \A q \in Checkers : CheckFits(checks[q], buckets', instant) BY <1>u DEF ChecksFit
<1>9. ChecksFit' /\ LocksFit' BY <1>2, <1>5, <1>6, <1>7, <1>8, <1>u, CheckMoves
<1> QED BY <1>1, <1>9

LEMMA LockKeeps ==
  ASSUME RateLimitsAssumption, RateInvariant, NEW r \in Checkers, LockKey(r)
  PROVE  RateInvariant'
<1> USE DEF RateInvariant
<1>u. UNCHANGED <<buckets, entries, spent, instant>> BY DEF LockKey
<1>1. BucketsFit' /\ EntriesCount' BY <1>u, BucketsStay
<1> PICK k \in Wanted(r) : k \notin HeldByOthers(r) /\ checks' = [checks EXCEPT ![r].held = @ \cup {k}]
  BY DEF LockKey
<1> PICK w : w = checks[r] OBVIOUS
<1>w. w \in CheckRow /\ w.step = "locking" /\ CheckUnderway(w, buckets, instant)
  BY DEF ChecksFit, CheckFits, LockKey
<1>k. k \in ToSet(w.keys) /\ k \in BucketKeys BY <1>w, KeysOfCheck DEF Wanted, CheckUnderway
<1> PICK n : n = [w EXCEPT !.held = w.held \cup {k}] OBVIOUS
<1>n. /\ n \in CheckRow /\ n.held = w.held \cup {k} /\ n.step = "locking" /\ n.keys = w.keys /\ n.now = w.now
  BY <1>w, <1>k DEF CheckRow
<1>2. checks' = [checks EXCEPT ![r] = n] BY DEF ChecksFit
<1>3. CheckFits(n, buckets', instant) BY <1>w, <1>n, <1>k DEF CheckFits, CheckUnderway
<1>4. \A q \in Checkers : CheckFits(checks[q], buckets', instant) BY <1>u DEF ChecksFit
<1>5. \A q \in Checkers : q # r => k \notin checks[q].held BY DEF HeldByOthers
<1>6. \A q \in Checkers : q # r => n.held \cap checks[q].held = {} BY <1>5, <1>n DEF LocksFit
<1>7. ChecksFit' /\ LocksFit' BY <1>2, <1>n, <1>3, <1>4, <1>6, <1>u, CheckMoves
<1> QED BY <1>1, <1>7

LEMMA ReadKeeps ==
  ASSUME RateLimitsAssumption, RateInvariant, NEW r \in Checkers, ReadRows(r)
  PROVE  RateInvariant'
<1> USE DEF RateInvariant
<1>u. UNCHANGED <<buckets, entries, spent, instant>> BY DEF ReadRows
<1>1. BucketsFit' /\ EntriesCount' BY <1>u, BucketsStay
<1> PICK w : w = checks[r] OBVIOUS
<1>w. w \in CheckRow /\ w.step = "locking" /\ CheckUnderway(w, buckets, instant)
  BY DEF ChecksFit, CheckFits, ReadRows
<1>k. w.held = ToSet(w.keys) /\ ToSet(w.keys) \subseteq BucketKeys
  BY <1>w, KeysOfCheck DEF ReadRows, Wanted, CheckUnderway
<1> PICK s : s = Restrict(buckets, ToSet(w.keys)) OBVIOUS
<1>s. s = [k \in ToSet(w.keys) |-> buckets[k]] BY DEF Restrict
<1>t. s \in [ToSet(w.keys) -> BucketRow] BY <1>s, <1>k DEF BucketsFit
<1>v. s \in SeenRows BY <1>t, <1>k DEF SeenRows
<1> PICK n : n = [w EXCEPT !.step = "read", !.seen = s] OBVIOUS
<1>n. /\ n \in CheckRow /\ n.held = w.held /\ n.step = "read" /\ n.keys = w.keys /\ n.now = w.now /\ n.seen = s
  BY <1>w, <1>v DEF CheckRow
<1>2. checks' = [checks EXCEPT ![r] = n] BY DEF ChecksFit, ReadRows
<1>3. CheckFits(n, buckets', instant) BY <1>w, <1>n, <1>k, <1>s, <1>u DEF CheckFits, CheckUnderway
<1>4. \A q \in Checkers : CheckFits(checks[q], buckets', instant) BY <1>u DEF ChecksFit
<1>5. \A q \in Checkers : q # r => n.held \cap checks[q].held = {} BY <1>n DEF LocksFit
<1>6. ChecksFit' /\ LocksFit' BY <1>2, <1>n, <1>3, <1>4, <1>5, <1>u, CheckMoves
<1> QED BY <1>1, <1>6

LEMMA AbortKeeps ==
  ASSUME RateLimitsAssumption, RateInvariant, NEW r \in Checkers, AbortCheck(r)
  PROVE  RateInvariant'
<1> USE DEF RateInvariant
<1>u. UNCHANGED <<buckets, entries, spent, instant>> BY DEF AbortCheck
<1>1. BucketsFit' /\ EntriesCount' BY <1>u, BucketsStay
<1>2. checks' = [checks EXCEPT ![r] = NoCheck] BY DEF AbortCheck
<1>3. \A q \in Checkers : CheckFits(checks[q], buckets', instant) BY <1>u DEF ChecksFit
<1>4. ChecksFit' /\ LocksFit' BY <1>2, <1>3, <1>u, NoCheckShaped, CheckMoves
<1> QED BY <1>1, <1>4

LEMMA TickKeeps ==
  ASSUME RateLimitsAssumption, RateInvariant, RateTick
  PROVE  RateInvariant'
<1> USE DEF RateInvariant
<1>c. Patience \in Nat /\ MaxInstant \in Nat BY RateConstants
<1>u. UNCHANGED <<buckets, entries, checks, spent>> BY DEF RateTick
<1>i. instant \in Nat /\ instant' = instant + 1 /\ instant' \in 0..MaxInstant BY <1>c DEF RateTick, BucketsFit
<1>1. EntriesCount' BY <1>u DEF EntriesCount, RowsThere
<1>2. \A k \in BucketKeys : BucketFits(k, buckets[k], spent[k], instant')
  <2> TAKE k \in BucketKeys
  <2>0. buckets[k] \in BucketRow /\ spent[k] \in Nat /\ BucketFits(k, buckets[k], spent[k], instant) BY DEF BucketsFit
  <2>1. CASE buckets[k].there
    <3>1. buckets[k].refilled \in Nat BY <2>0 DEF BucketRow
    <3> QED BY <2>0, <2>1, <3>1, <1>i DEF BucketFits
  <2>2. CASE ~buckets[k].there
    <3>1. KeyRested(k, spent[k], instant') BY <2>0, <2>2, <1>i, RestedLater DEF BucketFits
    <3> QED BY <2>0, <2>2, <3>1 DEF BucketFits
  <2> QED BY <2>1, <2>2
<1>3. BucketsFit' BY <1>2, <1>i, <1>u DEF BucketsFit
<1>4. LocksFit' BY <1>u DEF LocksFit
<1>5. \A r \in Checkers : CheckFits(checks[r], buckets, instant')
  <2> TAKE r \in Checkers
  <2>1. CASE checks[r].step = "idle" BY <2>1 DEF ChecksFit, CheckFits
  <2>2. CASE checks[r].step # "idle"
    <3>1. checks[r] \in CheckRow /\ CheckUnderway(checks[r], buckets, instant) BY <2>2 DEF ChecksFit, CheckFits
    <3>2. checks[r].now \in Nat BY <3>1 DEF CheckRow
    <3>3. checks[r].now <= instant' /\ instant' <= checks[r].now + Patience
      BY <1>i, <1>c, <2>2, <3>1, <3>2 DEF RateTick, CheckUnderway
    <3> QED BY <2>2, <3>1, <3>3 DEF CheckFits, CheckUnderway
  <2> QED BY <2>1, <2>2
<1>6. ChecksFit' BY <1>5, <1>u DEF ChecksFit
<1> QED BY <1>1, <1>3, <1>4, <1>6

-----------------------------------------------------------------------------
(* Deleting idle rows.                                                       *)

\* Rows that nobody else has read are deleted, at a time no later than now.
LEMMA ExpiredRests ==
  ASSUME RateLimitsAssumption, BucketsFit, NEW time \in Nat, time <= instant, NEW locked, NEW gone,
         gone \subseteq Expired(time, locked)
  PROVE  /\ gone \subseteq RowsThere
         /\ \A k \in BucketKeys :
              /\ Without(buckets, gone)[k] \in BucketRow
              /\ BucketFits(k, Without(buckets, gone)[k], spent[k], instant)
              /\ Without(buckets, gone)[k].there <=> (k \in RowsThere \ gone)
              /\ k \notin gone => Without(buckets, gone)[k] = buckets[k]
<1>i. instant \in Nat BY RateConstants DEF BucketsFit
<1>1. gone \subseteq RowsThere BY DEF Expired, RowsThere
<1>n. NoRow \in BucketRow /\ ~NoRow.there BY DEF NoRow, BucketRow
<1>2. ASSUME NEW k \in BucketKeys
      PROVE  /\ Without(buckets, gone)[k] \in BucketRow
             /\ BucketFits(k, Without(buckets, gone)[k], spent[k], instant)
             /\ Without(buckets, gone)[k].there <=> (k \in RowsThere \ gone)
             /\ k \notin gone => Without(buckets, gone)[k] = buckets[k]
  <2>0. buckets[k] \in BucketRow /\ spent[k] \in Nat /\ BucketFits(k, buckets[k], spent[k], instant) BY DEF BucketsFit
  <2>1. CASE k \in gone
    <3>1. Without(buckets, gone)[k] = NoRow BY <2>1 DEF Without
    <3>2. buckets[k].there /\ buckets[k].expires <= time BY <2>1 DEF Expired
    <3>3. buckets[k].expires \in Nat BY <2>0 DEF BucketRow
    <3>4. buckets[k].expires <= instant BY <1>i, <3>2, <3>3
    <3>5. RowCharged(k, buckets[k], spent[k]) BY <2>0, <3>2 DEF BucketFits
    <3>6. KeyRested(k, spent[k], instant) BY <1>i, <2>0, <3>4, <3>5, DeletionRests
    <3>7. BucketFits(k, NoRow, spent[k], instant) BY <1>n, <3>6 DEF BucketFits
    <3> QED BY <2>1, <3>1, <3>7, <1>n
  <2>2. CASE k \notin gone
    <3>1. Without(buckets, gone)[k] = buckets[k] BY <2>2 DEF Without
    <3> QED BY <2>0, <2>2, <3>1 DEF RowsThere
  <2> QED BY <2>1, <2>2
<1> QED BY <1>1, <1>2

\* What a request has read is not deleted by another.
LEMMA ReadersKeepRows ==
  ASSUME ChecksFit, NEW r, NEW q \in Checkers, q # r, NEW time, NEW written,
         \A k \in checks[q].held : k \in BucketKeys /\ k \notin Expired(time, RowsLocked(r)) => written[k] = buckets[k]
  PROVE  CheckFits(checks[q], written, instant)
<1>0. CheckFits(checks[q], buckets, instant) BY DEF ChecksFit
<1>1. CASE checks[q].step # "read" BY <1>0, <1>1 DEF CheckFits, CheckUnderway
<1>2. CASE checks[q].step = "read"
  <2>1. CheckUnderway(checks[q], buckets, instant) BY <1>0, <1>2 DEF CheckFits
  <2>2. \A k \in checks[q].held : k \in BucketKeys BY <2>1, KeysOfCheck DEF CheckUnderway
  <2>3. \A k \in checks[q].held : k \notin Expired(time, RowsLocked(r))
    BY <1>2, <2>2 DEF Expired, RowsLocked
  <2>4. \A k \in checks[q].held : checks[q].seen[k] = written[k] BY <1>2, <2>1, <2>2, <2>3 DEF CheckUnderway
  <2>5. CheckUnderway(checks[q], written, instant) BY <2>1, <2>4 DEF CheckUnderway
  <2> QED BY <2>5, <1>2 DEF CheckFits
<1> QED BY <1>1, <1>2

LEMMA RemovedCount ==
  ASSUME NEW S, IsFiniteSet(S), NEW gone, gone \subseteq S
  PROVE  /\ IsFiniteSet(S \ gone) /\ IsFiniteSet(gone)
         /\ Cardinality(S \ gone) = Cardinality(S) - Cardinality(gone)
         /\ Cardinality(gone) \in Nat /\ Cardinality(S \ gone) \in Nat /\ Cardinality(S) \in Nat
<1>1. S \cap gone = gone OBVIOUS
<1>2. IsFiniteSet(S \ gone) /\ Cardinality(S \ gone) = Cardinality(S) - Cardinality(S \cap gone) BY FS_Difference
<1>3. IsFiniteSet(gone) BY FS_Subset
<1> QED BY <1>1, <1>2, <1>3, FS_CardinalityType

LEMMA MaintainKeeps ==
  ASSUME RateLimitsAssumption, RateInvariant, MaintainBuckets
  PROVE  RateInvariant'
<1> USE DEF RateInvariant
<1>c. MaxEntries \in Nat BY RateConstants
<1>i. instant \in Nat BY RateConstants DEF BucketsFit
<1> PICK gone : gone = Expired(instant, RowsLocked(0)) OBVIOUS
<1>0. /\ buckets' = Without(buckets, gone) /\ entries' = entries - Cardinality(gone)
      /\ UNCHANGED <<checks, spent, instant>>
  BY DEF MaintainBuckets
<1>1. /\ gone \subseteq RowsThere
      /\ \A k \in BucketKeys :
           /\ buckets'[k] \in BucketRow /\ BucketFits(k, buckets'[k], spent[k], instant)
           /\ buckets'[k].there <=> (k \in RowsThere \ gone)
           /\ k \notin gone => buckets'[k] = buckets[k]
  BY <1>i, <1>0, ExpiredRests
<1>2. buckets' \in [BucketKeys -> BucketRow] BY <1>0, <1>1 DEF Without
<1>3. BucketsFit' BY <1>0, <1>1, <1>2 DEF BucketsFit
<1>4. \A q \in Checkers : q # 0 BY DEF RateLimitsAssumption
<1>5. \A q \in Checkers : CheckFits(checks[q], buckets', instant) BY <1>1, <1>4, ReadersKeepRows
<1>6. ChecksFit' /\ LocksFit' BY <1>0, <1>5 DEF ChecksFit, LocksFit
<1>7. RowsThere' = RowsThere \ gone BY <1>1 DEF RowsThere
<1>8. EntriesCount' BY <1>0, <1>1, <1>7, <1>c, RemovedCount DEF EntriesCount
<1> QED BY <1>3, <1>6, <1>8

-----------------------------------------------------------------------------
(* A request commits.                                                        *)

\* The rows it writes, of keys it has locked.
LEMMA EvaluatedRows ==
  ASSUME NEW r \in Checkers, CheckUnderway(checks[r], buckets, instant), checks[r].step = "read"
  PROVE  \E D \in SUBSET ToSet(checks[r].keys) :
           Evaluated(r) = [k \in D |-> Charged(checks[r], k, checks[r].seen[k])]
<1> DEFINE c == checks[r]
           Enough(i) == Available(c.seen[c.keys[i]], c.keys[i], c.now) >= c.cost
           Reached == {i \in DOMAIN c.keys : \A j \in 1..i - 1 : Enough(j)}
           D == {c.keys[i] : i \in Reached}
<1>1. D \subseteq ToSet(c.keys) BY DEF ToSet
<1>2. Evaluated(r) = [k \in D |-> Charged(c, k, c.seen[k])]
  BY DEF Evaluated, Charged
<1> QED BY <1>1, <1>2

\* The rows of a set D, at most two, are written after those of gone were
\* deleted; that some are new was compared with the limit before.
RowsCounted(written, gone, D) ==
  /\ IsFiniteSet(written) /\ Cardinality(written) <= MaxEntries + 1 /\ gone \subseteq written
  /\ IsFiniteSet(D) /\ Cardinality(D) <= 2
  /\ Cardinality(D \ written) = 0 => gone = {}
  /\ EntriesFit(Cardinality(written) - Cardinality(gone), Cardinality(D \ written))

LEMMA CountWritten ==
  ASSUME RateLimitsAssumption, NEW written, NEW gone, NEW D, RowsCounted(written, gone, D)
  PROVE  /\ IsFiniteSet((written \ gone) \cup D)
         /\ Cardinality((written \ gone) \cup D) = Cardinality(written) - Cardinality(gone) + Cardinality(D \ (written \ gone))
         /\ Cardinality((written \ gone) \cup D) <= MaxEntries + 1
<1>c. MaxEntries \in Nat BY RateConstants
<1> PICK F : F = D \ (written \ gone) OBVIOUS
<1> PICK N : N = D \ written OBVIOUS
<1> PICK R : R = written \ gone OBVIOUS
<1>1. /\ IsFiniteSet(written) /\ Cardinality(written) <= MaxEntries + 1 /\ gone \subseteq written
      /\ IsFiniteSet(D) /\ Cardinality(D) <= 2 /\ (Cardinality(N) = 0 => gone = {})
      /\ EntriesFit(Cardinality(written) - Cardinality(gone), Cardinality(N))
  BY DEF RowsCounted
<1>2. /\ IsFiniteSet(R) /\ Cardinality(R) = Cardinality(written) - Cardinality(gone)
      /\ Cardinality(gone) \in Nat /\ Cardinality(R) \in Nat /\ Cardinality(written) \in Nat
  BY <1>1, RemovedCount
<1>3. F \in SUBSET D /\ N \in SUBSET D OBVIOUS
<1>4. IsFiniteSet(F) /\ Cardinality(F) <= Cardinality(D) /\ IsFiniteSet(N) BY <1>1, <1>3, FS_Subset
<1>5. Cardinality(F) \in Nat /\ Cardinality(N) \in Nat /\ Cardinality(D) \in Nat BY <1>1, <1>4, FS_CardinalityType
<1>6. R \cup D = R \cup F /\ R \cap F = {} OBVIOUS
<1>7. IsFiniteSet(R \cup F) /\ Cardinality(R \cup F) = Cardinality(R) + Cardinality(F) - Cardinality(R \cap F)
  BY <1>2, <1>4, FS_Union
<1>8. Cardinality({}) = 0 BY FS_EmptySet
<1> PICK cf : cf = Cardinality(F) OBVIOUS
<1> PICK cn : cn = Cardinality(N) OBVIOUS
<1> PICK cr : cr = Cardinality(R) OBVIOUS
<1>9. Cardinality(R \cup F) = cr + cf
  <2>1. Cardinality(R \cap F) = 0 BY <1>6, <1>8
  <2>2. Cardinality(R \cup F) = cr + cf - 0 BY <1>7, <2>1
  <2>3. cr \in Nat /\ cf \in Nat BY <1>2, <1>5
  <2> QED BY <2>2, <2>3
<1>10. cr + cf <= MaxEntries + 1
  <2>1. CASE cn = 0
    <3>1. gone = {} BY <2>1, <1>1
    <3>2. N = {} BY <2>1, <1>4, FS_EmptySet
    <3>3. D \subseteq written BY <3>2
    <3>4. F = {} BY <3>1, <3>3
    <3>5. cf = 0 /\ Cardinality(gone) = 0 BY <3>1, <3>4, <1>8
    <3> QED BY <3>5, <1>1, <1>2, <1>c
  <2>2. CASE cn # 0
    <3>1. cr + cn <= MaxEntries BY <2>2, <1>1, <1>2 DEF EntriesFit
    <3>2. cf <= 2 BY <1>1, <1>4, <1>5
    <3> QED BY <3>1, <3>2, <2>2, <1>2, <1>5, <1>c
  <2> QED BY <2>1, <2>2
<1> QED BY <1>2, <1>6, <1>7, <1>9, <1>10

\* A request writes the rows of D and deletes those of gone.
Commits(r, D, gone) ==
  /\ D \subseteq ToSet(checks[r].keys)
  /\ gone \subseteq Expired(checks[r].now, RowsLocked(r))
  /\ Cardinality(D \ RowsThere) = 0 => gone = {}
  /\ EntriesFit(entries - Cardinality(gone), Cardinality(D \ RowsThere))
  /\ buckets' = [k \in BucketKeys |-> IF k \in D THEN Charged(checks[r], k, buckets[k]) ELSE Without(buckets, gone)[k]]
  /\ entries' = entries - Cardinality(gone) + Cardinality(D \ (RowsThere \ gone))
  /\ spent' = [k \in BucketKeys |-> IF k \in D THEN spent[k] + GrantedTo(checks[r], k, buckets[k]) ELSE spent[k]]
  /\ checks' = [checks EXCEPT ![r] = NoCheck] /\ instant' = instant

\* What a request that commits has read and has locked.
HasRead(r) ==
  /\ checks[r] \in CheckRow /\ checks[r].step = "read" /\ CheckUnderway(checks[r], buckets, instant)
  /\ checks[r].held = ToSet(checks[r].keys) /\ \A k \in checks[r].held : checks[r].seen[k] = buckets[k]
  /\ ToSet(checks[r].keys) \subseteq BucketKeys /\ IsFiniteSet(ToSet(checks[r].keys))
  /\ Cardinality(ToSet(checks[r].keys)) <= 2

LEMMA CommitterHasRead ==
  ASSUME ChecksFit, NEW r \in Checkers, checks[r].step = "read"
  PROVE  HasRead(r)
<1>1. checks[r] \in CheckRow /\ CheckUnderway(checks[r], buckets, instant) BY DEF ChecksFit, CheckFits
<1>2. checks[r].keys \in CheckKeys BY <1>1 DEF CheckUnderway
<1>3. /\ ToSet(checks[r].keys) \subseteq BucketKeys /\ IsFiniteSet(ToSet(checks[r].keys))
      /\ Cardinality(ToSet(checks[r].keys)) <= 2
  BY <1>2, KeysOfCheck
<1> QED BY <1>1, <1>3 DEF HasRead, CheckUnderway

LEMMA SpentByKey ==
  ASSUME BucketsFit, NEW r \in Checkers, HasRead(r), NEW D, D \subseteq ToSet(checks[r].keys),
         spent' = [k \in BucketKeys |-> IF k \in D /\ Granted(r, k) THEN spent[k] + checks[r].cost ELSE spent[k]]
  PROVE  spent' = [k \in BucketKeys |-> IF k \in D THEN spent[k] + GrantedTo(checks[r], k, buckets[k]) ELSE spent[k]]
<1>1. ASSUME NEW k \in BucketKeys
      PROVE  (IF k \in D /\ Granted(r, k) THEN spent[k] + checks[r].cost ELSE spent[k])
             = (IF k \in D THEN spent[k] + GrantedTo(checks[r], k, buckets[k]) ELSE spent[k])
  <2>0. spent[k] \in Nat BY DEF BucketsFit
  <2>1. CASE k \notin D BY <2>1
  <2>2. CASE k \in D
    <3>1. checks[r].seen[k] = buckets[k] BY <2>2 DEF HasRead
    <3>2. Granted(r, k) <=> Available(buckets[k], k, checks[r].now) >= checks[r].cost BY <3>1 DEF Granted
    <3>3. CASE Granted(r, k) BY <3>2, <3>3, <2>2 DEF GrantedTo
    <3>4. CASE ~Granted(r, k)
      <4>1. GrantedTo(checks[r], k, buckets[k]) = 0 BY <3>2, <3>4 DEF GrantedTo
      <4> QED BY <4>1, <3>4, <2>0, <2>2
    <3> QED BY <3>3, <3>4
  <2> QED BY <2>1, <2>2
<1> QED BY <1>1

LEMMA CommitShaped ==
  ASSUME RateLimitsAssumption, BucketsFit, NEW r \in Checkers, HasRead(r), CommitCheck(r)
  PROVE  \E D, gone : Commits(r, D, gone)
<1>0. CheckUnderway(checks[r], buckets, instant) /\ checks[r].step = "read" BY DEF HasRead
<1>1. PICK D \in SUBSET ToSet(checks[r].keys) : Evaluated(r) = [k \in D |-> Charged(checks[r], k, checks[r].seen[k])]
  BY <1>0, EvaluatedRows
<1> DEFINE written == Evaluated(r)
           new == Cardinality({k \in DOMAIN written : ~checks[r].seen[k].there})
           gone == IF new > 0 THEN Expired(checks[r].now, RowsLocked(r)) ELSE {}
           kept == Without(buckets, gone)
<1>2. DOMAIN written = D BY <1>1
<1>3. \A k \in D : k \in BucketKeys /\ checks[r].seen[k] = buckets[k] BY DEF HasRead
<1>4. \A k \in D : written[k] = Charged(checks[r], k, buckets[k]) BY <1>1, <1>3, SMTT(40)
<1>5. /\ EntriesFit(entries - Cardinality(gone), new)
      /\ buckets' = [k \in BucketKeys |-> IF k \in DOMAIN written THEN written[k] ELSE kept[k]]
      /\ entries' = entries - Cardinality(gone) + Cardinality({k \in DOMAIN written : ~kept[k].there})
      /\ spent' = [k \in BucketKeys |-> IF k \in DOMAIN written /\ Granted(r, k)
                                        THEN spent[k] + checks[r].cost ELSE spent[k]]
      /\ checks' = [checks EXCEPT ![r] = NoCheck] /\ instant' = instant
  BY DEF CommitCheck
<1>6. {k \in DOMAIN written : ~checks[r].seen[k].there} = D \ RowsThere BY <1>2, <1>3 DEF RowsThere
<1>7. new = Cardinality(D \ RowsThere) BY <1>6
<1>8. gone \subseteq Expired(checks[r].now, RowsLocked(r)) OBVIOUS
<1>9. IsFiniteSet(D \ RowsThere)
  <2>1. IsFiniteSet(D) BY FS_Subset DEF HasRead
  <2> QED BY <2>1, FS_Difference
<1>10. Cardinality(D \ RowsThere) \in Nat BY <1>9, FS_CardinalityType
<1>11. Cardinality(D \ RowsThere) = 0 => gone = {}
  <2> HIDE DEF written, new
  <2> QED BY <1>7
<1>12. spent' = [k \in BucketKeys |-> IF k \in D THEN spent[k] + GrantedTo(checks[r], k, buckets[k]) ELSE spent[k]]
  <2> HIDE DEF written, gone, new, kept
  <2> QED BY <1>2, <1>5, SpentByKey
<1>13. \A k \in D : kept[k].there <=> k \in RowsThere \ gone
  <2>1. ~NoRow.there BY DEF NoRow
  <2> HIDE DEF written, gone, new
  <2> QED BY <2>1, <1>3 DEF Without, RowsThere
<1>14. {k \in DOMAIN written : ~kept[k].there} = D \ (RowsThere \ gone)
  <2> HIDE DEF written, gone, new, kept
  <2> QED BY <1>2, <1>13
<1>15. buckets' = [k \in BucketKeys |-> IF k \in D THEN Charged(checks[r], k, buckets[k]) ELSE kept[k]]
  <2> HIDE DEF written, gone, new, kept
  <2> QED BY <1>2, <1>4, <1>5
<1>16. Commits(r, D, gone)
  <2> HIDE DEF written, new, gone
  <2> QED BY <1>5, <1>7, <1>8, <1>11, <1>12, <1>14, <1>15 DEF Commits
<1> HIDE DEF gone
<1> QED BY <1>16

LEMMA CommitBuckets ==
  ASSUME RateLimitsAssumption, BucketsFit, NEW r \in Checkers, HasRead(r), NEW D, NEW gone, Commits(r, D, gone)
  PROVE  /\ BucketsFit' /\ gone \subseteq RowsThere /\ RowsThere' = (RowsThere \ gone) \cup D
         /\ \A k \in BucketKeys : k \notin D /\ k \notin gone => buckets'[k] = buckets[k]
<1>i. instant \in Nat BY RateConstants DEF BucketsFit
<1>t. /\ checks[r] \in CheckRow /\ checks[r].now \in Nat /\ checks[r].now <= instant
      /\ instant <= checks[r].now + Patience
  BY DEF HasRead, CheckUnderway, CheckRow
<1>d. D \subseteq BucketKeys BY DEF Commits, HasRead
<1>g. gone \subseteq Expired(checks[r].now, RowsLocked(r)) BY DEF Commits
<1>w. /\ gone \subseteq RowsThere
      /\ \A k \in BucketKeys :
           /\ Without(buckets, gone)[k] \in BucketRow
           /\ BucketFits(k, Without(buckets, gone)[k], spent[k], instant)
           /\ Without(buckets, gone)[k].there <=> (k \in RowsThere \ gone)
           /\ k \notin gone => Without(buckets, gone)[k] = buckets[k]
  BY <1>t, <1>g, ExpiredRests
<1> PICK kept : kept = Without(buckets, gone) OBVIOUS
<1>1. /\ gone \subseteq RowsThere
      /\ \A k \in BucketKeys :
           /\ kept[k] \in BucketRow /\ BucketFits(k, kept[k], spent[k], instant)
           /\ kept[k].there <=> (k \in RowsThere \ gone)
           /\ k \notin gone => kept[k] = buckets[k]
  BY <1>w
<1>2. ASSUME NEW k \in D
      PROVE  /\ buckets'[k] \in BucketRow /\ buckets'[k].there /\ spent'[k] \in Nat
             /\ BucketFits(k, buckets'[k], spent'[k], instant)
  <2>0. k \in BucketKeys /\ buckets[k] \in BucketRow /\ spent[k] \in Nat /\ BucketFits(k, buckets[k], spent[k], instant)
    BY <1>d DEF BucketsFit
  <2>1. buckets'[k] = Charged(checks[r], k, buckets[k]) /\ spent'[k] = spent[k] + GrantedTo(checks[r], k, buckets[k])
    BY <2>0 DEF Commits
  <2>2. /\ Charged(checks[r], k, buckets[k]) \in BucketRow /\ Charged(checks[r], k, buckets[k]).there
        /\ GrantedTo(checks[r], k, buckets[k]) \in Nat
        /\ BucketFits(k, Charged(checks[r], k, buckets[k]), spent[k] + GrantedTo(checks[r], k, buckets[k]), instant)
    BY <2>0, <1>t, <1>i, ChargedFits
  <2> QED BY <2>0, <2>1, <2>2
<1>3. ASSUME NEW k \in BucketKeys \ D
      PROVE  buckets'[k] = kept[k] /\ spent'[k] = spent[k]
  BY DEF Commits
<1>4. \A k \in BucketKeys : buckets'[k] \in BucketRow BY <1>1, <1>2, <1>3
<1>5. \A k \in BucketKeys : spent'[k] \in Nat BY <1>2, <1>3 DEF BucketsFit
<1>6. \A k \in BucketKeys : BucketFits(k, buckets'[k], spent'[k], instant) BY <1>1, <1>2, <1>3
<1>7. buckets' \in [BucketKeys -> BucketRow] BY <1>4 DEF Commits
<1>8. spent' \in [BucketKeys -> Nat] BY <1>5 DEF Commits
<1>9. BucketsFit' BY <1>6, <1>7, <1>8 DEF BucketsFit, Commits
<1>10. \A k \in BucketKeys : buckets'[k].there <=> k \in (RowsThere \ gone) \cup D BY <1>1, <1>2, <1>3
<1>11. RowsThere' = (RowsThere \ gone) \cup D BY <1>10, <1>d DEF RowsThere
<1>12. \A k \in BucketKeys : k \notin D /\ k \notin gone => buckets'[k] = buckets[k] BY <1>1, <1>3
<1> QED BY <1>1, <1>9, <1>11, <1>12

LEMMA CommitEntries ==
  ASSUME RateLimitsAssumption, EntriesCount, NEW r \in Checkers, HasRead(r), NEW D, NEW gone, Commits(r, D, gone),
         gone \subseteq RowsThere, RowsThere' = (RowsThere \ gone) \cup D
  PROVE  EntriesCount'
<1>1. IsFiniteSet(D) /\ Cardinality(D) <= 2
  <2>1. IsFiniteSet(D) /\ Cardinality(D) <= Cardinality(ToSet(checks[r].keys)) BY FS_Subset DEF HasRead, Commits
  <2>2. Cardinality(ToSet(checks[r].keys)) \in Nat /\ Cardinality(ToSet(checks[r].keys)) <= 2
    BY FS_CardinalityType DEF HasRead
  <2>3. Cardinality(D) \in Nat BY <2>1, FS_CardinalityType
  <2> QED BY <2>1, <2>2, <2>3
<1>2. RowsCounted(RowsThere, gone, D) BY <1>1 DEF RowsCounted, EntriesCount, Commits
<1>3. /\ IsFiniteSet((RowsThere \ gone) \cup D)
      /\ Cardinality((RowsThere \ gone) \cup D)
           = Cardinality(RowsThere) - Cardinality(gone) + Cardinality(D \ (RowsThere \ gone))
      /\ Cardinality((RowsThere \ gone) \cup D) <= MaxEntries + 1
  BY <1>2, CountWritten
<1>4. entries' = Cardinality(RowsThere) - Cardinality(gone) + Cardinality(D \ (RowsThere \ gone))
  BY DEF Commits, EntriesCount
<1> QED BY <1>3, <1>4 DEF EntriesCount

LEMMA CommitKeeps ==
  ASSUME RateLimitsAssumption, RateInvariant, NEW r \in Checkers, CommitCheck(r)
  PROVE  RateInvariant'
<1>0. BucketsFit /\ ChecksFit /\ LocksFit /\ EntriesCount BY DEF RateInvariant
<1>1. HasRead(r) BY <1>0, CommitterHasRead DEF CommitCheck
<1>2. PICK D, gone : Commits(r, D, gone) BY <1>0, <1>1, CommitShaped
<1>3. /\ BucketsFit' /\ gone \subseteq RowsThere /\ RowsThere' = (RowsThere \ gone) \cup D
      /\ \A k \in BucketKeys : k \notin D /\ k \notin gone => buckets'[k] = buckets[k]
  BY <1>0, <1>1, <1>2, CommitBuckets
<1>4. EntriesCount' BY <1>0, <1>1, <1>2, <1>3, CommitEntries
<1>5. ASSUME NEW q \in Checkers, q # r
      PROVE  CheckFits(checks[q], buckets', instant)
  <2>1. checks[q].held \cap ToSet(checks[r].keys) = {} BY <1>0, <1>1, <1>5 DEF LocksFit, HasRead
  <2>2. D \subseteq ToSet(checks[r].keys) /\ gone \subseteq Expired(checks[r].now, RowsLocked(r)) BY <1>2 DEF Commits
  <2>3. \A k \in checks[q].held :
          k \in BucketKeys /\ k \notin Expired(checks[r].now, RowsLocked(r)) => buckets'[k] = buckets[k]
    BY <1>3, <2>1, <2>2
  <2> QED BY <1>0, <1>5, <2>3, ReadersKeepRows
<1>6. checks' = [checks EXCEPT ![r] = NoCheck] /\ instant' = instant BY <1>2 DEF Commits
<1>7. ChecksFit' /\ LocksFit' BY <1>0, <1>5, <1>6, NoCheckShaped, CheckMoves
<1> QED BY <1>3, <1>4, <1>7 DEF RateInvariant

LEMMA RateSteps ==
  ASSUME RateLimitsAssumption, RateInvariant, [RateNext]_rateVars
  PROVE  RateInvariant'
<1>1. CASE UNCHANGED rateVars
  <2> USE <1>1 DEF RateInvariant, rateVars
  <2>1. BucketsFit' /\ EntriesCount' BY BucketsStay
  <2>2. ChecksFit' BY DEF ChecksFit
  <2>3. LocksFit' BY DEF LocksFit
  <2> QED BY <2>1, <2>2, <2>3
<1>2. CASE RateNext
  BY <1>2, BeginKeeps, LockKeeps, ReadKeeps, CommitKeeps, AbortKeeps, MaintainKeeps, TickKeeps DEF RateNext
<1> QED BY <1>1, <1>2

LEMMA RateStarts ==
  ASSUME RateLimitsAssumption, RateInit
  PROVE  RateInvariant
<1>c. Rate \in Nat /\ Patience \in Nat /\ MaxInstant \in Nat /\ MaxEntries \in Nat BY RateConstants
<1>n. NoRow \in BucketRow /\ ~NoRow.there BY DEF NoRow, BucketRow
<1>1. BucketsFit BY <1>c, <1>n DEF RateInit, BucketsFit, BucketFits, KeyRested
<1>2. ChecksFit BY NoCheckShaped DEF RateInit, ChecksFit
<1>3. LocksFit BY NoCheckShaped DEF RateInit, LocksFit
<1>4. RowsThere = {} BY <1>n DEF RateInit, RowsThere
<1>5. EntriesCount BY <1>4, <1>c, FS_EmptySet DEF RateInit, EntriesCount
<1> QED BY <1>1, <1>2, <1>3, <1>5 DEF RateInvariant

LEMMA RateSound ==
  ASSUME RateLimitsAssumption, RateInvariant
  PROVE  LimitsHold
<1> USE DEF RateInvariant
<1>c. /\ Rate \in Nat /\ Patience \in Nat /\ MaxInstant \in Nat /\ MaxEntries \in Nat /\ IdleTtl \in Nat
      /\ \A k \in BucketKeys : Capacity[k] \in Nat
  BY RateConstants
<1>i. instant \in Nat /\ instant \in 0..MaxInstant BY <1>c DEF BucketsFit
<1>1. ASSUME NEW k \in BucketKeys
      PROVE  /\ buckets[k].tokens \in 0..Capacity[k] /\ buckets[k].there \in BOOLEAN
             /\ {buckets[k].refilled, buckets[k].expires} \subseteq 0..MaxInstant + IdleTtl
             /\ IdleRowsFull(k) => spent[k] <= Capacity[k] + Rate * instant
  <2>0. buckets[k] \in BucketRow /\ spent[k] \in Nat /\ BucketFits(k, buckets[k], spent[k], instant) BY DEF BucketsFit
  <2>1. buckets[k].tokens \in Nat /\ buckets[k].refilled \in Nat /\ buckets[k].expires \in Nat
    BY <2>0 DEF BucketRow
  <2>2. buckets[k].there \in BOOLEAN BY <2>0 DEF BucketRow
  <2>3. Rate * instant \in Nat /\ Rate * Patience \in Nat BY <1>c, <1>i, ProductGrows
  <2>4. CASE buckets[k].there
    <3>1. /\ buckets[k].tokens <= Capacity[k] /\ buckets[k].expires = buckets[k].refilled + IdleTtl
          /\ IdleRowsFull(k) => spent[k] + buckets[k].tokens <= Capacity[k] + Rate * buckets[k].refilled
          /\ buckets[k].refilled <= instant
      BY <2>0, <2>4 DEF BucketFits, RowCharged
    <3>2. Rate * buckets[k].refilled <= Rate * instant /\ Rate * buckets[k].refilled \in Nat
      BY <3>1, <2>1, <1>c, <1>i, ProductGrows
    <3>3. IdleRowsFull(k) => spent[k] <= Capacity[k] + Rate * instant BY <3>1, <3>2, <2>0, <2>1, <2>3, <1>c
    <3>4. buckets[k].refilled \in 0..MaxInstant + IdleTtl /\ buckets[k].expires \in 0..MaxInstant + IdleTtl
      BY <3>1, <2>1, <1>c, <1>i
    <3> QED BY <3>1, <3>3, <3>4, <2>1, <2>2, <1>c
  <2>5. CASE ~buckets[k].there
    <3>1. buckets[k] = NoRow /\ KeyRested(k, spent[k], instant) BY <2>0, <2>5 DEF BucketFits
    <3>2. buckets[k].tokens = 0 /\ buckets[k].refilled = 0 /\ buckets[k].expires = 0 BY <3>1 DEF NoRow
    <3>3. IdleRowsFull(k) => spent[k] <= Capacity[k] + Rate * instant BY <3>1, <2>0, <2>3, <1>c DEF KeyRested
    <3> QED BY <3>2, <3>3, <2>2, <1>c
  <2> QED BY <2>4, <2>5
<1>2. \A r \in Checkers : /\ checks[r].step \in {"idle", "locking", "read"}
                          /\ checks[r].held \subseteq ToSet(checks[r].keys)
  <2> TAKE r \in Checkers
  <2>0. checks[r] \in CheckRow /\ CheckFits(checks[r], buckets, instant) BY DEF ChecksFit
  <2>1. checks[r].step \in {"idle", "locking", "read"} BY <2>0 DEF CheckRow
  <2>2. CASE checks[r].step = "idle" BY <2>0, <2>1, <2>2, NoCheckShaped DEF CheckFits
  <2>3. CASE checks[r].step # "idle" BY <2>0, <2>1, <2>3 DEF CheckFits, CheckUnderway
  <2> QED BY <2>2, <2>3
<1>3. entries \in Nat BY FS_CardinalityType DEF EntriesCount
<1>4. spent \in [BucketKeys -> Nat] BY DEF BucketsFit
<1>5. RateTypeOK BY <1>1, <1>2, <1>3, <1>4, <1>i DEF RateTypeOK
<1>6. AdmissionBounded BY <1>1 DEF AdmissionBounded
<1>7. EntriesBounded BY DEF EntriesBounded, EntriesCount, Present, RowsThere
<1> QED BY <1>5, <1>6, <1>7 DEF LimitsHold

\* For any number of requests and keys: however checks of the same bucket wait
\* for each other with old times, and whichever idle rows are deleted under
\* them, a key whose capacity is refilled before its idle row may go (which the
\* configuration does not demand) is granted no more than its capacity and the
\* refill since the start, and for all settings the counter is the number of
\* rows and within its limit but for one
\* (check_many, cleanup_expired_in_transaction).
THEOREM LimitsAreKept == RateSpec => []LimitsHold
<1>1. RateInit => RateInvariant BY RateStarts, RateLimitsAssumption
<1>2. RateInvariant /\ [RateNext]_rateVars => RateInvariant' BY RateSteps, RateLimitsAssumption
<1>3. RateInvariant => LimitsHold BY RateSound, RateLimitsAssumption
<1> QED BY <1>1, <1>2, <1>3, PTL DEF RateSpec

-----------------------------------------------------------------------------
(* The delivery outbox of email.                                             *)

EmailRow ==
  [state : {"none", "queued", "processing", "delivered", "dead"}, attempts : Nat, next : Nat, locked : Nat,
   key : Nat, template : Versions \cup {0}]
TaskRow == [job : Emails, attempt : Nat, key : Nat]

\* A task works on a message, and a job has a template that renders.
MailTyped ==
  /\ imported \subseteq Versions /\ published \in {0} \cup imported
  /\ jobs \in [Emails -> EmailRow] /\ inbox \in [Emails -> Nat]
  /\ mailers \in [Mailers -> TaskRow \cup {NoTask}] /\ keyVersion \in Nat /\ moment \in Nat
  /\ \A m \in Emails : jobs[m].state # "none" => Renders(jobs[m].template)

Working(tasks, m) == {w \in Mailers : tasks[w] # NoTask /\ tasks[w].job = m}

MailInvariant == MailTyped /\ DeliveredWasSent /\ SentPerAttempt

LEMMA WorkingSets ==
  ASSUME EmailOutboxAssumption, NEW tasks, NEW m
  PROVE  IsFiniteSet(Working(tasks, m)) /\ Cardinality(Working(tasks, m)) \in Nat
<1>1. Working(tasks, m) \subseteq Mailers BY DEF Working
<1> QED BY <1>1, FS_Subset, FS_CardinalityType DEF EmailOutboxAssumption

\* What SentPerAttempt counts, by message.
LEMMA SentCounts ==
  ASSUME MailInvariant, NEW m \in Emails
  PROVE  inbox[m] + Cardinality(Working(mailers, m)) <= jobs[m].attempts
BY DEF MailInvariant, SentPerAttempt, Working

\* No job of the outbox changes what it is about: a new one is queued, or the
\* attempts stay as they were.
Rewritten(old, new) ==
  /\ new \in EmailRow /\ new.attempts = old.attempts
  /\ new.state # "none" => Renders(new.template)

LEMMA MailStarts == ASSUME EmailOutboxAssumption, EmailInit PROVE MailInvariant
<1>1. \A m \in Emails : jobs[m] = NoEmail /\ inbox[m] = 0 BY DEF EmailInit
<1>2. NoEmail \in EmailRow /\ NoEmail.state = "none" /\ NoEmail.attempts = 0 BY DEF NoEmail, EmailRow
<1>3. MailTyped BY <1>1, <1>2 DEF EmailInit, MailTyped
<1>4. DeliveredWasSent BY <1>1, <1>2 DEF DeliveredWasSent
<1>5. SentPerAttempt
  <2>1. \A m : {w \in Mailers : mailers[w] # NoTask /\ mailers[w].job = m} = {} BY DEF EmailInit
  <2>2. Cardinality({}) = 0 /\ 0 + 0 <= 0 BY FS_EmptySet
  <2>3. \A m \in Emails : inbox[m] = 0 /\ jobs[m].attempts = 0 BY <1>1, <1>2
  <2> QED BY <2>1, <2>2, <2>3 DEF SentPerAttempt
<1> QED BY <1>3, <1>4, <1>5 DEF MailInvariant

\* Templates, time and a job that is queued for the first time.
LEMMA QuietMail ==
  ASSUME EmailOutboxAssumption, MailInvariant, UNCHANGED <<mailers, inbox>>, keyVersion' = keyVersion,
         imported' \subseteq Versions, published' \in {0} \cup imported', moment' \in Nat,
         jobs' \in [Emails -> EmailRow],
         \A m \in Emails : jobs'[m] = jobs[m] \/ (Rewritten(jobs[m], jobs'[m]) /\ jobs'[m].state # "delivered")
  PROVE  MailInvariant'
<1>1. MailTyped' BY DEF MailInvariant, MailTyped, Rewritten, Renders
<1>2. DeliveredWasSent' BY DEF MailInvariant, DeliveredWasSent
<1>3. SentPerAttempt' BY DEF MailInvariant, SentPerAttempt, Rewritten
<1> QED BY <1>1, <1>2, <1>3 DEF MailInvariant

\* claim.
LEMMA ClaimJobKeeps ==
  ASSUME EmailOutboxAssumption, MailInvariant, NEW w \in Mailers, NEW m \in Emails, ClaimJob(w, m)
  PROVE  MailInvariant'
<1> DEFINE task == [job |-> m, attempt |-> jobs[m].attempts + 1, key |-> jobs[m].key]
           row == [jobs[m] EXCEPT !.state = "processing", !.locked = moment, !.attempts = @ + 1]
<1>1. /\ mailers[w] = NoTask /\ jobs' = [jobs EXCEPT ![m] = row] /\ mailers' = [mailers EXCEPT ![w] = task]
      /\ UNCHANGED <<imported, published, inbox, keyVersion, moment>> /\ jobs[m].state \in {"queued", "processing"}
  BY DEF ClaimJob, ClaimableJob
<1>2. jobs[m] \in EmailRow /\ moment \in Nat /\ jobs[m].attempts \in Nat /\ jobs[m].key \in Nat /\ Renders(jobs[m].template)
  BY <1>1 DEF MailInvariant, MailTyped, EmailRow
<1>3. row \in EmailRow /\ row.attempts = jobs[m].attempts + 1 /\ row.template = jobs[m].template /\ row.state = "processing"
  <2>1. PICK n \in Nat : n = jobs[m].attempts + 1 BY <1>2
  <2>2. row = [jobs[m] EXCEPT !.state = "processing", !.locked = moment, !.attempts = n] BY <2>1
  <2> QED BY <1>2, <2>1, <2>2 DEF EmailRow
<1>4. task \in TaskRow /\ task.job = m /\ task # NoTask
  <2>1. task.attempt = jobs[m].attempts + 1 /\ NoTask.attempt = 0 BY DEF NoTask
  <2>2. task.attempt # 0 BY <2>1, <1>2
  <2> QED BY <1>2, <2>1, <2>2 DEF TaskRow
<1> HIDE DEF task, row
<1>5. \A k \in Emails : jobs'[k] = IF k = m THEN row ELSE jobs[k] BY <1>1 DEF MailInvariant, MailTyped
<1>6. \A v \in Mailers : mailers'[v] = IF v = w THEN task ELSE mailers[v] BY <1>1 DEF MailInvariant, MailTyped
<1>7. MailTyped'
  <2>1. jobs' \in [Emails -> EmailRow] /\ mailers' \in [Mailers -> TaskRow \cup {NoTask}]
    BY <1>1, <1>3, <1>4 DEF MailInvariant, MailTyped
  <2>2. \A k \in Emails : jobs'[k].state # "none" => Renders(jobs'[k].template) BY <1>2, <1>3, <1>5 DEF MailInvariant, MailTyped
  <2> QED BY <1>1, <2>1, <2>2 DEF MailInvariant, MailTyped, Renders
<1>8. DeliveredWasSent' BY <1>1, <1>3, <1>5 DEF MailInvariant, DeliveredWasSent
<1>9. SentPerAttempt'
  <2> SUFFICES ASSUME NEW k \in Emails PROVE inbox'[k] + Cardinality(Working(mailers', k)) <= jobs'[k].attempts
    BY DEF SentPerAttempt, Working
  <2>1. PICK i, n, a : i = inbox[k] /\ n = Cardinality(Working(mailers, k)) /\ a = jobs[k].attempts OBVIOUS
  <2>2. i \in Nat /\ n \in Nat /\ a \in Nat /\ i + n <= a
    BY <2>1, WorkingSets, SentCounts DEF MailInvariant, MailTyped, EmailRow
  <2>3. CASE k = m
    <3>1. Working(mailers', k) = Working(mailers, k) \cup {w} /\ w \notin Working(mailers, k)
      BY <1>1, <1>4, <1>6, <2>3 DEF Working
    <3>2. Cardinality(Working(mailers', k)) = n + 1 BY <3>1, <2>1, WorkingSets, FS_AddElement
    <3>3. jobs'[k].attempts = a + 1 BY <1>3, <1>5, <2>1, <2>3
    <3> QED BY <1>1, <2>1, <2>2, <3>2, <3>3
  <2>4. CASE k # m
    <3>1. Working(mailers', k) = Working(mailers, k) BY <1>1, <1>4, <1>6, <2>4 DEF Working
    <3> QED BY <1>1, <1>5, <2>1, <2>2, <2>4, <3>1
  <2> QED BY <2>3, <2>4
<1> QED BY <1>7, <1>8, <1>9 DEF MailInvariant

\* A task ends, with or without the provider having went its message.
LEMMA TaskEnds ==
  ASSUME EmailOutboxAssumption, MailInvariant, NEW w \in Mailers, mailers[w] # NoTask,
         mailers' = [mailers EXCEPT ![w] = NoTask], inbox' = inbox \/ inbox' = Took(mailers[w].job),
         UNCHANGED <<imported, published, keyVersion, moment>>,
         jobs' = jobs \/ \E new : /\ Rewritten(jobs[mailers[w].job], new)
                                  /\ new.state = "delivered" => inbox' = Took(mailers[w].job)
                                  /\ jobs' = [jobs EXCEPT ![mailers[w].job] = new]
  PROVE  MailInvariant'
<1>1. PICK m \in Emails : m = mailers[w].job BY DEF MailInvariant, MailTyped, TaskRow
<1>2. inbox' \in [Emails -> Nat] /\ \A k \in Emails : inbox'[k] = inbox[k] \/ (k = m /\ inbox'[k] = inbox[k] + 1)
  BY <1>1 DEF Took, MailInvariant, MailTyped
<1>3. /\ jobs' \in [Emails -> EmailRow]
      /\ \A k \in Emails : jobs'[k] = jobs[k] \/ (k = m /\ Rewritten(jobs[k], jobs'[k])
                                                  /\ (jobs'[k].state = "delivered" => inbox' = Took(m)))
  BY <1>1 DEF Rewritten, MailInvariant, MailTyped
<1>4. \A v \in Mailers : mailers'[v] = IF v = w THEN NoTask ELSE mailers[v] BY DEF MailInvariant, MailTyped
<1>5. MailTyped'
  <2>1. mailers' \in [Mailers -> TaskRow \cup {NoTask}] BY DEF MailInvariant, MailTyped
  <2>2. \A k \in Emails : jobs'[k].state # "none" => Renders(jobs'[k].template)
    BY <1>3 DEF Rewritten, MailInvariant, MailTyped
  <2> QED BY <1>2, <1>3, <2>1, <2>2 DEF MailInvariant, MailTyped, Renders
<1>6. DeliveredWasSent'
  <2> SUFFICES ASSUME NEW k \in Emails, jobs'[k].state = "delivered" PROVE inbox'[k] > 0 BY DEF DeliveredWasSent
  <2>1. inbox[k] \in Nat /\ inbox'[k] \in Nat BY <1>2 DEF MailInvariant, MailTyped
  <2>2. CASE jobs'[k] = jobs[k]
    <3>1. inbox[k] > 0 BY <2>2 DEF MailInvariant, DeliveredWasSent
    <3> QED BY <3>1, <2>1, <1>2
  <2>3. CASE jobs'[k] # jobs[k]
    <3>1. k = m /\ inbox' = Took(m) BY <2>3, <1>3
    <3>2. inbox'[k] = inbox[k] + 1 BY <3>1 DEF Took, MailInvariant, MailTyped
    <3> QED BY <3>2, <2>1
  <2> QED BY <2>2, <2>3
<1>7. SentPerAttempt'
  <2> SUFFICES ASSUME NEW k \in Emails PROVE inbox'[k] + Cardinality(Working(mailers', k)) <= jobs'[k].attempts
    BY DEF SentPerAttempt, Working
  <2>1. PICK i, n, a : i = inbox[k] /\ n = Cardinality(Working(mailers, k)) /\ a = jobs[k].attempts OBVIOUS
  <2>2. i \in Nat /\ n \in Nat /\ a \in Nat /\ i + n <= a
    BY <2>1, WorkingSets, SentCounts DEF MailInvariant, MailTyped, EmailRow
  <2>3. jobs'[k].attempts = a BY <1>3, <2>1 DEF Rewritten
  <2>4. CASE k = m
    <3>1. Working(mailers', k) = Working(mailers, k) \ {w} /\ w \in Working(mailers, k) BY <1>1, <1>4, <2>4 DEF Working
    <3>2. Cardinality(Working(mailers', k)) = n - 1
      <4>1. PICK S : S = Working(mailers, k) /\ IsFiniteSet(S) BY WorkingSets
      <4>2. Cardinality(S \ {w}) = Cardinality(S) - 1 BY <3>1, <4>1, FS_RemoveElement
      <4> QED BY <3>1, <2>1, <4>1, <4>2
    <3>3. inbox'[k] = i \/ inbox'[k] = i + 1 BY <1>2, <2>1
    <3> QED BY <2>2, <2>3, <3>2, <3>3
  <2>5. CASE k # m
    <3>1. Working(mailers', k) = Working(mailers, k) BY <1>1, <1>4, <2>5 DEF Working
    <3>2. inbox'[k] = i BY <1>2, <2>1, <2>5
    <3> QED BY <2>1, <2>2, <2>3, <3>1, <3>2
  <2> QED BY <2>4, <2>5
<1> QED BY <1>5, <1>6, <1>7 DEF MailInvariant

\* fail writes no other message's job and delivers nothing.
LEMMA FailedIs ==
  ASSUME EmailOutboxAssumption, MailInvariant, NEW w \in Mailers, mailers[w] # NoTask, NEW permanent,
         Outcome(w, Failed(w, permanent))
  PROVE  /\ mailers' = [mailers EXCEPT ![w] = NoTask]
         /\ jobs' = jobs \/ \E new : /\ Rewritten(jobs[mailers[w].job], new) /\ new.state # "delivered"
                                     /\ jobs' = [jobs EXCEPT ![mailers[w].job] = new]
<1>1. PICK m \in Emails : m = mailers[w].job BY DEF MailInvariant, MailTyped, TaskRow
<1>2. jobs[m] \in EmailRow /\ moment \in Nat /\ (jobs[m].state # "none" => Renders(jobs[m].template))
  BY DEF MailInvariant, MailTyped, Renders
<1>3. PICK s \in {"dead", "queued"} : Failed(w, permanent) = [jobs[m] EXCEPT !.state = s, !.locked = 0, !.next = moment + 1]
  BY <1>1 DEF Failed
<1>4. PICK new : new = Failed(w, permanent) OBVIOUS
<1>5. new \in EmailRow /\ new.attempts = jobs[m].attempts /\ new.state = s /\ new.template = jobs[m].template
  <2>1. PICK t \in Nat : t = moment + 1 BY <1>2
  <2>2. new = [jobs[m] EXCEPT !.state = s, !.locked = 0, !.next = t] BY <1>3, <1>4, <2>1
  <2> QED BY <1>2, <2>2 DEF EmailRow
<1>6. mailers' = [mailers EXCEPT ![w] = NoTask] /\ jobs' = IF jobs[m].state = "processing" THEN [jobs EXCEPT ![m] = new] ELSE jobs
  BY <1>1, <1>4 DEF Outcome
<1>7. CASE jobs[m].state = "processing" BY <1>1, <1>2, <1>5, <1>6, <1>7 DEF Rewritten
<1> QED BY <1>6, <1>7

LEMMA SendKeeps ==
  ASSUME EmailOutboxAssumption, MailInvariant, NEW w \in Mailers, SendSucceeds(w)
  PROVE  MailInvariant'
<1>1. mailers[w] # NoTask /\ inbox' = Took(mailers[w].job) /\ UNCHANGED <<imported, published, keyVersion, moment>>
  BY DEF SendSucceeds, Readable
<1>2. PICK m \in Emails : m = mailers[w].job BY <1>1 DEF MailInvariant, MailTyped, TaskRow
<1>3. jobs[m] \in EmailRow /\ (jobs[m].state # "none" => Renders(jobs[m].template)) BY DEF MailInvariant, MailTyped
<1>4. PICK new : new = [jobs[m] EXCEPT !.state = "delivered", !.locked = 0] OBVIOUS
<1>5. new \in EmailRow /\ new.attempts = jobs[m].attempts /\ new.template = jobs[m].template BY <1>3, <1>4 DEF EmailRow
<1>6. mailers' = [mailers EXCEPT ![w] = NoTask] /\ jobs' = IF jobs[m].state = "processing" THEN [jobs EXCEPT ![m] = new] ELSE jobs
  BY <1>2, <1>4 DEF SendSucceeds, Outcome
<1>7. CASE jobs[m].state = "processing"
  <2>1. Rewritten(jobs[m], new) BY <1>3, <1>5, <1>7 DEF Rewritten
  <2> QED BY <1>1, <1>2, <1>6, <1>7, <2>1, TaskEnds
<1>8. CASE jobs[m].state # "processing" BY <1>1, <1>6, <1>8, TaskEnds
<1> QED BY <1>7, <1>8

LEMMA SendFailsKeeps ==
  ASSUME EmailOutboxAssumption, MailInvariant, NEW w \in Mailers, NEW went \in BOOLEAN,
         SendUnavailable(w, went) \/ SendRejected(w, went) \/ DecryptFails(w) \/ MailerStops(w, went)
  PROVE  MailInvariant'
<1>1. /\ mailers[w] # NoTask /\ UNCHANGED <<imported, published, keyVersion, moment>>
      /\ inbox' = inbox \/ inbox' = Took(mailers[w].job)
  BY DEF SendUnavailable, SendRejected, DecryptFails, MailerStops, Readable
<1>2. CASE MailerStops(w, went) BY <1>1, <1>2, TaskEnds DEF MailerStops
<1>3. CASE ~MailerStops(w, went)
  <2>1. \E permanent : Outcome(w, Failed(w, permanent)) BY <1>3 DEF SendUnavailable, SendRejected, DecryptFails
  <2>2. /\ mailers' = [mailers EXCEPT ![w] = NoTask]
        /\ jobs' = jobs \/ \E new : /\ Rewritten(jobs[mailers[w].job], new) /\ new.state # "delivered"
                                    /\ jobs' = [jobs EXCEPT ![mailers[w].job] = new]
    BY <1>1, <2>1, FailedIs
  <2> QED BY <1>1, <2>2, TaskEnds
<1> QED BY <1>2, <1>3

LEMMA RotateKeyKeeps ==
  ASSUME EmailOutboxAssumption, MailInvariant, RotateKey
  PROVE  MailInvariant'
<1>1. mailers' = [w \in Mailers |-> NoTask] /\ keyVersion' = 2 /\ UNCHANGED <<imported, published, jobs, inbox, moment>>
  BY DEF RotateKey
<1>2. MailTyped' BY <1>1 DEF MailInvariant, MailTyped, Renders
<1>3. SentPerAttempt'
  <2> SUFFICES ASSUME NEW k \in Emails PROVE inbox'[k] + Cardinality(Working(mailers', k)) <= jobs'[k].attempts
    BY DEF SentPerAttempt, Working
  <2>1. PICK i, n, a : i = inbox[k] /\ n = Cardinality(Working(mailers, k)) /\ a = jobs[k].attempts OBVIOUS
  <2>2. i \in Nat /\ n \in Nat /\ a \in Nat /\ i + n <= a
    BY <2>1, WorkingSets, SentCounts DEF MailInvariant, MailTyped, EmailRow
  <2>3. Working(mailers', k) = {} BY <1>1 DEF Working
  <2>4. Cardinality(Working(mailers', k)) = 0 BY <2>3, FS_EmptySet
  <2>5. inbox'[k] = i /\ jobs'[k].attempts = a BY <1>1, <2>1
  <2> QED BY <2>2, <2>4, <2>5
<1>4. DeliveredWasSent' BY <1>1 DEF MailInvariant, DeliveredWasSent
<1> QED BY <1>2, <1>3, <1>4 DEF MailInvariant

LEMMA MailSteps ==
  ASSUME EmailOutboxAssumption, MailInvariant, [EmailNext]_emailVars
  PROVE  MailInvariant'
<1>0. /\ imported \subseteq Versions /\ published \in {0} \cup imported /\ moment \in Nat /\ jobs \in [Emails -> EmailRow]
      /\ keyVersion \in Nat
  BY DEF MailInvariant, MailTyped
<1>1. CASE UNCHANGED emailVars BY <1>0, <1>1, QuietMail DEF emailVars
<1>2. ASSUME NEW v \in Versions, ImportArtifact(v) \/ Publish(v) PROVE MailInvariant'
  <2>1. /\ imported' \subseteq Versions /\ published' \in {0} \cup imported'
        /\ UNCHANGED <<jobs, mailers, inbox, keyVersion, moment>>
    BY <1>0, <1>2 DEF ImportArtifact, Publish
  <2> QED BY <1>0, <2>1, QuietMail
<1>3. ASSUME NEW m \in Emails, EnqueueEmail(m) PROVE MailInvariant'
  <2>1. PICK new : new = [NoEmail EXCEPT !.state = "queued", !.next = moment, !.key = keyVersion, !.template = published] OBVIOUS
  <2>2. /\ Renders(published) /\ jobs[m] = NoEmail /\ jobs' = [jobs EXCEPT ![m] = new]
        /\ UNCHANGED <<imported, published, mailers, inbox, keyVersion, moment>>
    BY <1>3, <2>1 DEF EnqueueEmail
  <2>3. /\ new = [state |-> "queued", attempts |-> 0, next |-> moment, locked |-> 0, key |-> keyVersion, template |-> published]
        /\ NoEmail.attempts = 0
    BY <2>1 DEF NoEmail
  <2>4. new \in EmailRow BY <1>0, <2>3 DEF EmailRow
  <2>5. Rewritten(jobs[m], new) /\ new.state # "delivered" BY <2>2, <2>3, <2>4 DEF Rewritten
  <2>6. \A k \in Emails : jobs'[k] = IF k = m THEN new ELSE jobs[k] BY <1>0, <2>2
  <2>7. jobs' \in [Emails -> EmailRow] BY <1>0, <2>2, <2>4
  <2> QED BY <1>0, <2>2, <2>5, <2>6, <2>7, QuietMail
<1>4. ASSUME NEW w \in Mailers, MailerStep(w) PROVE MailInvariant'
  <2>1. CASE \E m \in Emails : ClaimJob(w, m) BY <2>1, ClaimJobKeeps
  <2>2. CASE SendSucceeds(w) BY <2>2, SendKeeps
  <2>3. CASE DecryptFails(w) BY <2>3, SendFailsKeeps
  <2> QED BY <1>4, <2>1, <2>2, <2>3 DEF MailerStep
<1>5. ASSUME NEW w \in Mailers, NEW went \in BOOLEAN,
             SendUnavailable(w, went) \/ SendRejected(w, went) \/ MailerStops(w, went)
      PROVE  MailInvariant'
  BY <1>5, SendFailsKeeps
<1>6. CASE RotateKey BY <1>6, RotateKeyKeeps
<1>7. CASE NextMoment BY <1>0, <1>7, QuietMail DEF NextMoment
<1> QED BY <1>1, <1>2, <1>3, <1>4, <1>5, <1>6, <1>7 DEF EmailNext

\* For any number of messages and delivery tasks, however claims lapse, tasks
\* stop, answers are lost and keys are rotated: a message closed as delivered
\* has gone out, and no message goes out more often than attempts were counted
\* (claim, deliver_one, fail).
THEOREM MailIsAccounted == EmailSpec => []MailAccounted
<1>1. EmailInit => MailInvariant BY EmailOutboxAssumption, MailStarts
<1>2. MailInvariant /\ [EmailNext]_emailVars => MailInvariant' BY EmailOutboxAssumption, MailSteps
<1>3. MailInvariant => MailAccounted
  <2> SUFFICES ASSUME MailInvariant PROVE MailAccounted OBVIOUS
  <2>1. EmailTypeOK BY DEF MailInvariant, MailTyped, EmailTypeOK, EmailRow, TaskRow, NoTask
  <2> QED BY <2>1 DEF MailInvariant, MailAccounted
<1> QED BY <1>1, <1>2, <1>3, PTL DEF EmailSpec
=============================================================================
