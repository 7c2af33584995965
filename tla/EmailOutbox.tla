----------------------------- MODULE EmailOutbox -----------------------------
(* Email templates and the delivery outbox. A message is rendered from the   *)
(* published template and queued encrypted, once for its idempotency key;    *)
(* every API process runs a delivery task that claims a job, sends it and    *)
(* records what came of it, without a token for the claim: a task that was   *)
(* slower than the lock writes its result over the next one's claim.         *)
EXTENDS Naturals, FiniteSets

CONSTANTS Emails,       \* messages, by idempotency key
          Mailers,      \* delivery tasks
          Versions,     \* template versions that pass validation
          Fitting,      \* those with just the variables the API supplies
          MaxAttempts,  \* max_attempts of a job
          LockTime,     \* five minutes
          MaxMoment, MaxMishaps  \* bounds: clock; crashes, rotations, failures of the provider

ASSUME EmailOutboxAssumption ==
  /\ IsFiniteSet(Mailers) /\ Versions \subseteq Nat \ {0} /\ Fitting \subseteq Versions
  /\ {MaxAttempts, LockTime, MaxMoment, MaxMishaps} \subseteq Nat /\ MaxAttempts > 0

VARIABLES
  imported,  \* email_template_versions
  published, \* the version with published_at, 0 for the default template
  jobs,      \* email_delivery_jobs
  mailers,   \* the claim each task works on
  inbox,     \* how often the provider took a message, external
  keyVersion,\* of the message cipher
  moment, mishaps

emailVars == <<imported, published, jobs, mailers, inbox, keyVersion, moment, mishaps>>

NoEmail == [state |-> "none", attempts |-> 0, next |-> 0, locked |-> 0, key |-> 0, template |-> 0]
NoTask == [job |-> 0, attempt |-> 0, key |-> 0]

EmailInit ==
  /\ imported = {} /\ published = 0
  /\ jobs = [m \in Emails |-> NoEmail] /\ mailers = [w \in Mailers |-> NoTask]
  /\ inbox = [m \in Emails |-> 0] /\ keyVersion = 1 /\ moment = 0 /\ mishaps = 0

\* import_precompiled_artifact: a version is imported once.
ImportArtifact(v) ==
  /\ v \notin imported /\ imported' = imported \cup {v}
  /\ UNCHANGED <<published, jobs, mailers, inbox, keyVersion, moment, mishaps>>

\* publish_template: the old version is withdrawn in the same transaction; of
\* two at once the index on published versions refuses one.
Publish(v) ==
  /\ v \in imported /\ published' = v
  /\ UNCHANGED <<imported, jobs, mailers, inbox, keyVersion, moment, mishaps>>

\* default_template, validate_variable_set: every variable the template
\* allows has to be supplied, and no other.
Renders(v) == v = 0 \/ v \in Fitting

\* enqueue and enqueue_organization_invitation; a key that is known keeps
\* its job.
EnqueueEmail(m) ==
  /\ Renders(published)
  /\ jobs[m] = NoEmail
  /\ jobs' = [jobs EXCEPT ![m] = [NoEmail EXCEPT !.state = "queued", !.next = moment,
                                  !.key = keyVersion, !.template = published]]
  /\ UNCHANGED <<imported, published, mailers, inbox, keyVersion, moment, mishaps>>

\* The last moment stands for all after it.
Since(t, span) == moment >= t + span \/ moment = MaxMoment

\* Mutant: a job that is being processed is never claimed again.
ClaimableQueued(m) == jobs[m].state = "queued" /\ Since(jobs[m].next, 0)

\* The jobs claim may take.
ClaimableJob(m) ==
  \/ jobs[m].state = "queued" /\ Since(jobs[m].next, 0)
  \/ jobs[m].state = "processing" /\ Since(jobs[m].locked, LockTime)

\* Mutant: a claim taken over from another task counts as the same attempt.
ClaimUncounted(w, m) ==
  /\ mailers[w] = NoTask /\ ClaimableJob(m)
  /\ jobs' = [jobs EXCEPT ![m].state = "processing", ![m].locked = moment,
                          ![m].attempts = IF jobs[m].state = "queued" THEN @ + 1 ELSE @]
  /\ mailers' = [mailers EXCEPT ![w] = [job |-> m, attempt |-> jobs[m].attempts + 1, key |-> jobs[m].key]]
  /\ UNCHANGED <<imported, published, inbox, keyVersion, moment, mishaps>>

\* claim: the attempt is counted before anything is sent.
ClaimJob(w, m) ==
  /\ mailers[w] = NoTask /\ ClaimableJob(m)
  /\ jobs' = [jobs EXCEPT ![m].state = "processing", ![m].locked = moment, ![m].attempts = @ + 1]
  /\ mailers' = [mailers EXCEPT ![w] = [job |-> m, attempt |-> jobs[m].attempts + 1, key |-> jobs[m].key]]
  /\ UNCHANGED <<imported, published, inbox, keyVersion, moment, mishaps>>

\* The outcome is written to a job that is still being processed, whoever
\* processes it.
Outcome(w, new) ==
  LET m == mailers[w].job IN
  /\ jobs' = IF jobs[m].state = "processing" THEN [jobs EXCEPT ![m] = new] ELSE jobs
  /\ mailers' = [mailers EXCEPT ![w] = NoTask]

\* fail: a permanent error or the last attempt ends the job.
Failed(w, permanent) ==
  LET m == mailers[w].job
      dead == permanent \/ mailers[w].attempt >= MaxAttempts
  IN [jobs[m] EXCEPT !.state = IF dead THEN "dead" ELSE "queued", !.locked = 0, !.next = moment + 1]

Readable(w) == mailers[w] # NoTask /\ mailers[w].key = keyVersion
Took(m) == [inbox EXCEPT ![m] = @ + 1]

\* The provider takes the message.
SendSucceeds(w) ==
  /\ Readable(w) /\ inbox' = Took(mailers[w].job)
  /\ Outcome(w, [jobs[mailers[w].job] EXCEPT !.state = "delivered", !.locked = 0])
  /\ UNCHANGED <<imported, published, keyVersion, moment, mishaps>>

\* No answer, or a limit: to be tried again, even if the message went out.
SendUnavailable(w, taken) ==
  /\ Readable(w) /\ mishaps < MaxMishaps /\ mishaps' = mishaps + 1
  /\ inbox' = IF taken THEN Took(mailers[w].job) ELSE inbox
  /\ Outcome(w, Failed(w, FALSE))
  /\ UNCHANGED <<imported, published, keyVersion, moment>>

\* A refusal, a server error, or an answer that cannot be read: for good,
\* though in the last case the message went out.
SendRejected(w, taken) ==
  /\ Readable(w) /\ mishaps < MaxMishaps /\ mishaps' = mishaps + 1
  /\ inbox' = IF taken THEN Took(mailers[w].job) ELSE inbox
  /\ Outcome(w, Failed(w, TRUE))
  /\ UNCHANGED <<imported, published, keyVersion, moment>>

\* decrypt fails: the message was encrypted with another key.
DecryptFails(w) ==
  /\ mailers[w] # NoTask /\ mailers[w].key # keyVersion
  /\ Outcome(w, Failed(w, TRUE))
  /\ UNCHANGED <<imported, published, inbox, keyVersion, moment, mishaps>>

\* The process ends, before or after the provider took the message.
MailerStops(w, taken) ==
  /\ mailers[w] # NoTask /\ mishaps < MaxMishaps /\ mishaps' = mishaps + 1
  /\ taken => Readable(w)
  /\ inbox' = IF taken THEN Took(mailers[w].job) ELSE inbox
  /\ mailers' = [mailers EXCEPT ![w] = NoTask]
  /\ UNCHANGED <<imported, published, jobs, keyVersion, moment>>

\* The operator changes the encryption key and restarts every process.
RotateKey ==
  /\ keyVersion = 1 /\ keyVersion' = 2 /\ mishaps < MaxMishaps /\ mishaps' = mishaps + 1
  /\ mailers' = [w \in Mailers |-> NoTask]
  /\ UNCHANGED <<imported, published, jobs, inbox, moment>>

NextMoment ==
  /\ moment < MaxMoment /\ moment' = moment + 1
  /\ UNCHANGED <<imported, published, jobs, mailers, inbox, keyVersion, mishaps>>

MailerStep(w) == (\E m \in Emails : ClaimJob(w, m)) \/ SendSucceeds(w) \/ DecryptFails(w)

EmailNext ==
  \/ \E v \in Versions : ImportArtifact(v) \/ Publish(v)
  \/ \E m \in Emails : EnqueueEmail(m)
  \/ \E w \in Mailers : MailerStep(w)
  \/ \E w \in Mailers, taken \in BOOLEAN : SendUnavailable(w, taken) \/ SendRejected(w, taken) \/ MailerStops(w, taken)
  \/ RotateKey \/ NextMoment

\* Every task polls for ever and a send has a timeout; time passes.
EmailSpec == EmailInit /\ [][EmailNext]_emailVars
             /\ WF_emailVars(NextMoment) /\ \A w \in Mailers : WF_emailVars(MailerStep(w))

EmailTypeOK ==
  /\ imported \subseteq Versions /\ published \in {0} \cup imported
  /\ \A m \in Emails : jobs[m].state \in {"none", "queued", "processing", "delivered", "dead"}
                       /\ (jobs[m].state # "none" => Renders(jobs[m].template))
  /\ \A w \in Mailers : mailers[w].job \in {0} \cup Emails

\* A message whose job is closed as delivered has gone out, also when the
\* delivery was recorded by a task whose claim had passed to another.
DeliveredWasSent == \A m \in Emails : jobs[m].state = "delivered" => inbox[m] > 0

\* A message goes out at most once for an attempt that was counted, although
\* tasks lose their claims, stop after the provider took it, or send at once.
SentPerAttempt ==
  \A m \in Emails :
    inbox[m] + Cardinality({w \in Mailers : mailers[w] # NoTask /\ mailers[w].job = m}) <= jobs[m].attempts

\* Every sending of a message is accounted for, and none is without a job that
\* renders (enqueue, claim, deliver_one).
MailAccounted == EmailTypeOK /\ DeliveredWasSent /\ SentPerAttempt

\* A queued message is delivered or given up in the end: neither a task that
\* stopped with it, nor one that wrote its result over another's claim, leaves
\* it behind.
EmailSettles ==
  \A m \in Emails : jobs[m].state = "queued" ~> jobs[m].state \in {"delivered", "dead"}

\* Counterexample property: a message that is given up has not gone out.
DeadWasNotSent == \A m \in Emails : jobs[m].state = "dead" => inbox[m] = 0

\* Counterexample property: a job is attempted max_attempts times at most.
AttemptsBounded == \A m \in Emails : jobs[m].attempts <= MaxAttempts
=============================================================================
