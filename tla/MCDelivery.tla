------------------------------ MODULE MCDelivery ------------------------------
(* What has to come to an end although calls are lost, time out and are       *)
(* retried, each part in a lane of its own: a behaviour chooses one lane at   *)
(* the start and only that part runs.                                         *)
EXTENDS UsageReporting, EmailOutbox, RestoreOperations

CONSTANTS Lanes, b1

VARIABLE lane

deliveryVars == <<lane, reportVars, emailVars, operationVars>>

OneBackup == [k \in RestoreKeys |-> b1]

\* Of the writes and the levels of a period's hours a behaviour records two.
FewRecords ==
  Cardinality({h \in DOMAIN writes : writes'[h] > 0}) + Cardinality({h \in DOMAIN levels : levels'[h] > 0}) <= 2

MCInit ==
  /\ lane \in Lanes
  /\ ReportInit /\ EmailInit /\ Init

MCNext ==
  /\ lane' = lane
  /\ \/ lane = "reports" /\ ReportNext /\ FewRecords /\ UNCHANGED <<emailVars, operationVars>>
     \/ lane = "mail" /\ EmailNext /\ UNCHANGED <<reportVars, operationVars>>
     \/ lane = "restore" /\ Next /\ UNCHANGED <<reportVars, emailVars>>

\* The fairness of each part's specification, in its lane.
Fairness ==
  /\ WF_reportVars(lane = "reports" /\ NextHour)
  /\ \A r \in Reporters : WF_reportVars(lane = "reports" /\ ReporterStep(r))
  /\ WF_emailVars(lane = "mail" /\ NextMoment)
  /\ \A w \in Mailers : WF_emailVars(lane = "mail" /\ MailerStep(w))
  /\ \A a \in Slots :
       /\ WF_operationVars(lane = "restore" /\ (Dispatch(a) \/ GiveUp(a) \/ LoseClaim(a) \/ ExecutionError(a)))
       /\ WF_operationVars(lane = "restore" /\ Worker(a))
       /\ WF_operationVars(lane = "restore" /\ OrphanEnds(a))
  /\ \A k \in Keys : WF_operationVars(lane = "restore" /\ rows[k].owner = Nobody /\ LeaseExpires(k))
  /\ \A k \in RestoreKeys : SF_operationVars(lane = "restore" /\ \E a \in Slots : Admit(a, k))
  /\ <>[][~Disturbed]_operationVars

MCSpec == MCInit /\ [][MCNext]_deliveryVars /\ Fairness

\* A period is finalized in the end, unless a late snapshot lowered a total
\* that was reported (run_cycle, process_period, finalize_period).
ReportingCloses == lane = "reports" => PeriodCloses

===============================================================================
