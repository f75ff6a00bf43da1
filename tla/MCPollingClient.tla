---- MODULE MCPollingClient ----
EXTENDS PollingClient

MCKeys == {"state", "result"} \X Jobs
MCValues == {"RUNNING", "COMPLETE", "FAILED"} \cup Jobs
MCTtls == {None, ResultTtl}
====
