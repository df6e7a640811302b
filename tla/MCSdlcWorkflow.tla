--------------------------- MODULE MCSdlcWorkflow ---------------------------
(* Small simulations: every combination of the parameters in a set of         *)
(* settings, with times in whole units so that events coincide.               *)
EXTENDS SdlcWorkflow

CONSTANTS t1, t2, s1, s2, s3, d1, d2, q1, c1, c2

OneTask == <<t1>>
TwoTasks == <<t1, t2>>
NoRequests == <<>>
ThreeRequests == <<s1, s2, s3>>

OneEach == [development |-> <<d1>>, qa_testing |-> <<q1>>, deployment |-> <<c1>>]
OneTester == [OneEach EXCEPT !["development"] = <<d1, d2>>, !["deployment"] = <<c1, c2>>]

\* Work for support takes no time, as long as it takes the next request to come,
\* or longer.
Combinations(cadence, testing, deployment, failing) ==
    [points : [DevTasks -> 0..2], support : {0, 2}, interval : 1..2, testing : testing,
     failure_cost : {1}, deployment : deployment, cadence : {cadence}, failing : {failing}]

\* Continuous deployment whose tests fail, where tests and deployments take time
\* or neither does, and windows where deployments fail too.
SupportSettings ==
    Combinations(0, {1}, {2}, {"qa_testing"}) \cup Combinations(0, {0}, {0}, {"qa_testing"})
        \cup Combinations(1, {1}, {2}, {"qa_testing", "deployment"})

\* Continuous deployment that fails.
DeploymentSettings == Combinations(0, 0..1, {0, 2}, {"deployment"})
=============================================================================
