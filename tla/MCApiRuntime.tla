-------------------------- MODULE MCApiRuntime --------------------------
EXTENDS ApiRuntime
CONSTANTS r1, r2, r3, s1
MCRequests == {r1, s1}
MCStreams == {s1}
MCAbortable == {r1}
\* Answers of several one-shots in one batch.
MCAnswers == {r1, r2, r3}
=========================================================================
