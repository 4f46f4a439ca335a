----------------------------- MODULE MCEnrolment -----------------------------
(* A finite instance of Enrolment: two edges that were installed with the    *)
(* same token, the first of which is also connected on its page.             *)
EXTENDS Enrolment

CONSTANTS a1, a2, t1

MCAgents == {a1, a2}
MCThreads == {<<a1, "loop">>, <<a1, "page">>, <<a2, "loop">>}
MCFlagToken == [a \in MCAgents |-> t1]
==============================================================================
