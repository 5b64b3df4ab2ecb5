----------------------------- MODULE MCService ------------------------------
EXTENDS Service

CONSTANTS q1, q2, f1

MCQueries == {q1, q2}
MCFeedbacks == {f1}
MCCallers == MCQueries \cup {WarmUp, Worker}
MCRows == MCQueries \cup MCFeedbacks
=============================================================================
