--------------------------- MODULE MCThreadManager ---------------------------
(***************************************************************************)
(* Tasks for the run of ThreadManager: the two long tasks of the server    *)
(* and two of the sessions.                                                *)
(***************************************************************************)
EXTENDS ThreadManager

CONSTANTS receive, update, session1, session2

LongTasks == {receive, update}

Tasks == LongTasks \cup {session1, session2}
=============================================================================
