----------------------------- MODULE MCConnection -----------------------------
(***************************************************************************)
(* Datagrams for the run of Connection: requests that two workers may      *)
(* answer at once, more pings than the updater can answer at once, and     *)
(* packets that cannot be read.                                            *)
(***************************************************************************)
EXTENDS Connection

SomeContents ==
  {<<"request", "request", "ping">>, <<"incoming", "empty", "ping">>,
   <<"pong", "short", "ping">>}
=============================================================================
