--------------------------- MODULE MCRequestReply ---------------------------
(* Two requests, one of which waits for its reply without a timeout: sent  *)
(* directly, queued behind one another in a buffer of two, or competing    *)
(* for the one place of a buffer.                                          *)
EXTENDS RequestReply

MCSetups == {<<"direct", 0>>, <<"wait", 1>>, <<"wait", 2>>}
=============================================================================
