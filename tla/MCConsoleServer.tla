-------------------------- MODULE MCConsoleServer --------------------------
(* Bounds for ConsoleServer: two line clients with two lines each, so that a
   timed-out line is still queued when the next one is sent, beside one
   WebSocket session with one message.  Two sessions that use one connection
   structure in turn are in ConsoleServerReplies.cfg. *)
EXTENDS ConsoleServer
=============================================================================
