------------------------------- MODULE Provider -------------------------------
(***************************************************************************)
(* The configuration providers.  FileProvider loads what the runtime loader  *)
(* shows and waits for its next notification.  XdsGrpcSotwProvider has a     *)
(* loop that owns the connection and a watcher that fetches; they, and Stop, *)
(* meet on connectionRetryChannel.  Both channels are unbuffered: a send is  *)
(* one step with the receive.                                               *)
(*                                                                          *)
(* source is what was published so far (external): a number, with the       *)
(* verdict of the loader on each.  Ack and Nack change nothing here but the  *)
(* management server's books.                                               *)
(***************************************************************************)
EXTENDS Integers, Sequences

CONSTANT
  MaxBreaks      \* bound on the broken streams and failed dials

VARIABLES
  configType,    \* "FILE" or "GRPC_XDS_SOTW"
  history,       \* the verdicts on the versions: "full", "empty", "error" (one of the
                 \* loader's own), "panic" (any other), "malformed"
  source,        \* the latest version
  notify,        \* the runtime loader is sending on runtimeUpdateEvent
  provider       \* [loop, watch, stream, version, breaks]

ProviderOff == [loop |-> "off", watch |-> "off", stream |-> FALSE, version |-> 0, breaks |-> 0]

Xds == configType = "GRPC_XDS_SOTW"

\* getProviderImpl: the goroutine is started.
NewProvider ==
  provider' = [provider EXCEPT !.loop = IF Xds THEN "dial" ELSE "off",
                               !.watch = IF Xds THEN "off" ELSE "load"]

\* external: a new version, and the callback of the runtime loader.
Publish ==
  /\ source < Len(history)
  /\ source' = source + 1
  /\ notify' = ~Xds
  /\ UNCHANGED provider

-----------------------------------------------------------------------------
(* file_provider.go *)

\* sendEvent up to its send; a panic of the loader becomes an event with an error.
Snapshot ==
  /\ provider.watch = "load"
  /\ provider' = [provider EXCEPT !.watch = "send", !.version = source]
  /\ UNCHANGED <<source, notify>>

RuntimeUpdate ==
  /\ ~Xds /\ provider.watch = "wait" /\ notify
  /\ notify' = FALSE
  /\ provider' = [provider EXCEPT !.watch = "load"]
  /\ UNCHANGED source

-----------------------------------------------------------------------------
(* xds_grpc_sotw_provider.go *)

\* initializeAndWatch.  The dial blocks until connected; when it returns an
\* error, retryGrpcConn sends to the channel that this goroutine itself receives.
\* An error of InitConnect is ignored: the watcher starts without a new stream.
initializeAndWatch ==
  /\ provider.loop = "dial"
  /\ \/ provider' = [provider EXCEPT !.loop = "range", !.watch = "fetch", !.stream = TRUE,
                                     !.version = 0]
     \/ /\ provider.breaks < MaxBreaks
        /\ \/ provider' = [provider EXCEPT !.loop = "stuck", !.breaks = @ + 1]
           \/ provider' = [provider EXCEPT !.loop = "range", !.watch = "blind", !.breaks = @ + 1]
  /\ UNCHANGED <<source, notify>>

\* Fetch returns what this stream has not delivered yet.
Fetch ==
  /\ Xds /\ provider.watch = "fetch" /\ provider.loop # "exit" /\ provider.version < source
  /\ provider' = [provider EXCEPT !.version = source,
                                  !.watch = IF history[source] = "malformed" THEN "fetch" ELSE "send"]
  /\ UNCHANGED <<source, notify>>

\* The stream breaks, or the loop has closed the connection, which the stream of an
\* earlier connection has met already.
FetchFails ==
  /\ Xds
  /\ \/ /\ \/ provider.watch = "fetch" /\ provider.loop = "exit"
           \/ provider.watch = "blind" /\ provider.stream
        /\ provider' = [provider EXCEPT !.watch = "retry"]
     \/ /\ provider.watch = "fetch" /\ provider.breaks < MaxBreaks
        /\ provider' = [provider EXCEPT !.watch = "retry", !.breaks = @ + 1]
  /\ UNCHANGED <<source, notify>>

\* A slip: the watcher returns without asking for a new connection.
retryGrpcConnLost ==
  /\ provider.loop = "range" /\ provider.watch = "retry"
  /\ provider' = [provider EXCEPT !.watch = "off"]
  /\ UNCHANGED <<source, notify>>

\* The loop receives true, closes the connection, and sleeps; the watcher ends.
retryGrpcConn ==
  /\ provider.loop = "range" /\ provider.watch = "retry"
  /\ provider' = [provider EXCEPT !.loop = "sleep", !.watch = "off"]
  /\ UNCHANGED <<source, notify>>

BackOff ==
  /\ provider.loop = "sleep"
  /\ provider' = [provider EXCEPT !.loop = "dial"]
  /\ UNCHANGED <<source, notify>>

ProviderGoroutines ==
  \/ Snapshot \/ RuntimeUpdate
  \/ initializeAndWatch \/ Fetch \/ FetchFails \/ retryGrpcConn \/ BackOff

\* Stop: a file provider goes on; the loop of the other receives false and ends.
\* The sender waits until the loop is ready to receive.
StopReceived ==
  \/ ~Xds /\ UNCHANGED provider
  \/ Xds /\ provider.loop = "range" /\ provider' = [provider EXCEPT !.loop = "exit"]

-----------------------------------------------------------------------------
(* The event channel *)

\* The receiver takes the event; the watcher acknowledges and goes on.
ConfigUpdateEvent ==
  /\ provider.watch = "send"
  /\ provider' = [provider EXCEPT !.watch = IF Xds THEN "fetch" ELSE "wait"]

ProviderInit ==
  /\ source = 1
  /\ notify = FALSE
  /\ provider = ProviderOff

==============================================================================
