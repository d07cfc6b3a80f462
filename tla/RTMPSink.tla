-------------------------------- MODULE RTMPSink --------------------------------
(***************************************************************************)
(* The RTMP output: a publisher that connects with the first frame and       *)
(* connects again after a failure                                            *)
(* (src/server/internal/media/rtmp_sink.go, rtmp_client.go).                 *)
(*                                                                           *)
(* WriteFrame runs on the goroutine of the pipe, Start and Stop on those of  *)
(* the API.  What WriteFrame does under the lock is one step.  A client is   *)
(* used for one connection; its number stands for it and for the connection. *)
(***************************************************************************)
EXTENDS Naturals, Sequences

CONSTANTS MaxClients,  \* bound: clients made after failures and stops
          MaxFaults,   \* bound: failures of the network
          MaxStops,    \* bound: calls of Stop
          MaxLog       \* bound: messages of a connection that are remembered

VARIABLES
  status,            \* of the sink; ready follows it
  client,            \* r.client: the newest client
  started, metaSent,
  backoff,           \* nextRetryAt lies ahead
  conn,              \* of each client: "new", "open", "closed"
  up,                \* connections the network still carries
  log,               \* what reached the server on each connection
  torn,              \* history: connections on which a write failed
  pc,                \* of WriteFrame
  faults, stops

vars == <<status, client, started, metaSent, backoff, conn, up, log, torn, pc, faults, stops>>
state == <<status, client, started, metaSent, backoff>>

Clients == 1 .. MaxClients
-----------------------------------------------------------------------------
Init ==
  /\ status = "stopped" /\ client = 1 /\ started = FALSE /\ metaSent = FALSE /\ backoff = FALSE
  /\ conn = [c \in Clients |-> "new"] /\ up = {} /\ log = [c \in Clients |-> <<>>] /\ torn = {}
  /\ pc = "idle" /\ faults = 0 /\ stops = 0

(* Close of a client is final; newRTMPClient follows it.                      *)
Renew ==
  /\ conn' = [conn EXCEPT ![client] = "closed"]
  /\ up' = up \ {client} /\ client' = client + 1

(* Mutant: the old connection stays open beside the new client.               *)
FailLeavesOpen ==
  /\ client' = client + 1 /\ started' = FALSE /\ metaSent' = FALSE /\ backoff' = TRUE
  /\ UNCHANGED <<conn, up>>

(* markFailLocked.                                                            *)
Fail == Renew /\ started' = FALSE /\ metaSent' = FALSE /\ backoff' = TRUE

Room == client < MaxClients
-----------------------------------------------------------------------------
(* Start, and Stop with the whole of its reset.                               *)
Start ==
  /\ status = "stopped" /\ status' = "running"
  /\ UNCHANGED <<client, started, metaSent, backoff, conn, up, log, torn, pc, faults, stops>>

Stop ==
  /\ status = "running" /\ Room /\ stops < MaxStops /\ stops' = stops + 1
  /\ status' = "stopped" /\ started' = FALSE /\ metaSent' = FALSE /\ backoff' = FALSE
  /\ Renew
  /\ UNCHANGED <<log, torn, pc, faults>>

(* A frame arrives: the status is read and the lock given up.                 *)
WriteFrame ==
  /\ pc = "idle" /\ status = "running" /\ pc' = "connect"
  /\ UNCHANGED <<state, conn, up, log, torn, faults, stops>>

(* During the backoff frames are dropped; Connect (dial, handshake, connect,  *)
(* createStream, publish, each under a deadline) succeeds or fails.           *)
Connect ==
  /\ pc = "connect"
  /\ \/ started /\ pc' = "meta" /\ UNCHANGED <<state, conn, up>>
     \/ ~started /\ backoff /\ pc' = "idle" /\ UNCHANGED <<state, conn, up>>
     \/ /\ ~started /\ ~backoff
        /\ started' = TRUE /\ pc' = "meta"
        /\ conn' = [conn EXCEPT ![client] = IF @ = "new" THEN "open" ELSE @]
        /\ up' = up \cup {client}
        /\ UNCHANGED <<status, client, metaSent, backoff>>
  /\ UNCHANGED <<log, torn, faults, stops>>

(* No answer, or not the one that waitResult and readMessage understand.      *)
ConnectFails ==
  /\ pc = "connect" /\ ~started /\ ~backoff /\ Room
  /\ faults < MaxFaults /\ faults' = faults + 1
  /\ Fail /\ pc' = "idle"
  /\ UNCHANGED <<status, log, torn, stops>>

(* SendData: a client that is not connected or closed refuses; a write may    *)
(* run into its deadline, and fails on a connection that is gone.             *)
Accepts == conn[client] = "open" /\ client \in up
Delivered(what) ==
  /\ Accepts
  /\ log' = IF Len(log[client]) < MaxLog THEN [log EXCEPT ![client] = Append(@, what)] ELSE log
  /\ UNCHANGED <<torn, faults>>
Refused ==
  \/ ~Accepts /\ torn' = torn \cup {client} /\ UNCHANGED <<log, faults>>
  \/ /\ Accepts /\ faults < MaxFaults /\ faults' = faults + 1
     /\ torn' = torn \cup {client} /\ UNCHANGED log

(* sendMetadata; sendSequenceHeaders follows whether it went out or not.      *)
SendMetadata ==
  /\ pc = "meta"
  /\ \/ metaSent /\ pc' = "frame" /\ UNCHANGED <<metaSent, log, torn, faults>>
     \/ ~metaSent /\ Delivered("meta") /\ metaSent' = TRUE /\ pc' = "headers"
     \/ ~metaSent /\ Refused /\ pc' = "headers" /\ UNCHANGED metaSent
  /\ UNCHANGED <<status, client, started, backoff, conn, up, stops>>

(* A header that cannot be sent is logged and forgotten.                      *)
SendSequenceHeaders ==
  /\ pc = "headers" /\ pc' = "frame"
  /\ (Delivered("headers") \/ Refused)
  /\ UNCHANGED <<state, conn, up, stops>>

SendFrame ==
  /\ pc = "frame" /\ pc' = "idle"
  /\ Delivered("frame")
  /\ UNCHANGED <<state, conn, up, stops>>

(* EncodeTagData makes nothing of the frame.                                  *)
SkipFrame ==
  /\ pc = "frame" /\ pc' = "idle"
  /\ UNCHANGED <<state, conn, up, log, torn, faults, stops>>

(* A failure to send closes and replaces whatever client there is now.        *)
SendFrameFails ==
  /\ pc = "frame" /\ pc' = "idle" /\ Room
  /\ Refused /\ Fail
  /\ UNCHANGED <<status, stops>>
-----------------------------------------------------------------------------
(* The server or the network ends a connection.                               *)
Break ==
  /\ faults < MaxFaults /\ faults' = faults + 1
  /\ \E c \in up : up' = up \ {c}
  /\ UNCHANGED <<state, conn, log, torn, pc, stops>>

BackoffPasses ==
  /\ backoff /\ backoff' = FALSE
  /\ UNCHANGED <<status, client, started, metaSent, conn, up, log, torn, pc, faults, stops>>

Writes == SendFrame \/ SendFrameFails

Next ==
  \/ Start \/ Stop \/ WriteFrame
  \/ Connect \/ ConnectFails \/ SendMetadata \/ SendSequenceHeaders
  \/ SendFrame \/ SendFrameFails \/ SkipFrame
  \/ Break \/ BackoffPasses

Spec == Init /\ [][Next]_vars

(* Frames keep coming, some of which have a tag, and time passes.             *)
FairSpec ==
  /\ Spec /\ WF_vars(WriteFrame) /\ WF_vars(Connect \/ ConnectFails)
  /\ WF_vars(SendMetadata) /\ WF_vars(SendSequenceHeaders)
  /\ SF_vars(Writes) /\ WF_vars(BackoffPasses)
-----------------------------------------------------------------------------
TypeOK ==
  /\ status \in {"stopped", "running"} /\ client \in Clients
  /\ conn \in [Clients -> {"new", "open", "closed"}] /\ up \subseteq Clients /\ torn \subseteq Clients
  /\ pc \in {"idle", "connect", "meta", "headers", "frame"}

(* The server never has two publishers of one output: whatever Stop, Start    *)
(* and the failures of WriteFrame do between its steps, a client is closed    *)
(* before another takes its place (rtmp_sink.go:140-146, 253-259).            *)
OnePublisher == \A c \in Clients : conn[c] = "open" => c = client

(* On a connection none of whose writes failed the server gets the metadata   *)
(* and the sequence headers before the first frame, once, also after a        *)
(* reconnection (rtmp_sink.go:118-122).                                       *)
HeadersFirst ==
  \A c \in Clients \ torn :
    /\ Len(log[c]) > 0 => log[c][1] = "meta"
    /\ Len(log[c]) > 1 => log[c][2] = "headers"
    /\ \A i \in 3 .. Len(log[c]) : log[c][i] = "frame"

(* No failure is final: an output that goes on running has, from some moment  *)
(* on, a connection that takes its frames (rtmp_sink.go:91-98).               *)
Recovers ==
  <>[](status = "running") => <>[](started /\ Accepts)

(* A stopped output holds no connection (rtmp_sink.go:244-259).               *)
StopDisconnects == status = "stopped" => up = {}
=============================================================================
