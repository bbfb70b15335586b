---------------------------- MODULE ModelRequests ----------------------------
(***************************************************************************)
(* Requests to the model, from the facade that never raises                *)
(* (adapter_to_llm_client.py) through one of the two users of a cassette   *)
(* -- the caching adapter of record_replay_cache.py or the LayerCast       *)
(* adapter -- to the client that retries (llm_client.py) or the one that   *)
(* asks a bridge once (http_agent_client.py).  Requests are coroutines:    *)
(* between two waits, for the model or for the end of a pause, a request   *)
(* runs undisturbed, and that is one step here.                            *)
(***************************************************************************)
EXTENDS Cassette

CONSTANTS
  ChannelOf,    \* the channel a question is asked on
  Malformed,    \* answers the schema of their channel rejects
  Clients,      \* coroutines that may have a request under way
  MaxRetries,   \* max_retries
  UsedModes,    \* modes a process may be started in
  MaxSessions,  \* bound: processes over one file
  MaxFaults     \* bound: reads and writes that fail

Channels == {"environment-director", "npc-policy", "strategic-plan", "colony-agent"}

ASSUME RequestsAssumption ==
  /\ ChannelOf \in [Keys -> Channels]
  /\ Malformed \subseteq Answers
  /\ MaxRetries \in Nat
  /\ UsedModes \subseteq Modes
  /\ MaxSessions \in Nat
  /\ MaxFaults \in Nat

VARIABLES
  request,    \* the request of each client
  bridged,    \* HTTPAgentClient makes the attempts, not LLMClient
  layered,    \* LayerCastAdapter over the cassette, not the caching adapter
  supported,  \* _supported: None until the first answer
  sessions,
  faults

requestVars == <<request, bridged, layered, supported, sessions, faults>>

vars == <<cassetteVars, requestVars>>

\* The facade turns misses, errors and cancellations into a fallback.
Fallback == "fallback"

\* An answer the guardrails had to put right.
Repaired == "repaired"

\* What the facade hands on: the plan of a colony is taken or left, the answers
\* of the other channels are repaired.
Served(k, r) ==
  IF r = Failed \/ (r \in Malformed /\ ChannelOf[k] = "colony-agent") THEN Fallback
  ELSE IF r \in Malformed THEN Repaired ELSE r

\* LayerCast validates the answers of two channels itself: what the schema
\* rejects is a failed response.
Wrapped(k, r) ==
  IF r \in Malformed /\ ChannelOf[k] \in {"environment-director", "npc-policy"}
  THEN Failed ELSE r

\* A client is idle, with what it was given last, or waits for the model or
\* for the end of a pause after so many failures.
Idle(k, r) == [at |-> "idle", key |-> k, failures |-> 0, given |-> r]

Asking(k, n) == [at |-> "asking", key |-> k, failures |-> n, given |-> None]

Pausing(k, n) == [at |-> "pausing", key |-> k, failures |-> n, given |-> None]

Requests ==
  [at : {"idle", "asking", "pausing"},
   key : Keys \union {None},
   failures : 0 .. MaxRetries,
   given : Answers \union {Repaired, Fallback, None}]

\* What a client was given is remembered where a property speaks of it.
Over(k, r) == IF mode = "replay" THEN Idle(k, r) ELSE Idle(None, None)

Turn(c, r) == request' = [request EXCEPT ![c] = r]

Give(c, r) == Turn(c, Over(request[c].key, r))

Serve(c, r) == Give(c, Served(request[c].key, r))

\* A read of the cassette file fails.
LoadFails ==
  /\ faults < MaxFaults
  /\ faults' = faults + 1
  /\ GetFails

-----------------------------------------------------------------------------
(* A request begins *)

\* LayerCast looks into the cassette first only when it knows that the
\* backend does not support it.
LooksFirst == layered => supported = FALSE

BeginRecorded(c, k) ==
  /\ request[c].at = "idle"
  /\ LooksFirst
  /\ Hits(k)
  /\ Get
  /\ Turn(c, Over(k, Served(k, Recorded(Loaded, k))))
  /\ UNCHANGED <<bridged, layered, supported, sessions, faults>>

\* A miss is the end of it when replaying, and for LayerCast in any mode.
BeginMissed(c, k) ==
  /\ request[c].at = "idle"
  /\ LooksFirst
  /\ ~Hits(k)
  /\ mode = "replay" \/ layered
  /\ Get
  /\ Turn(c, Over(k, Fallback))
  /\ UNCHANGED <<bridged, layered, supported, sessions, faults>>

BeginUnread(c, k) ==
  /\ request[c].at = "idle"
  /\ LooksFirst
  /\ LoadFails
  /\ Turn(c, Over(k, Fallback))
  /\ UNCHANGED <<bridged, layered, supported, sessions>>

BeginAsking(c, k) ==
  /\ request[c].at = "idle"
  /\ LooksFirst
  /\ ~Hits(k)
  /\ mode # "replay"
  /\ ~layered
  /\ Get
  /\ Turn(c, Asking(k, 0))
  /\ UNCHANGED <<bridged, layered, supported, sessions, faults>>

BeginLayered(c, k) ==
  /\ request[c].at = "idle"
  /\ ~LooksFirst
  /\ Turn(c, Asking(k, 0))
  /\ UNCHANGED <<cassetteVars, bridged, layered, supported, sessions, faults>>

-----------------------------------------------------------------------------
(* The attempts of the client *)

\* Fault: the failures are not counted.
PauseUncounted(c) ==
  /\ request[c].at = "asking"
  /\ Turn(c, Pausing(request[c].key, request[c].failures))
  /\ UNCHANGED <<cassetteVars, bridged, layered, supported, sessions, faults>>

\* The bridge is asked once, whatever comes of it.
LastAttempt(c) == bridged \/ request[c].failures = MaxRetries

\* An attempt times out or fails, and another one is left.
Pause(c) ==
  /\ request[c].at = "asking"
  /\ ~LastAttempt(c)
  /\ Turn(c, Pausing(request[c].key, request[c].failures + 1))
  /\ UNCHANGED <<cassetteVars, bridged, layered, supported, sessions, faults>>

Retry(c) ==
  /\ request[c].at = "pausing"
  /\ Turn(c, Asking(request[c].key, request[c].failures))
  /\ UNCHANGED <<cassetteVars, bridged, layered, supported, sessions, faults>>

\* An attempt can end the request whichever it is: an answer does, and so does
\* a reply that is no JSON, with a failed response and without another try.
Ends(c) == request[c].at = "asking"

-----------------------------------------------------------------------------
(* A response comes back *)

\* The caching adapter records it, if it can.
EndCached(c, r) ==
  /\ ~layered
  /\ Ends(c)
  /\ \/ Put(request[c].key, r) /\ UNCHANGED faults
     \/ mode # "replay" /\ LoadFails
  /\ Serve(c, r)
  /\ UNCHANGED <<bridged, layered, supported, sessions>>

\* The first response tells LayerCast whether the backend supports it.
Learns(acknowledged) ==
  supported' = IF supported = None THEN acknowledged ELSE supported

\* It does: the response is passed on and the cassette is left alone.
EndSupported(c, r, acknowledged) ==
  /\ layered
  /\ Ends(c)
  /\ Learns(acknowledged)
  /\ supported' = TRUE
  /\ Serve(c, Wrapped(request[c].key, r))
  /\ UNCHANGED <<cassetteVars, bridged, layered, sessions, faults>>

\* It does not: what is recorded goes before the response.
EndReplaced(c, r, acknowledged) ==
  /\ layered
  /\ Ends(c)
  /\ Learns(acknowledged)
  /\ supported' = FALSE
  /\ Hits(request[c].key)
  /\ Get
  /\ Serve(c, Recorded(Loaded, request[c].key))
  /\ UNCHANGED <<bridged, layered, sessions, faults>>

EndRecorded(c, r, acknowledged) ==
  /\ layered
  /\ Ends(c)
  /\ Learns(acknowledged)
  /\ supported' = FALSE
  /\ ~Hits(request[c].key)
  /\ LET w == Wrapped(request[c].key, r)
     IN  /\ IF mode = "replay" THEN Get ELSE Put(request[c].key, w)
         /\ Serve(c, w)
  /\ UNCHANGED <<bridged, layered, sessions, faults>>

EndUnread(c, r, acknowledged) ==
  /\ layered
  /\ Ends(c)
  /\ Learns(acknowledged)
  /\ supported' = FALSE
  /\ LoadFails
  /\ Give(c, Fallback)
  /\ UNCHANGED <<bridged, layered, sessions>>

\* The adapter underneath raises.
Raises(c) ==
  /\ request[c].at = "asking"
  /\ \/ /\ ~layered
        /\ Give(c, Fallback)
        /\ UNCHANGED <<cassetteVars, supported, faults>>
     \/ /\ layered
        /\ supported' = FALSE
        /\ Get
        /\ IF Hits(request[c].key)
           THEN Serve(c, Recorded(Loaded, request[c].key))
           ELSE Give(c, Fallback)
        /\ UNCHANGED faults
     \/ /\ layered
        /\ supported' = FALSE
        /\ LoadFails
        /\ Give(c, Fallback)
  /\ UNCHANGED <<bridged, layered, sessions>>

\* The request is cancelled while it waits; the facade answers all the same.
Cancelled(c) ==
  /\ request[c].at # "idle"
  /\ Give(c, Fallback)
  /\ UNCHANGED <<cassetteVars, bridged, layered, supported, sessions, faults>>

-----------------------------------------------------------------------------
(* Processes *)

SaveCassette ==
  /\ Flush
  /\ UNCHANGED requestVars

SaveFails ==
  /\ faults < MaxFaults
  /\ FlushFails
  /\ faults' = faults + 1
  /\ UNCHANGED <<request, bridged, layered, supported, sessions>>

\* A process ends, on its own or not, and another one starts.
Restart(m) ==
  /\ sessions < MaxSessions
  /\ sessions' = sessions + 1
  /\ Reopen(m)
  /\ request' = [c \in Clients |-> Idle(None, None)]
  /\ supported' = None
  /\ UNCHANGED <<bridged, layered, faults>>

Init ==
  /\ CassetteInit
  /\ mode \in UsedModes
  /\ request = [c \in Clients |-> Idle(None, None)]
  /\ bridged \in BOOLEAN
  /\ layered \in BOOLEAN
  /\ supported = None
  /\ sessions = 1
  /\ faults = 0

\* What ends the wait of a client, one way or another.
Proceed(c) ==
  \/ Pause(c)
  \/ Retry(c)
  \/ \E r \in Responses : EndCached(c, r)
  \/ \E r \in Responses, b \in BOOLEAN :
       \/ EndSupported(c, r, b)
       \/ EndReplaced(c, r, b)
       \/ EndRecorded(c, r, b)
       \/ EndUnread(c, r, b)
  \/ Raises(c)

Next ==
  \/ \E c \in Clients, k \in Keys :
       \/ BeginRecorded(c, k)
       \/ BeginMissed(c, k)
       \/ BeginUnread(c, k)
       \/ BeginAsking(c, k)
       \/ BeginLayered(c, k)
  \/ \E c \in Clients : Proceed(c) \/ Cancelled(c)
  \/ SaveCassette
  \/ SaveFails
  \/ \E m \in UsedModes : Restart(m)

\* Every attempt is under a time-out and every pause has a length.
Spec == Init /\ [][Next]_vars /\ \A c \in Clients : WF_vars(Proceed(c))

-----------------------------------------------------------------------------
(* Properties *)

\* What a process holds and does not mark as unsaved is what the file says:
\* nothing it was given is left out when it is saved, and nothing recorded
\* is overlooked when it is loaded.
CleanMeansSaved ==
  faults = 0 /\ loaded /\ ~dirty => entries = file

\* As long as a replay can read its cassette, it answers every recorded
\* request with the recorded answer, and no other with anything.
ReplayGivesRecorded ==
  \A c \in Clients :
    LET r == request[c]
    IN  (mode = "replay" /\ ~layered /\ faults = 0 /\ r.key # None) =>
          r.given = IF r.key \in KeysOf(file)
                    THEN Served(r.key, Recorded(file, r.key))
                    ELSE Fallback

\* Every request is answered: attempts are bounded.
RequestsEnd ==
  \A c \in Clients : (request[c].at # "idle") ~> (request[c].at = "idle")

\* "top up the cassette without nuking it": as long as no read or write
\* fails, an auto run never loses what was recorded under a key.
RecordingsKept ==
  [][(mode = "auto" /\ faults = 0) => KeysOf(file) \subseteq KeysOf(file')]_vars

=============================================================================
