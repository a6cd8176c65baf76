--------------------------- MODULE NetworkSessions ---------------------------
(***************************************************************************)
(* Requests of one peer to this node over libp2p. The stream of a request  *)
(* is kept in sessions[peer][operationId] until the command that handles   *)
(* the request answers on whatever stream it finds there. Request i uses   *)
(* stream i; a peer that crashed sends the requests it was waiting for     *)
(* again, with the same operation id.                                      *)
(***************************************************************************)
EXTENDS Integers, FiniteSets

CONSTANTS
  Requests,       \* number of requests (bound)
  StoreIds,       \* operation ids of store requests, whose handler may be retried
  GetIds,         \* of get requests
  AskIds,         \* of ask requests
  FinalityIds,    \* of finality requests
  StoreRetries,   \* retries PublishController gives such a handler
  RateLimit,      \* NETWORK_API_RATE_LIMIT.MAX_NUMBER
  SpamLimit,      \* NETWORK_API_SPAM_DETECTION.MAX_NUMBER
  BlackListTime,  \* windows a peer stays in the black list
  MaxFaults       \* crashes, failing handlers and writes, bad requests, windows (bound)

ASSUME SessionsAssumption ==
  /\ Requests \in Nat \ {0} /\ StoreRetries \in Nat \ {0}
  /\ RateLimit \in Nat /\ SpamLimit \in Nat /\ BlackListTime \in Nat /\ MaxFaults \in Nat

Ids == StoreIds \cup GetIds \cup AskIds \cup FinalityIds
Request == 1..Requests
None == 0

VARIABLES
  id,        \* operation id of a request
  peer,      \* what the sender of a request is doing, or the response it has
  stream,    \* state of the stream of a request
  written,   \* message written into a stream, by the receiver
  sessions,  \* stream cached for an operation id
  stage,     \* where the receiver is with a request
  message,   \* response prepared for a request
  retries,   \* retries left of the handler
  idStatus,  \* status of the operation id at the receiver
  prepared,  \* ids for which a handler prepared an ACK
  recent,    \* requests of the peer in the limiters' window
  blackList, \* windows for which the peer stays out
  faults

receiver == <<sessions, stage, message, retries, idStatus, prepared>>
limiter == <<recent, blackList>>
vars == <<id, peer, stream, written, receiver, limiter, faults>>

Responses == {"ACK", "NACK"}
Ended == {"refused", "left", "done", "abandoned", "thrown", "unanswered",
          "lost"}

SessionsTypeOK ==
  /\ id \in [Request -> Ids]
  /\ peer \in [Request -> {"idle", "waiting", "gone"} \cup Responses]
  /\ stream \in [Request -> {"none", "open", "answered", "broken", "closed"}]
  /\ written \in [Request -> Responses \cup {"none"}]
  /\ sessions \in [Ids -> Request \cup {None}]
  /\ stage \in [Request -> {"unread", "refusing", "queued", "prepared", "failing", "sent"} \cup Ended]
  /\ message \in [Request -> Responses \cup {"none"}]
  /\ retries \in [Request -> 0..StoreRetries]
  /\ idStatus \in [Ids -> {"none", "START", "END", "FAILED"}]
  /\ prepared \subseteq Ids
  /\ recent \in Nat /\ blackList \in 0..BlackListTime
  /\ faults \in 0..MaxFaults

\* The peer may have sent other requests before.
Init ==
  /\ id \in [Request -> Ids]
  /\ peer = [i \in Request |-> "idle"]
  /\ stream = [i \in Request |-> "none"]
  /\ written = [i \in Request |-> "none"]
  /\ sessions = [o \in Ids |-> None]
  /\ stage = [i \in Request |-> "unread"]
  /\ message = [i \in Request |-> "none"]
  /\ retries = [i \in Request |-> IF id[i] \in StoreIds THEN StoreRetries ELSE 0]
  /\ idStatus = [o \in Ids |-> "none"]
  /\ prepared = {}
  /\ recent \in 0..SpamLimit /\ blackList \in {0, BlackListTime}
  /\ faults = 0

Stage(i, s) == stage' = [stage EXCEPT ![i] = s]
SetStatus(i, s) == idStatus' = [idStatus EXCEPT ![id[i]] = s]
Faulty == faults < MaxFaults /\ faults' = faults + 1

\* Mutant: sessions are kept per peer, whatever the operation id.
AnySessionStream(o) ==
  CHOOSE i \in Request \cup {None} :
    (\E p \in Ids : sessions[p] = i) /\ \A p \in Ids : sessions[p] <= i

GetSessionStream(o) == sessions[o]

\* Closes and forgets the stream found under the operation id.
RemoveCachedSession(o) ==
  /\ sessions' = [sessions EXCEPT ![o] = None]
  /\ stream' = [i \in Request |->
       IF i = sessions[o] /\ stream[i] = "open" THEN "closed" ELSE stream[i]]

----------------------------------------------------------------------------
(* The sender *)

\* A dial that fails is a NACK. An id is sent again only after a crash.
SendMessage(i) ==
  /\ peer[i] = "idle"
  /\ \A j \in 1..(i - 1) : peer[j] # "idle" /\ (id[j] = id[i] => peer[j] = "gone")
  /\ \/ /\ peer' = [peer EXCEPT ![i] = "waiting"]
        /\ stream' = [stream EXCEPT ![i] = "open"]
        /\ UNCHANGED faults
     \/ /\ peer' = [peer EXCEPT ![i] = "NACK"]
        /\ Faulty /\ UNCHANGED stream
  /\ UNCHANGED <<id, written, receiver, limiter>>

\* A stream that was closed without a message has an empty header: an invalid
\* response, which is a NACK.
ReadResponse(i) ==
  /\ peer[i] = "waiting" /\ stream[i] \in {"answered", "closed", "broken"}
  /\ peer' = [peer EXCEPT ![i] = IF stream[i] = "answered" THEN written[i] ELSE "NACK"]
  /\ UNCHANGED <<id, stream, written, receiver, limiter, faults>>

\* The time for the response is over: the stream is aborted.
Timeout(i) ==
  /\ peer[i] = "waiting"
  /\ peer' = [peer EXCEPT ![i] = "NACK"]
  /\ stream' = [stream EXCEPT ![i] = "broken"]
  /\ UNCHANGED <<id, written, receiver, limiter, faults>>

SenderCrash ==
  /\ Faulty
  /\ peer' = [i \in Request |-> IF peer[i] = "waiting" THEN "gone" ELSE peer[i]]
  /\ stream' = [i \in Request |->
       IF peer[i] = "waiting" /\ stream[i] = "open" THEN "broken" ELSE stream[i]]
  /\ UNCHANGED <<id, written, receiver, limiter>>

----------------------------------------------------------------------------
(* Reading a request *)

\* The black list, the detection of spam, and the limit of the rate; requests
\* that are refused count, except those of a peer in the black list.
Limited == blackList > 0 \/ recent >= SpamLimit \/ recent >= RateLimit

LimitRequest ==
  /\ recent' = IF blackList > 0 THEN recent ELSE recent + 1
  /\ blackList' = IF blackList = 0 /\ recent >= SpamLimit THEN BlackListTime ELSE blackList

\* A window of the limiters passes.
Window ==
  /\ recent > 0 /\ Faulty
  /\ recent' = 0
  /\ blackList' = IF blackList > 0 THEN blackList - 1 ELSE 0
  /\ UNCHANGED <<id, peer, stream, written, receiver>>

Arrived(i) == stage[i] = "unread" /\ stream[i] = "open"

\* The stream of the message just read is the session's, for good or for a refusal.
UpdateSessionStream(i) == sessions' = [sessions EXCEPT ![id[i]] = i]

AcceptMessage(i) ==
  /\ Arrived(i) /\ ~Limited
  /\ LimitRequest
  /\ UpdateSessionStream(i)
  /\ Stage(i, "queued")
  /\ UNCHANGED <<id, peer, stream, written, message, retries, idStatus, prepared, faults>>

\* The answer to a limited or malformed request; that it is written is awaited
\* before the session is removed. A node is never found to be busy: that is asked
\* for PROTOCOL_INIT messages, a type that does not exist.
RefuseMessage(i) ==
  /\ Arrived(i)
  /\ LimitRequest
  /\ UpdateSessionStream(i)
  /\ IF Limited THEN UNCHANGED faults ELSE Faulty
  /\ written' = [written EXCEPT ![i] = "NACK"]
  /\ stream' = [stream EXCEPT ![i] = "answered"]
  /\ Stage(i, "refusing")
  /\ UNCHANGED <<id, peer, message, retries, idStatus, prepared>>

Refused(i) ==
  /\ stage[i] = "refusing"
  /\ RemoveCachedSession(id[i])
  /\ Stage(i, "refused")
  /\ UNCHANGED <<id, peer, written, message, retries, idStatus, prepared, limiter, faults>>

\* An error while a refusal is written leaves the session.
RefusalFails(i) ==
  /\ stage[i] = "refusing" /\ Faulty
  /\ Stage(i, "left")
  /\ UNCHANGED <<id, peer, stream, written, sessions, message, retries, idStatus, prepared, limiter>>

----------------------------------------------------------------------------
(* HandleProtocolMessageCommand *)

\* A handler with retries is run again, the last of them excepted: the executor
\* then calls retryFinished, which receivers do not have.
Catch(i) ==
  IF retries[i] > 0
    THEN /\ Stage(i, IF retries[i] > 1 THEN "queued" ELSE "abandoned")
         /\ retries' = [retries EXCEPT ![i] = IF @ > 1 THEN @ - 1 ELSE @]
         /\ UNCHANGED idStatus
    ELSE /\ Stage(i, "failing") /\ SetStatus(i, "FAILED") /\ UNCHANGED retries

PrepareMessage(i, ok) ==
  /\ stage[i] = "queued"
  /\ SetStatus(i, "START")
  /\ message' = [message EXCEPT ![i] = IF ok THEN "ACK" ELSE "NACK"]
  /\ prepared' = IF ok THEN prepared \cup {id[i]} ELSE prepared
  /\ Stage(i, "prepared")
  /\ UNCHANGED <<id, peer, stream, written, sessions, retries, limiter, faults>>

\* This node is in the shard and the root is that of the data set, which is then
\* kept in pending storage and signed for.
HandleStoreRequest(i) ==
  id[i] \in StoreIds /\ \E inShard, rootMatches \in BOOLEAN : PrepareMessage(i, inShard /\ rootMatches)

\* The triples are in the current store, or in that of the old version.
HandleGetRequest(i) ==
  id[i] \in GetIds /\ \E current, v6 \in BOOLEAN : PrepareMessage(i, current \/ v6)

HandleAskRequest(i) ==
  id[i] \in AskIds /\ \E exists \in BOOLEAN : PrepareMessage(i, exists)

\* PublishFinalitySaveAckCommand prepares a response and was added with an empty
\* sequence: nothing sends it, and the session is left.
HandleFinalityRequest(i) ==
  /\ stage[i] = "queued" /\ id[i] \in FinalityIds
  /\ SetStatus(i, "END")
  /\ Stage(i, "unanswered")
  /\ UNCHANGED <<id, peer, stream, written, sessions, message, retries, prepared, limiter, faults>>

PrepareFails(i) ==
  /\ stage[i] = "queued" /\ id[i] \notin FinalityIds /\ Faulty
  /\ Catch(i)
  /\ UNCHANGED <<id, peer, stream, written, sessions, message, prepared, limiter>>

\* A message can be written into an open stream; into one whose other end is
\* gone too, where it is lost.
Write(s, m) ==
  /\ s # None /\ stream[s] \in {"open", "broken"}
  /\ stream' = [stream EXCEPT ![s] = IF @ = "open" THEN "answered" ELSE @]
  /\ written' = [written EXCEPT ![s] = IF stream[s] = "open" THEN m ELSE @]

\* There is no session, its stream has been used or closed, or the write fails.
WriteFails(s) ==
  IF s = None \/ stream[s] \notin {"open"} THEN UNCHANGED faults ELSE Faulty

SendMessageResponse(i) ==
  /\ stage[i] = "prepared"
  /\ Write(GetSessionStream(id[i]), message[i])
  /\ Stage(i, "sent")
  /\ UNCHANGED <<id, peer, sessions, message, retries, idStatus, prepared, limiter, faults>>

SendFails(i) ==
  /\ stage[i] = "prepared"
  /\ WriteFails(GetSessionStream(id[i]))
  /\ Catch(i)
  /\ UNCHANGED <<id, peer, stream, written, sessions, message, prepared, limiter>>

\* Mutant: the session is not removed.
FinishLeaving(i) ==
  /\ stage[i] = "sent"
  /\ SetStatus(i, "END")
  /\ Stage(i, "done")
  /\ UNCHANGED <<id, peer, stream, written, sessions, message, retries, prepared, limiter, faults>>

\* After the answer, or the NACK of an error, the status is that of the end.
Finish(i) ==
  /\ stage[i] = "sent"
  /\ RemoveCachedSession(id[i])
  /\ SetStatus(i, "END")
  /\ Stage(i, "done")
  /\ UNCHANGED <<id, peer, written, message, retries, prepared, limiter, faults>>

\* Mutant: the error is recorded and no NACK is sent.
HandleErrorSilently(i) ==
  /\ stage[i] = "failing"
  /\ Stage(i, "sent")
  /\ UNCHANGED <<id, peer, stream, written, sessions, message, retries, idStatus, prepared, limiter,
                 faults>>

HandleError(i) ==
  /\ stage[i] = "failing"
  /\ Write(GetSessionStream(id[i]), "NACK")
  /\ Stage(i, "sent")
  /\ UNCHANGED <<id, peer, sessions, message, retries, idStatus, prepared, limiter, faults>>

\* The error goes on to the executor; the session is left.
HandleErrorFails(i) ==
  /\ stage[i] = "failing"
  /\ WriteFails(GetSessionStream(id[i]))
  /\ Stage(i, "thrown")
  /\ UNCHANGED <<id, peer, stream, written, sessions, message, retries, idStatus, prepared, limiter>>

\* The commands of the receiver were added on their own and are not replayed.
ReceiverCrash ==
  /\ Faulty
  /\ sessions' = [o \in Ids |-> None]
  /\ stream' = [i \in Request |-> IF stream[i] = "open" THEN "broken" ELSE stream[i]]
  /\ stage' = [i \in Request |->
       IF stage[i] \in Ended \/ stream[i] = "none" THEN stage[i] ELSE "lost"]
  /\ recent' = 0 /\ blackList' = 0
  /\ UNCHANGED <<id, peer, written, message, retries, idStatus, prepared>>

----------------------------------------------------------------------------
Receiver(i) ==
  \/ HandleStoreRequest(i) \/ HandleGetRequest(i) \/ HandleAskRequest(i) \/ HandleFinalityRequest(i)
  \/ Refused(i) \/ SendMessageResponse(i) \/ SendFails(i) \/ Finish(i)
  \/ HandleError(i) \/ HandleErrorFails(i)

Next ==
  \/ \E i \in Request :
       \/ SendMessage(i) \/ AcceptMessage(i) \/ RefuseMessage(i) \/ RefusalFails(i) \/ PrepareFails(i)
       \/ ReadResponse(i) \/ Timeout(i) \/ Receiver(i)
  \/ Window \/ SenderCrash \/ ReceiverCrash

Spec == Init /\ [][Next]_vars

\* Only of the receiver: that the sender stops waiting is no answer.
FairSpec == Spec /\ \A i \in Request : WF_vars(Receiver(i))

----------------------------------------------------------------------------
SentAgain(i) == \E j \in Request : j # i /\ id[j] = id[i] /\ peer[j] # "idle"

(* A response that reaches the sender is the one prepared for its operation: *)
(* an ACK means that the receiver did what was asked (stored the data set,   *)
(* found the triples), although another stream's handler may have written it. *)
AckMeansHandled == \A i \in Request : peer[i] = "ACK" => id[i] \in prepared

(* A session outlives the commands of its operation only after an error: a   *)
(* refusal or NACK that could not be written, a store request out of         *)
(* retries; or for a finality request.                                       *)
SessionsAreRemoved ==
  \A o \in Ids :
    sessions[o] # None =>
      \E i \in Request : id[i] = o /\ stage[i] \notin {"unread", "refused", "done", "lost"}

(* A request that is not sent again is answered, or its sender is no longer  *)
(* there; but not a store request that failed as often as it may be retried, *)
(* one whose answer could not be written, and a finality request.            *)
RequestsAreAnswered ==
  \A i \in Request :
    (stage[i] = "queued") ~>
      (stream[i] \in {"answered", "broken"} \/ stage[i] \in {"abandoned", "thrown", "unanswered"} \/ SentAgain(i))

=============================================================================
