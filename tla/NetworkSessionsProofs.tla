------------------------ MODULE NetworkSessionsProofs ------------------------
(***************************************************************************)
(* Proofs about the sessions of the network module, for every number of    *)
(* requests, assignment of operation ids, limit, and number of faults.     *)
(***************************************************************************)
EXTENDS NetworkSessions, TLAPS

USE SessionsAssumption

-----------------------------------------------------------------------------
(* Types                                                                   *)

\* What the two ends read of a response is set before it: an answered stream holds
\* a message, a prepared handler has one.
ResponsesAreThere ==
  \A i \in Request :
    /\ stream[i] = "answered" => written[i] # "none"
    /\ stage[i] = "prepared" => message[i] # "none"

TypeInv == SessionsTypeOK /\ ResponsesAreThere

\* Every step of the sender, of the receiver and of the limiters keeps every
\* variable in its set.
LEMMA TypeStep ==
  ASSUME TypeInv, [Next]_vars
  PROVE  SessionsTypeOK'
<1> USE DEF TypeInv, SessionsTypeOK, receiver, limiter, Faulty, Stage, SetStatus, Request
<1>1. ASSUME NEW i \in Request, SendMessage(i)
      PROVE  SessionsTypeOK'
  <2>1. UNCHANGED <<id, written, receiver, limiter>>
    BY <1>1 DEF SendMessage
  <2>2. peer' \in [Request -> {"idle", "waiting", "gone"} \cup Responses]
    <3>1. \E p \in {"waiting", "gone"} \cup Responses : peer' = [peer EXCEPT ![i] = p]
      BY <1>1 DEF SendMessage, Responses
    <3> QED
      BY <3>1
  <2>3. stream' \in [Request -> {"none", "open", "answered", "broken", "closed"}]
    BY <1>1 DEF SendMessage
  <2>4. faults' \in 0..MaxFaults
    BY <1>1 DEF SendMessage
  <2> QED
    BY <2>1, <2>2, <2>3, <2>4
<1>2. ASSUME NEW i \in Request, ReadResponse(i)
      PROVE  SessionsTypeOK'
  <2>1. stream[i] = "answered" => written[i] \in Responses
    BY DEF ResponsesAreThere
  <2> QED
    BY <1>2, <2>1 DEF ReadResponse, Responses
<1>3. ASSUME NEW i \in Request, Timeout(i)
      PROVE  SessionsTypeOK'
  BY <1>3 DEF Timeout, Responses
<1>4. CASE SenderCrash \/ ReceiverCrash \/ Window
  <2>1. CASE SenderCrash
    BY <2>1 DEF SenderCrash, Ended
  <2>2. CASE ReceiverCrash
    BY <2>2 DEF ReceiverCrash, None, Ended
  <2>3. CASE Window
    BY <2>3 DEF Window
  <2> QED
    BY <1>4, <2>1, <2>2, <2>3
<1>5. ASSUME NEW i \in Request, AcceptMessage(i) \/ RefuseMessage(i)
      PROVE  SessionsTypeOK'
  <2>1. recent' \in Nat /\ blackList' \in 0..BlackListTime
    BY <1>5 DEF AcceptMessage, RefuseMessage, LimitRequest
  <2>2. sessions' = [sessions EXCEPT ![id[i]] = i]
    BY <1>5 DEF AcceptMessage, RefuseMessage, UpdateSessionStream
  <2>3. sessions' \in [Ids -> Request \cup {None}]
    BY <2>2
  <2>4. faults' \in 0..MaxFaults
    BY <1>5 DEF AcceptMessage, RefuseMessage
  <2>5. CASE AcceptMessage(i)
    BY <2>5, <2>1, <2>3, <2>4 DEF AcceptMessage
  <2>6. CASE RefuseMessage(i)
    BY <2>6, <2>1, <2>3, <2>4 DEF RefuseMessage, Responses
  <2> QED
    BY <1>5, <2>5, <2>6
<1>6. ASSUME NEW i \in Request, RefusalFails(i) \/ HandleFinalityRequest(i)
      PROVE  SessionsTypeOK'
  <2>1. CASE RefusalFails(i)
    BY <2>1 DEF RefusalFails, Ended
  <2>2. CASE HandleFinalityRequest(i)
    BY <2>2 DEF HandleFinalityRequest, Ended
  <2> QED
    BY <1>6, <2>1, <2>2
<1>7. ASSUME NEW i \in Request, Refused(i) \/ Finish(i)
      PROVE  SessionsTypeOK'
  <2>1. sessions' \in [Ids -> Request \cup {None}]
    BY <1>7 DEF Refused, Finish, RemoveCachedSession
  <2>2. stream' \in [Request -> {"none", "open", "answered", "broken", "closed"}]
    BY <1>7 DEF Refused, Finish, RemoveCachedSession
  <2>3. CASE Refused(i)
    BY <2>1, <2>2, <2>3 DEF Refused, Ended
  <2>4. CASE Finish(i)
    BY <2>1, <2>2, <2>4 DEF Finish, Ended
  <2> QED
    BY <1>7, <2>3, <2>4
<1>8. ASSUME NEW i \in Request, NEW ok \in BOOLEAN, PrepareMessage(i, ok)
      PROVE  SessionsTypeOK'
  BY <1>8 DEF PrepareMessage, Responses
<1>9. ASSUME NEW i \in Request, PrepareFails(i) \/ SendFails(i)
      PROVE  SessionsTypeOK'
  <2>1. faults' \in 0..MaxFaults
    <3>1. faults' = faults \/ Faulty
      BY <1>9 DEF PrepareFails, SendFails, WriteFails
    <3> QED
      BY <3>1
  <2>2. stage' \in [Request -> {"unread", "refusing", "queued", "prepared", "failing", "sent"} \cup Ended]
    <3>1. \E s \in {"queued", "failing", "sent"} \cup Ended : Stage(i, s)
      BY <1>9 DEF PrepareFails, SendFails, Catch, Ended
    <3> QED
      BY <3>1
  <2>3. Catch(i)
    BY <1>9 DEF PrepareFails, SendFails
  <2>4. retries' \in [Request -> 0..StoreRetries]
    <3>1. \/ retries' = retries
          \/ retries[i] > 1 /\ retries' = [retries EXCEPT ![i] = @ - 1]
      BY <2>3 DEF Catch
    <3> QED
      BY <3>1
  <2>5. idStatus' \in [Ids -> {"none", "START", "END", "FAILED"}]
    BY <2>3 DEF Catch
  <2>6. CASE PrepareFails(i)
    BY <2>1, <2>2, <2>4, <2>5, <2>6 DEF PrepareFails
  <2>7. CASE SendFails(i)
    BY <2>1, <2>2, <2>4, <2>5, <2>7 DEF SendFails
  <2> QED
    BY <1>9, <2>6, <2>7
<1>10. ASSUME NEW i \in Request, HandleErrorFails(i)
       PROVE  SessionsTypeOK'
  BY <1>10 DEF HandleErrorFails, WriteFails, Ended
<1>11. ASSUME NEW i \in Request, NEW m \in Responses, NEW s \in Request \cup {None}, Write(s, m)
       PROVE  /\ stream' \in [Request -> {"none", "open", "answered", "broken", "closed"}]
              /\ written' \in [Request -> Responses \cup {"none"}]
  BY <1>11 DEF Write, None
<1>12. ASSUME NEW i \in Request, SendMessageResponse(i) \/ HandleError(i)
       PROVE  SessionsTypeOK'
  <2>1. PICK m \in Responses : Write(GetSessionStream(id[i]), m)
    BY <1>12 DEF SendMessageResponse, HandleError, ResponsesAreThere, Responses
  <2>2. /\ stream' \in [Request -> {"none", "open", "answered", "broken", "closed"}]
        /\ written' \in [Request -> Responses \cup {"none"}]
    BY <2>1, <1>11 DEF GetSessionStream
  <2>3. CASE SendMessageResponse(i)
    BY <2>2, <2>3 DEF SendMessageResponse
  <2>4. CASE HandleError(i)
    BY <2>2, <2>4 DEF HandleError
  <2> QED
    BY <1>12, <2>3, <2>4
<1>13. CASE UNCHANGED vars
  BY <1>13 DEF vars
<1> QED
  BY <1>1, <1>2, <1>3, <1>4, <1>5, <1>6, <1>7, <1>8, <1>9, <1>10, <1>12, <1>13
  DEF Next, Receiver, HandleStoreRequest, HandleGetRequest, HandleAskRequest

\* Only a prepared response, or a NACK, is written into a stream.
LEMMA ResponsesStep ==
  ASSUME TypeInv, [Next]_vars
  PROVE  ResponsesAreThere'
<1> USE DEF TypeInv, SessionsTypeOK, ResponsesAreThere, receiver, limiter, Stage
<1>1. ASSUME NEW i \in Request, SendMessage(i) \/ ReadResponse(i) \/ Timeout(i)
      PROVE  ResponsesAreThere'
  BY <1>1 DEF SendMessage, ReadResponse, Timeout
<1>2. CASE SenderCrash \/ ReceiverCrash \/ Window
  BY <1>2 DEF SenderCrash, ReceiverCrash, Window
<1>3. ASSUME NEW i \in Request, AcceptMessage(i) \/ RefuseMessage(i) \/ RefusalFails(i)
      PROVE  ResponsesAreThere'
  BY <1>3 DEF AcceptMessage, RefuseMessage, RefusalFails
<1>4. ASSUME NEW i \in Request, Refused(i) \/ Finish(i)
      PROVE  ResponsesAreThere'
  BY <1>4 DEF Refused, Finish, RemoveCachedSession
<1>5. ASSUME NEW i \in Request, NEW ok \in BOOLEAN, PrepareMessage(i, ok)
      PROVE  ResponsesAreThere'
  BY <1>5 DEF PrepareMessage
<1>6. ASSUME NEW i \in Request, HandleFinalityRequest(i) \/ HandleErrorFails(i)
      PROVE  ResponsesAreThere'
  BY <1>6 DEF HandleFinalityRequest, HandleErrorFails
<1>7. ASSUME NEW i \in Request, PrepareFails(i) \/ SendFails(i)
      PROVE  ResponsesAreThere'
  BY <1>7 DEF PrepareFails, SendFails, Catch
<1>8. ASSUME NEW i \in Request, SendMessageResponse(i)
      PROVE  ResponsesAreThere'
  BY <1>8 DEF SendMessageResponse, Write
<1>9. ASSUME NEW i \in Request, HandleError(i)
      PROVE  ResponsesAreThere'
  BY <1>9 DEF HandleError, Write
<1>10. CASE UNCHANGED vars
  BY <1>10 DEF vars
<1> QED
  BY <1>1, <1>2, <1>3, <1>4, <1>5, <1>6, <1>7, <1>8, <1>9, <1>10
  DEF Next, Receiver, HandleStoreRequest, HandleGetRequest, HandleAskRequest

\* Before any request nothing is prepared, answered or cached.
LEMMA TypeInit == Init => TypeInv
<1>1. ASSUME Init
      PROVE  SessionsTypeOK
  BY <1>1 DEF Init, SessionsTypeOK, None, Ids, Responses, Ended
<1>2. ASSUME Init
      PROVE  ResponsesAreThere
  BY <1>2 DEF Init, ResponsesAreThere
<1> QED
  BY <1>1, <1>2 DEF TypeInv

\* The variables hold what they may in every state of the two peers.
THEOREM SessionsTypeCorrect == Spec => [](SessionsTypeOK /\ ResponsesAreThere)
<1>1. Init => TypeInv
  BY TypeInit
<1>2. TypeInv /\ [Next]_vars => TypeInv'
  BY TypeStep, ResponsesStep DEF TypeInv
<1>3. TypeInv => SessionsTypeOK /\ ResponsesAreThere
  BY DEF TypeInv
<1> QED
  BY <1>1, <1>2, <1>3, PTL DEF Spec

-----------------------------------------------------------------------------
(* What an ACK means                                                       *)

\* The session of an operation id holds a stream of a request with that id, so
\* whatever a handler writes there is about the operation the stream is of.
SessionsByOperation ==
  \A o \in Ids : sessions[o] # None => id[sessions[o]] = o

\* Every place an ACK passes on its way from the handler to the sender.
AcksAreHandled ==
  \A i \in Request :
    (message[i] = "ACK" \/ written[i] = "ACK" \/ peer[i] = "ACK") => id[i] \in prepared

HandledInv == TypeInv /\ SessionsByOperation /\ AcksAreHandled

\* An accepted or refused request takes the session of its own operation id.
LEMMA SessionsByOperationStep ==
  ASSUME HandledInv, [Next]_vars
  PROVE  SessionsByOperation' /\ id' = id
<1> USE DEF HandledInv, TypeInv, SessionsTypeOK, SessionsByOperation, receiver, limiter
<1>1. ASSUME NEW i \in Request, AcceptMessage(i) \/ RefuseMessage(i)
      PROVE  SessionsByOperation' /\ id' = id
  BY <1>1 DEF AcceptMessage, RefuseMessage, UpdateSessionStream
<1>2. ASSUME NEW i \in Request, Refused(i) \/ Finish(i)
      PROVE  SessionsByOperation' /\ id' = id
  BY <1>2 DEF Refused, Finish, RemoveCachedSession
<1>3. CASE ReceiverCrash
  BY <1>3 DEF ReceiverCrash
<1>4. CASE UNCHANGED <<id, sessions>>
  BY <1>4
<1>5. [Next]_vars => \/ \E i \in Request : AcceptMessage(i) \/ RefuseMessage(i) \/ Refused(i) \/ Finish(i)
                     \/ ReceiverCrash \/ UNCHANGED <<id, sessions>>
  BY DEF Next, Receiver, vars, SendMessage, ReadResponse, Timeout, SenderCrash, Window, RefusalFails,
     PrepareFails, HandleStoreRequest, HandleGetRequest, HandleAskRequest, PrepareMessage,
     HandleFinalityRequest, SendMessageResponse, SendFails, HandleError, HandleErrorFails
<1> QED
  BY <1>1, <1>2, <1>3, <1>4, <1>5

\* An ACK is prepared together with the mark of its id, written as it was
\* prepared and read as it was written.
LEMMA AcksAreHandledStep ==
  ASSUME HandledInv, [Next]_vars
  PROVE  AcksAreHandled'
<1> USE DEF HandledInv, TypeInv, SessionsTypeOK, AcksAreHandled, receiver, limiter
<1>1. ASSUME NEW i \in Request, SendMessage(i) \/ Timeout(i)
      PROVE  AcksAreHandled'
  BY <1>1 DEF SendMessage, Timeout
<1>2. ASSUME NEW i \in Request, ReadResponse(i)
      PROVE  AcksAreHandled'
  BY <1>2 DEF ReadResponse
<1>3. CASE SenderCrash
  BY <1>3 DEF SenderCrash
<1>4. ASSUME NEW i \in Request, RefuseMessage(i)
      PROVE  AcksAreHandled'
  BY <1>4 DEF RefuseMessage
<1>5. ASSUME NEW i \in Request, NEW ok \in BOOLEAN, PrepareMessage(i, ok)
      PROVE  AcksAreHandled'
  BY <1>5 DEF PrepareMessage
<1>6. ASSUME NEW i \in Request, SendMessageResponse(i)
      PROVE  AcksAreHandled'
  <2> DEFINE s == sessions[id[i]]
  <2>1. s \in Request /\ id[s] = id[i]
    BY <1>6 DEF SendMessageResponse, Write, GetSessionStream, SessionsByOperation
  <2>2. \A j \in Request : written'[j] # written[j] => j = s /\ written'[j] = message[i]
    BY <1>6 DEF SendMessageResponse, Write, GetSessionStream
  <2>3. UNCHANGED <<id, peer, message, prepared>>
    BY <1>6 DEF SendMessageResponse
  <2> QED
    BY <2>1, <2>2, <2>3
<1>7. ASSUME NEW i \in Request, HandleError(i)
      PROVE  AcksAreHandled'
  <2>1. \A j \in Request : written'[j] # written[j] => written'[j] = "NACK"
    BY <1>7 DEF HandleError, Write, GetSessionStream
  <2>2. UNCHANGED <<id, peer, message, prepared>>
    BY <1>7 DEF HandleError
  <2> QED
    BY <2>1, <2>2
<1>8. CASE UNCHANGED <<id, peer, written, message, prepared>>
  BY <1>8
<1>9. [Next]_vars =>
        \/ \E i \in Request :
             \/ SendMessage(i) \/ Timeout(i) \/ ReadResponse(i) \/ RefuseMessage(i)
             \/ \E ok \in BOOLEAN : PrepareMessage(i, ok)
             \/ SendMessageResponse(i) \/ HandleError(i)
        \/ SenderCrash \/ UNCHANGED <<id, peer, written, message, prepared>>
  BY DEF Next, Receiver, vars, Window, ReceiverCrash, AcceptMessage, RefusalFails, Refused,
     PrepareFails, HandleStoreRequest, HandleGetRequest, HandleAskRequest,
     HandleFinalityRequest, SendFails, Finish, HandleErrorFails
<1> QED
  BY <1>1, <1>2, <1>3, <1>4, <1>5, <1>6, <1>7, <1>8, <1>9

\* An ACK that reaches the sender is one its operation's handler prepared, though
\* the command that answers takes whatever stream the session holds by then:
\* that of a request sent again after the sender crashed, for one.
THEOREM AcksCorrect == Spec => []AckMeansHandled
<1>1. Init => HandledInv
  <2>1. ASSUME Init
        PROVE  SessionsByOperation /\ AcksAreHandled
    BY <2>1 DEF Init, SessionsByOperation, AcksAreHandled
  <2> QED
    BY <2>1, TypeInit DEF HandledInv
<1>2. HandledInv /\ [Next]_vars => HandledInv'
  BY TypeStep, ResponsesStep, SessionsByOperationStep, AcksAreHandledStep DEF HandledInv, TypeInv
<1>3. HandledInv => AckMeansHandled
  BY DEF HandledInv, AcksAreHandled, AckMeansHandled
<1> QED
  BY <1>1, <1>2, <1>3, PTL DEF Spec

-----------------------------------------------------------------------------
(* What is left in the cache                                               *)

\* A request enters the session of its id when its handler takes over, and the
\* steps that end a handler in order remove the session they answered on.
LEMMA SessionsAreRemovedStep ==
  ASSUME TypeInv, SessionsAreRemoved, [Next]_vars
  PROVE  SessionsAreRemoved'
<1> USE DEF TypeInv, SessionsTypeOK, SessionsAreRemoved, receiver, limiter, Stage, Ended
<1>1. ASSUME NEW i \in Request, AcceptMessage(i) \/ RefuseMessage(i)
      PROVE  SessionsAreRemoved'
  <2>1. /\ id' = id /\ sessions' = [sessions EXCEPT ![id[i]] = i]
        /\ stage[i] = "unread" /\ stage'[i] \in {"queued", "refusing"}
        /\ \A j \in Request \ {i} : stage'[j] = stage[j]
    BY <1>1 DEF AcceptMessage, RefuseMessage, UpdateSessionStream, Arrived
  <2> QED
    BY <2>1
<1>2. ASSUME NEW i \in Request, Refused(i) \/ Finish(i)
      PROVE  SessionsAreRemoved'
  <2>1. /\ id' = id /\ sessions' = [sessions EXCEPT ![id[i]] = None]
        /\ \A j \in Request \ {i} : stage'[j] = stage[j]
    BY <1>2 DEF Refused, Finish, RemoveCachedSession
  <2> QED
    BY <2>1
<1>3. ASSUME NEW i \in Request, UNCHANGED <<id, sessions>>,
             stage'[i] \notin {"unread", "refused", "done", "lost"},
             \A j \in Request \ {i} : stage'[j] = stage[j]
      PROVE  SessionsAreRemoved'
  BY <1>3
<1>4. ASSUME NEW i \in Request,
             \/ RefusalFails(i) \/ PrepareFails(i) \/ HandleFinalityRequest(i)
             \/ SendMessageResponse(i) \/ SendFails(i) \/ HandleError(i) \/ HandleErrorFails(i)
             \/ \E ok \in BOOLEAN : PrepareMessage(i, ok)
      PROVE  SessionsAreRemoved'
  <2>1. /\ UNCHANGED <<id, sessions>>
        /\ stage'[i] \notin {"unread", "refused", "done", "lost"}
        /\ \A j \in Request \ {i} : stage'[j] = stage[j]
    BY <1>4 DEF RefusalFails, PrepareFails, HandleFinalityRequest, SendMessageResponse, SendFails,
                HandleError, HandleErrorFails, PrepareMessage, Catch
  <2> QED
    BY <2>1, <1>3
<1>5. CASE ReceiverCrash
  BY <1>5 DEF ReceiverCrash
<1>6. CASE UNCHANGED <<id, sessions, stage>>
  BY <1>6
<1>7. [Next]_vars =>
        \/ \E i \in Request :
             \/ AcceptMessage(i) \/ RefuseMessage(i) \/ Refused(i) \/ Finish(i)
             \/ RefusalFails(i) \/ PrepareFails(i) \/ HandleFinalityRequest(i)
             \/ SendMessageResponse(i) \/ SendFails(i) \/ HandleError(i) \/ HandleErrorFails(i)
             \/ \E ok \in BOOLEAN : PrepareMessage(i, ok)
        \/ ReceiverCrash \/ UNCHANGED <<id, sessions, stage>>
  BY DEF Next, Receiver, vars, SendMessage, ReadResponse, Timeout, SenderCrash, Window,
     HandleStoreRequest, HandleGetRequest, HandleAskRequest
<1> QED
  BY <1>1, <1>2, <1>4, <1>5, <1>6, <1>7

\* A session is found in the cache only while a request of its operation is being
\* handled, or after one whose handler ended in an error or answers nothing: the
\* command that answers and the refusal of a request remove it, a restart clears all.
THEOREM SessionsRemovedCorrect == Spec => []SessionsAreRemoved
<1>1. Init => TypeInv /\ SessionsAreRemoved
  <2>1. Init => SessionsAreRemoved
    BY DEF Init, SessionsAreRemoved
  <2> QED
    BY <2>1, TypeInit
<1>2. TypeInv /\ SessionsAreRemoved /\ [Next]_vars => (TypeInv /\ SessionsAreRemoved)'
  BY TypeStep, ResponsesStep, SessionsAreRemovedStep DEF TypeInv
<1> QED
  BY <1>1, <1>2, PTL DEF Spec
=============================================================================
