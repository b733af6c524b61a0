------------------------------ MODULE NodeHttp ------------------------------
(***************************************************************************)
(* The node http adapter (platform-node/src/mionHttp.ts) around Dispatch:  *)
(* one request's events, the reply, and the life of the pooled buffer a    *)
(* binary response is written from.                                        *)
(*                                                                         *)
(* node's streams are external: a request emits 'data' and then 'end' or   *)
(* 'error'; a response emits 'finish' once its last byte is handed to the  *)
(* socket and 'close' once the socket is gone, which a client may cause at *)
(* any time.  The buffer pool is used through what it promises             *)
(* (ExclusiveLoan, which BufferPool implements).                           *)
(***************************************************************************)
EXTENDS Dispatch

CONSTANTS Buffers, NoBuffer

ASSUME NoBufferAssumption == NoBuffer \notin Buffers

VARIABLES
  http,  \* request -> the closure of httpRequestHandler and the two streams
  lent   \* request -> the buffer releaseBinBuffer would hand back

allVars == <<vars, http, lent>>

Loan == INSTANCE ExclusiveLoan WITH Borrowers <- Requests, Nothing <- NoBuffer

\* fault: the count of end() calls starts too low
MiscountedOpen ==
  [request |-> "receiving", awaiting |-> FALSE, replied |-> FALSE, ends |-> -1, finished |-> FALSE,
   closed |-> FALSE, onDone |-> FALSE, sending |-> NoBuffer]

Opened ==
  [request |-> "receiving",  \* receiving, ended or failed
   awaiting |-> FALSE,       \* 'end' is suspended in `await dispatchRoute`
   replied |-> FALSE,        \* the handler's `replied` flag
   ends |-> 0,               \* calls of httpResponse.end; writableEnded after the first
   finished |-> FALSE,       \* 'finish' was emitted
   closed |-> FALSE,         \* 'close' was emitted
   onDone |-> FALSE,         \* releaseBuffer listens to 'finish' and 'close'
   sending |-> NoBuffer]     \* the buffer node still reads the payload from

WritableEnded(r) == http[r].ends > 0

HttpInit ==
  /\ Init
  /\ http = [r \in Requests |-> Opened]
  /\ Loan!LoanInit
-----------------------------------------------------------------------------
\* httpResponse.end: the headers are sent, and no end() may follow
Ends(r, h) == /\ http' = [http EXCEPT ![r] = [h EXCEPT !.ends = @ + 1]]
              /\ sealed' = sealed \cup {r}

\* fatalFail: a no-op once the response has been ended
FatalFail(r, h) ==
  IF WritableEnded(r) THEN http' = [http EXCEPT ![r] = h] /\ UNCHANGED sealed
                      ELSE Ends(r, h)

AnswerByAdapter(r, h) ==
  /\ FatalFail(r, [h EXCEPT !.replied = TRUE])
  /\ UNCHANGED <<pool, ctx, heap, errorsOf, header, call, lent>>

\* 'data' that takes the body over maxBodySize
PayloadTooLarge(r) ==
  /\ http[r].request = "receiving" /\ ~http[r].replied
  /\ AnswerByAdapter(r, http[r])

\* 'error' on the request
RequestError(r) ==
  /\ http[r].request = "receiving"
  /\ IF http[r].replied
       THEN /\ http' = [http EXCEPT ![r].request = "failed"]
            /\ UNCHANGED <<vars, lent>>
       ELSE AnswerByAdapter(r, [http[r] EXCEPT !.request = "failed"])

\* 'error' on the response, for instance a write after the socket is gone
ResponseError(r) ==
  /\ ~http[r].replied
  /\ AnswerByAdapter(r, http[r])

\* 'end' on the request: nothing if a reply was already made, else dispatchRoute
RequestEnd(r) ==
  /\ http[r].request = "receiving"
  /\ IF http[r].replied
       THEN /\ http' = [http EXCEPT ![r].request = "ended"]
            /\ UNCHANGED <<vars, lent>>
       ELSE /\ Acquire(r)
            /\ http' = [http EXCEPT ![r].request = "ended", ![r].awaiting = TRUE]
            /\ UNCHANGED lent

\* 'end' with a ?data= query that can not be decoded: decodeQueryBody throws outside
\* the try block, so nothing is dispatched and this closure does nothing more
QueryUnreadable(r) ==
  /\ http[r].request = "receiving" /\ ~http[r].replied
  /\ http' = [http EXCEPT ![r].request = "ended"]
  /\ UNCHANGED <<vars, lent>>

\* One step of the chain.  A binary body that was serialized comes with a
\* borrowed buffer, held by the response's releaseBinBuffer.
Run(r) ==
  /\ CallMethod(r) \/ Settle(r) \/ Complete(r)
  /\ IF InFlight(r) /\ Response(r).bin = None /\ heap'[call[r].resp].bin # None
       THEN \E b \in New({x \in Buffers : \A q \in Requests : lent[q] # x}) : Loan!Lend(r, b)
       ELSE UNCHANGED lent
  /\ UNCHANGED http

\* A raw middleFn answers the request itself.
HandlerEnds(r) ==
  /\ call[r].pc = "awaiting" /\ Current(r).kind = "handler" /\ ~WritableEnded(r)
  /\ Ends(r, http[r])
  /\ UNCHANGED <<pool, ctx, heap, errorsOf, header, call, lent>>
-----------------------------------------------------------------------------
Resumed(r) == [http[r] EXCEPT !.awaiting = FALSE]

\* fault: the response is emptied as soon as it was answered with
ConsumedAndEmptied(r) ==
  /\ call' = [call EXCEPT ![r].pc = "replied", ![r].resp = None]
  /\ heap' = [heap EXCEPT ![call[r].resp].body = {}]
  /\ UNCHANGED <<pool, ctx, errorsOf, header>>

\* the response dispatchRoute returned is dropped by the adapter
Consumed(r) ==
  /\ call' = [call EXCEPT ![r].pc = "replied", ![r].resp = None]
  /\ UNCHANGED <<pool, ctx, heap, errorsOf, header>>

\* fault: a response ended by a handler is not noticed
RepliedOnly(r) == http[r].replied

\* `if (replied || httpResponse.writableEnded) return`
AlreadyAnswered(r) == http[r].replied \/ WritableEnded(r)

ResolvedTooLate(r) ==
  /\ Delivered(r) /\ http[r].awaiting /\ AlreadyAnswered(r)
  /\ http' = [http EXCEPT ![r] = Resumed(r)]
  /\ Consumed(r)
  /\ UNCHANGED <<sealed, lent>>

ReplyJson(r) ==
  /\ Delivered(r) /\ http[r].awaiting /\ ~AlreadyAnswered(r)
  /\ Response(r).serializer # "binary"
  /\ Ends(r, [Resumed(r) EXCEPT !.replied = TRUE])
  /\ Consumed(r)
  /\ UNCHANGED lent

\* fault: the buffer is handed back as soon as end() returns
ReplyBinaryAndRelease(r) ==
  /\ Delivered(r) /\ http[r].awaiting /\ ~AlreadyAnswered(r)
  /\ Response(r).serializer = "binary" /\ Response(r).bin # None
  /\ Ends(r, [Resumed(r) EXCEPT !.replied = TRUE,
                !.sending = IF http[r].closed THEN NoBuffer ELSE lent[r]])
  /\ Consumed(r)
  /\ Loan!Return(r)

\* end(view): on an open socket node keeps reading the view, and 'finish' and
\* 'close' give the buffer back; on a closed one neither comes any more
ReplyBinary(r) ==
  /\ Delivered(r) /\ http[r].awaiting /\ ~AlreadyAnswered(r)
  /\ Response(r).serializer = "binary" /\ Response(r).bin # None
  /\ Ends(r, [Resumed(r) EXCEPT !.replied = TRUE, !.onDone = TRUE,
                !.sending = IF http[r].closed THEN NoBuffer ELSE lent[r]])
  /\ Consumed(r)
  /\ UNCHANGED lent

\* reply() throws: no binSerializer, or JSON.stringify fails on the body.  The
\* catch block finds `replied` set already and returns.
ReplyThrows(r) ==
  /\ Delivered(r) /\ http[r].awaiting /\ ~AlreadyAnswered(r)
  /\ \/ Response(r).serializer = "binary" /\ Response(r).bin = None
     \/ Response(r).serializer = "json" /\ (Response(r).body # {} \/ Response(r).attached # None)
  /\ http' = [http EXCEPT ![r] = [Resumed(r) EXCEPT !.replied = TRUE]]
  /\ Consumed(r)
  /\ UNCHANGED <<sealed, lent>>

\* fault: a rejection is swallowed
RejectionDropped(r) ==
  /\ call[r].pc = "rejected" /\ http[r].awaiting
  /\ http' = [http EXCEPT ![r] = Resumed(r)]
  /\ UNCHANGED <<vars, lent>>

\* dispatchRoute rejected
DispatchRejected(r) ==
  /\ call[r].pc = "rejected" /\ http[r].awaiting
  /\ IF http[r].replied
       THEN http' = [http EXCEPT ![r] = Resumed(r)] /\ UNCHANGED sealed
       ELSE FatalFail(r, [Resumed(r) EXCEPT !.replied = TRUE])
  /\ UNCHANGED <<pool, ctx, heap, errorsOf, header, call, lent>>

\* fault: no listener gives the buffer back
ReleaseNever(r) == UNCHANGED lent

\* releaseBuffer, on 'finish' and on 'close': idempotent
ReleaseBuffer(r) ==
  IF http[r].onDone /\ lent[r] # NoBuffer THEN Loan!Return(r) ELSE UNCHANGED lent

\* the socket has taken the last byte
Finish(r) ==
  /\ WritableEnded(r) /\ ~http[r].finished /\ ~http[r].closed
  /\ http' = [http EXCEPT ![r].finished = TRUE, ![r].sending = NoBuffer]
  /\ ReleaseBuffer(r)
  /\ UNCHANGED vars

\* the socket is gone, after 'finish' or because the client left
Close(r) ==
  /\ ~http[r].closed
  /\ http' = [http EXCEPT ![r].closed = TRUE, ![r].sending = NoBuffer]
  /\ ReleaseBuffer(r)
  /\ UNCHANGED vars

\* nothing refers to the response any more: a buffer it still borrows is garbage
Collect(r) ==
  /\ lent[r] # NoBuffer /\ http[r].closed /\ ~http[r].awaiting
  /\ Loan!Return(r)
  /\ UNCHANGED <<vars, http>>

Resume(r) ==
  ResolvedTooLate(r) \/ ReplyJson(r) \/ ReplyBinary(r) \/ ReplyThrows(r) \/ DispatchRejected(r)

\* every request is over: no event can come any more
AllOver ==
  /\ \A r \in Requests : http[r].closed /\ ~http[r].awaiting /\ http[r].request # "receiving"
  /\ UNCHANGED allVars

HttpNext ==
  \/ \E r \in Requests :
       \/ PayloadTooLarge(r) \/ RequestError(r) \/ RequestEnd(r) \/ QueryUnreadable(r)
       \/ ResponseError(r)
       \/ Run(r) \/ HandlerEnds(r) \/ Resume(r)
       \/ Finish(r) \/ Close(r) \/ Collect(r)
  \/ AllOver

HttpSpec == HttpInit /\ [][HttpNext]_allVars

\* Handlers settle, the event loop runs what is ready, and a response that was
\* ended is flushed or its socket goes away.  Clients owe nothing.
Fairness ==
  \A r \in Requests :
    /\ WF_allVars(Run(r))
    /\ WF_allVars(Resume(r))
    /\ WF_allVars(WritableEnded(r) /\ (Finish(r) \/ Close(r)))

FairSpec == HttpSpec /\ Fairness
-----------------------------------------------------------------------------
HttpTypeOK ==
  /\ lent \in [Requests -> Buffers \cup {NoBuffer}]
  /\ \A r \in Requests :
       /\ http[r].request \in {"receiving", "ended", "failed"}
       /\ {http[r].awaiting, http[r].replied, http[r].finished, http[r].closed, http[r].onDone}
            \subseteq BOOLEAN
       /\ http[r].ends \in Nat
       /\ http[r].sending \in Buffers \cup {NoBuffer}

\* However its events interleave, a response is ended at most once: too large a
\* body, either stream's error, the handler and the reply all race for it.
OneAnswer == \A r \in Requests : http[r].ends <= 1

\* A payload node is still sending stays in a buffer borrowed for this response:
\* nobody else writes it before 'finish' or 'close' (mionHttp.ts reply, the
\* comment "the buffer only goes back once the response is done").
SendingFromOwnBuffer ==
  \A r \in Requests : http[r].sending # NoBuffer =>
    /\ lent[r] = http[r].sending
    /\ \A q \in Requests \ {r} : lent[q] # http[r].sending

\* Whatever two requests do between their awaits, neither reads or writes what the
\* other one uses: context, response, errors, headers, pooled bytes
\* (callContext.ts:84-150, mionHttp.ts:205-231).
NothingShared == TypeOK /\ HttpTypeOK /\ NoCrossTalk /\ SendingFromOwnBuffer

\* A response handed to node gives its buffer back in the end.
BufferComesBack == \A r \in Requests : http[r].sending # NoBuffer ~> lent[r] = NoBuffer

\* reply() was entered and threw before it ended the response
ReplyThrew(r) == http[r].replied /\ ~http[r].awaiting /\ ~WritableEnded(r)

\* The one way a dispatched request stays without an answer is a reply() that
\* throws: a rejected dispatch, a chain that fails at any method or another event
\* that wins the race never silences it.
SilentOnlyAfterThrow ==
  \A r \in Requests : http[r].awaiting ~> WritableEnded(r) \/ http[r].closed \/ ReplyThrew(r)
=============================================================================
