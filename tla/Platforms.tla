------------------------------ MODULE Platforms ------------------------------
(***************************************************************************)
(* The platform adapters side by side: node (module NodeHttp), Bun, AWS    *)
(* Lambda, Google Cloud Functions, Cloudflare and Vercel, and the Vercel   *)
(* handler behind its development server on node.                          *)
(*                                                                         *)
(* All but node's are one async function: read the body, dispatch, reply.  *)
(* Their reply is over when it returns, because every runtime copies the   *)
(* bytes of a response (or, on AWS, refuses binary ones), so a pooled      *)
(* buffer goes back within the step.  They differ in who catches what is   *)
(* thrown where; the server or platform that calls the function is         *)
(* external.                                                               *)
(***************************************************************************)
EXTENDS NodeHttp

CONSTANT Served  \* the platforms to look at

ASSUME ServedAssumption ==
  Served \subseteq {"node", "bun", "aws", "gcloud", "cloudflare", "vercel", "vercelDev"}

VARIABLES
  platform,  \* which of them this process is
  outcome    \* request -> what became of the handler's promise

platformVars == <<allVars, platform, outcome>>

\* reading, dispatching, replied (with the chain's response), failed (answered
\* with an error of the adapter) and rejected (the caller is left to answer)
PlatformInit ==
  /\ HttpInit
  /\ platform \in Served
  /\ outcome = [r \in Requests |-> "reading"]

\* an error outside the try block is caught by Bun's error() and by the listener
\* of the development server, and by nobody else
OutsideCaught == platform \in {"bun", "vercelDev"}

\* express: the response object is the platform's, and a raw middleFn can end it
SharesResponse == platform = "gcloud"

Becomes(r, what) == outcome' = [outcome EXCEPT ![r] = what]

\* a response is handed to the runtime
Hands(r, what) == Ends(r, [http[r] EXCEPT !.awaiting = FALSE]) /\ Becomes(r, what)

\* nothing is
HandsNothing(r) ==
  /\ http' = [http EXCEPT ![r].awaiting = FALSE]
  /\ Becomes(r, "rejected")
  /\ UNCHANGED sealed

\* fatalFail, unexpectedFail and the catch blocks: an answer of the adapter's own,
\* unless the headers have been sent, when getRouterFatalErrorResponse throws
Fail(r) == IF SharesResponse /\ WritableEnded(r) THEN HandsNothing(r) ELSE Hands(r, "failed")
-----------------------------------------------------------------------------
\* the body can not be read (bun, Cloudflare, Vercel) or the ?data= query not be
\* decoded: both are awaited or called before the try block
Unreadable(r) ==
  /\ outcome[r] = "reading"
  /\ IF OutsideCaught THEN Hands(r, "failed") ELSE HandsNothing(r)
  /\ UNCHANGED <<pool, ctx, heap, errorsOf, header, call, lent>>

\* the body and the query were read: dispatchRoute is called
Dispatches(r) ==
  /\ outcome[r] = "reading"
  /\ Acquire(r)
  /\ http' = [http EXCEPT ![r].request = "ended", ![r].awaiting = TRUE]
  /\ Becomes(r, "dispatching")
  /\ UNCHANGED lent

\* the chain goes on, and a raw middleFn may answer where it is given the response
Works(r) ==
  /\ outcome[r] = "dispatching"
  /\ Run(r) \/ (SharesResponse /\ HandlerEnds(r))
  /\ UNCHANGED outcome

\* reply() throws: the headers have been sent, or there is no binary body to copy or
\* no way to return one
MustFail(r) ==
  \/ SharesResponse /\ WritableEnded(r)
  \/ Response(r).serializer = "binary" /\ (Response(r).bin = None \/ platform = "aws")

\* it may throw as well when JSON does not take the body
MayFail(r) ==
  \/ MustFail(r)
  \/ Response(r).serializer = "json" /\ (Response(r).body # {} \/ Response(r).attached # None)

Resolves(r) == outcome[r] = "dispatching" /\ http[r].awaiting /\ Delivered(r)

\* fault: the buffer is kept for the garbage collector
KeepsBuffer(r) == UNCHANGED lent

\* releaseBinBuffer, once the bytes were copied
GivesBack(r) ==
  IF Response(r).serializer = "binary" /\ lent[r] # NoBuffer THEN Loan!Return(r) ELSE UNCHANGED lent

Replies(r) ==
  /\ Resolves(r) /\ ~MustFail(r)
  /\ Hands(r, "replied") /\ Consumed(r)
  /\ GivesBack(r)

\* reply() throws inside the try block
ReplyFails(r) ==
  /\ Resolves(r) /\ MayFail(r)
  /\ Fail(r) /\ Consumed(r)
  /\ UNCHANGED lent

\* fault: the rejection is passed on
RejectsToo(r) ==
  /\ outcome[r] = "dispatching" /\ http[r].awaiting /\ call[r].pc = "rejected"
  /\ HandsNothing(r)
  /\ UNCHANGED <<pool, ctx, heap, errorsOf, header, call, lent>>

DispatchFails(r) ==
  /\ outcome[r] = "dispatching" /\ http[r].awaiting /\ call[r].pc = "rejected"
  /\ Fail(r)
  /\ UNCHANGED <<pool, ctx, heap, errorsOf, header, call, lent>>

\* a buffer no reply gave back is garbage once the handler is over
Dropped(r) ==
  /\ outcome[r] \in {"failed", "rejected"} /\ lent[r] # NoBuffer
  /\ Loan!Return(r)
  /\ UNCHANGED <<vars, http, outcome>>

Handles(r) ==
  Unreadable(r) \/ Dispatches(r) \/ Works(r) \/ Replies(r) \/ ReplyFails(r) \/ DispatchFails(r) \/ Dropped(r)

Over ==
  /\ \A r \in Requests : outcome[r] \in {"replied", "failed", "rejected"} /\ ~http[r].awaiting
  /\ UNCHANGED platformVars

PlatformNext ==
  /\ UNCHANGED platform
  /\ \/ platform = "node" /\ HttpNext /\ UNCHANGED outcome
     \/ platform # "node" /\ ((\E r \in Requests : Handles(r)) \/ Over)

PlatformSpec == PlatformInit /\ [][PlatformNext]_platformVars

Goes(r) == Works(r) \/ Replies(r) \/ ReplyFails(r) \/ DispatchFails(r)

\* node as in NodeHttp; elsewhere an async function goes on once it has dispatched,
\* and clients owe nothing
PlatformFairness ==
  \A r \in Requests :
    /\ WF_platformVars(platform = "node" /\ Run(r) /\ UNCHANGED <<platform, outcome>>)
    /\ WF_platformVars(platform = "node" /\ Resume(r) /\ UNCHANGED <<platform, outcome>>)
    /\ WF_platformVars(/\ platform = "node" /\ WritableEnded(r) /\ (Finish(r) \/ Close(r))
                       /\ UNCHANGED <<platform, outcome>>)
    /\ WF_platformVars(platform # "node" /\ Goes(r) /\ UNCHANGED platform)

PlatformFairSpec == PlatformSpec /\ PlatformFairness
-----------------------------------------------------------------------------
PlatformTypeOK ==
  /\ HttpTypeOK
  /\ platform \in Served
  /\ outcome \in [Requests -> {"reading", "dispatching", "replied", "failed", "rejected"}]

\* Outside node an adapter leaves its caller without an answer only where nothing
\* was dispatched, or where a raw middleFn had ended the response: whatever fails
\* later, in the chain or in reply(), is answered by the adapter itself.
RejectsOnlyUnread ==
  \A r \in Requests : outcome[r] = "rejected" =>
    /\ platform \notin {"bun", "vercelDev"}
    /\ call[r].pc = "new" \/ (SharesResponse /\ WritableEnded(r))

\* Where bytes are copied a pooled buffer is back as soon as the reply is made.
BufferBackOnReply == \A r \in Requests : outcome[r] = "replied" => lent[r] = NoBuffer

\* On every platform a pooled buffer comes back in the end, at once where its bytes
\* are copied (bunHttp.ts:181-192, googleCF.ts:118-126, mionHttp.ts:205-231).
BuffersComeBack == []BufferBackOnReply /\ BufferComesBack

\* A request is answered once: not twice, however its events race, and it is only
\* left to the platform's own error answer where the chain never ran, or where the
\* response was ended by somebody else (mionHttp.ts:94-181 and its counterparts).
AnsweredOnce == PlatformTypeOK /\ OneAnswer /\ RejectedForCause /\ RejectsOnlyUnread

\* No error of a method is lost or blurred on its way out: flag, status and errors
\* agree, the header stays the first error's, and what was thrown before the
\* serializer ran is in the answer (dispatchError.ts:29-70, serializer.routes.ts:75-95).
ErrorsAccountedFor == []ErrorsAgree /\ []EarlyErrorsReturned /\ FirstErrorKeepsHeader

\* Every adapter does to dispatch what Dispatch supposes of its platform.
PlatformsImplementDispatch == Spec
=============================================================================
