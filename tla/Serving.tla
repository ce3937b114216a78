------------------------------- MODULE Serving -------------------------------
(***************************************************************************)
(* A server carries out requests: AppNSHandlerImpl in the worker threads   *)
(* of its network server, the service functions of the application with    *)
(* tpreturn, the typed buffers they answer with, which are freed when the  *)
(* reply has been written, and what tpcall makes of the reply.             *)
(*                                                                         *)
(* Services are well-behaved: they free what they allocate, but for the    *)
(* buffer they give to tpreturn, and they end.                             *)
(***************************************************************************)
EXTENDS Integers, Sequences, FiniteSets

CONSTANTS Worker,      \* threads of the server
          Buffer,      \* typed buffers of the server
          SvcName,     \* names that clients call
          Advertised,  \* those of them that have a function
          DataType,    \* types of data: "CARRAY", "VIEW32" among them
          LoadedViews, \* whether the server knows the structure of the view
          RequestMax   \* bound: requests

NoOwner == "none"

ASSUME ServingAssumption ==
    /\ {"CARRAY", "VIEW32"} \subseteq DataType /\ Advertised \subseteq SvcName
    /\ LoadedViews \in BOOLEAN /\ RequestMax \in Nat
    /\ NoOwner \notin Worker \cup DataType
    /\ Buffer \cap {NoOwner, "memory", "request"} = {}

VARIABLES serving,        \* the server runs
          at,        \* where each worker is
          message,   \* what it works on
          svcInfo,      \* TPRETURN_INFO_T, one for each thread
          response,  \* TUX_APP_TPCALL_REP_T
          buffers,   \* the typed buffers: who has one, its type and what is in it
          asked,     \* the requests so far: what each holds and wants
          said,      \* history: how the service of each ended
          result     \* what tpcall has returned for each

servingVars == <<serving, at, message, svcInfo, response, buffers, asked, said, result>>

Unused == [owner |-> NoOwner, type |-> "CARRAY", content |-> 0]
NoInfo == [rval |-> NoOwner, data |-> NoOwner]
NoResponse == [code |-> "SVC_ERR", data |-> NoOwner, type |-> "CARRAY", content |-> 0]

ServingInit ==
    /\ serving = TRUE
    /\ at = [w \in Worker |-> "waiting"]
    /\ message = [w \in Worker |-> 0]
    /\ svcInfo = [w \in Worker |-> NoInfo]
    /\ response = [w \in Worker |-> NoResponse]
    /\ buffers = [b \in Buffer |-> Unused]
    /\ asked = <<>> /\ said = <<>> /\ result = <<>>

HeldBy(w) == {b \in Buffer : buffers[b].owner = w}
RequestOf(w) == asked[message[w]]

-----------------------------------------------------------------------------
\* A request has been read: type is that of its data.
ReceiveRequest(w) ==
    /\ serving /\ at[w] = "waiting" /\ Len(asked) < RequestMax
    /\ \E svc \in SvcName, type \in DataType \cup {NoOwner} :
          asked' = Append(asked, [svc |-> svc, type |-> type])
    /\ message' = [message EXCEPT ![w] = Len(asked')]
    /\ said' = Append(said, NoOwner) /\ result' = Append(result, NoOwner)
    /\ at' = [at EXCEPT ![w] = "calling"]
    /\ UNCHANGED <<serving, svcInfo, response, buffers>>

Respond(w, r) == /\ response' = [response EXCEPT ![w] = r]
                 /\ at' = [at EXCEPT ![w] = "replying"]

\* No function, or data of a view that does not fit: there is no service to call.
CallService(w) ==
    /\ at[w] = "calling"
    /\ IF RequestOf(w).svc \notin Advertised THEN Respond(w, [NoResponse EXCEPT !.code = "NOT_FOUND"])
       ELSE IF RequestOf(w).type = "VIEW32" /\ ~LoadedViews THEN Respond(w, NoResponse)
       ELSE at' = [at EXCEPT ![w] = "service"] /\ UNCHANGED response
    /\ UNCHANGED <<serving, message, svcInfo, buffers, asked, said, result>>

-----------------------------------------------------------------------------
(* The service function.                                                   *)

\* tpalloc, and something written into it.
AllocBuffer(w, b) ==
    /\ at[w] = "service" /\ buffers[b].owner = NoOwner /\ HeldBy(w) = {}
    /\ \E type \in DataType :
          buffers' = [buffers EXCEPT ![b] = [owner |-> w, type |-> type, content |-> message[w]]]
    /\ UNCHANGED <<serving, at, message, svcInfo, response, asked, said, result>>

FreeBuffer(w, b) ==
    /\ at[w] = "service" /\ b \in HeldBy(w)
    /\ buffers' = [buffers EXCEPT ![b] = Unused]
    /\ UNCHANGED <<serving, at, message, svcInfo, response, asked, said, result>>

Says(w, what) == said' = [said EXCEPT ![message[w]] = what]

(* A mistake: tpreturn gives the buffer back at once. *)
BackAtOnce(w) == [b \in Buffer |-> IF b \in HeldBy(w) THEN Unused ELSE buffers[b]]

\* The jump over the rest of the service leaves its buffer as it is.
AfterJump(w) == buffers

\* TLSLibtux::GetTpreturnInfo.
InfoOf(w, kept) == [svcInfo EXCEPT ![w] = kept]

\* The data is none, the request's own, the service's buffer or memory of its own.
Tpreturn(w) ==
    /\ at[w] = "service"
    /\ \E rval \in {"TPSUCCESS", "TPFAIL", "TPEXIT", "unknown"},
          data \in {NoOwner, "memory"} \cup HeldBy(w)
                   \cup (IF RequestOf(w).type # NoOwner THEN {"request"} ELSE {}) :
          /\ HeldBy(w) \subseteq {data}
          /\ svcInfo' = InfoOf(w, [rval |-> rval, data |-> data])
          /\ Says(w, rval)
    /\ buffers' = AfterJump(w)
    /\ at' = [at EXCEPT ![w] = "returned"]
    /\ UNCHANGED <<serving, message, response, asked, result>>

\* The function ends without tpreturn.
ReturnsPlainly(w) ==
    /\ at[w] = "service" /\ HeldBy(w) = {}
    /\ Says(w, "plain") /\ Respond(w, NoResponse)
    /\ UNCHANGED <<serving, message, svcInfo, buffers, asked, result>>

Lost(w) == result' = [result EXCEPT ![message[w]] = "TPETIME"]

\* What the process leaves its clients with: every connection is closed.
Ends == /\ serving' = FALSE
        /\ result' = [n \in DOMAIN result |-> IF result[n] = NoOwner THEN "TPETIME" ELSE result[n]]
        /\ UNCHANGED <<at, message, svcInfo, response, buffers, asked>>

\* InvokeImpl catches all: no reply, and the connection is closed.
Caught(w) == /\ Lost(w) /\ at' = [at EXCEPT ![w] = "waiting"]
             /\ message' = [message EXCEPT ![w] = 0]
             /\ UNCHANGED <<serving, svcInfo, response, buffers, asked>>

Throws(w) ==
    /\ at[w] = "service" /\ HeldBy(w) = {}
    /\ Says(w, "throws") /\ Caught(w)

-----------------------------------------------------------------------------
\* The type of the reply: the request's, the buffer's, or that of plain memory.
TypeOfData(w) ==
    LET data == svcInfo[w].data IN
    CASE data = "request" -> RequestOf(w).type
      [] data \in Buffer -> buffers[data].type
      [] OTHER -> "CARRAY"

\* Behind the jump.  Data is compared with the request's: without one the
\* process dies.  The type of a reply that is not TPSUCCESS's is never set,
\* and nobody reads it.
HasReturned(w) ==
    /\ at[w] = "returned"
    /\ LET data == svcInfo[w].data
           reply(code, type) == [code |-> code, data |-> data, type |-> type, content |-> message[w]]
       IN CASE svcInfo[w].rval = "TPSUCCESS" /\ data # NoOwner /\ RequestOf(w).type = NoOwner -> Ends
            [] svcInfo[w].rval = "TPSUCCESS" /\ (data = NoOwner \/ RequestOf(w).type # NoOwner) ->
                 /\ Respond(w, reply(IF data # NoOwner /\ TypeOfData(w) = "VIEW32" /\ ~LoadedViews
                                     THEN "SVC_ERR" ELSE "OK", TypeOfData(w)))
                 /\ UNCHANGED <<serving, result, message, svcInfo, buffers, asked>>
            [] svcInfo[w].rval = "TPEXIT" -> Ends
            [] svcInfo[w].rval \in {"TPFAIL", "unknown"} ->
                 /\ Respond(w, reply(IF svcInfo[w].rval = "TPFAIL" THEN "SVC_FAIL" ELSE "SVC_ERR", "CARRAY"))
                 /\ UNCHANGED <<serving, result, message, svcInfo, buffers, asked>>
    /\ UNCHANGED said

-----------------------------------------------------------------------------
\* What tpcall returns for a reply, if it has a buffer of type wants.
Tperrno(r, wants) ==
    CASE r.code = "OK" /\ (r.data = NoOwner \/ r.type = wants) -> "OK"
      [] r.code = "OK" /\ r.data # NoOwner /\ r.type # wants -> "TPEOTYPE"
      [] r.code = "NOT_FOUND" -> "TPENOENT"
      [] r.code = "SVC_FAIL" -> "TPESVCFAIL"
      [] r.code = "SVC_ERR" -> "TPESVCERR"

\* What is in the data when it is marshalled.
Content(w) == LET data == response[w].data IN
              IF data \in Buffer THEN buffers[data].content ELSE message[w]

\* The reply goes out, or the connection has failed.
WriteReply(w) ==
    /\ at[w] = "replying"
    /\ \/ LET sent == [response[w] EXCEPT !.content = Content(w)] IN
          /\ response' = [response EXCEPT ![w] = sent]
          /\ \E wants \in DataType :
                result' = [result EXCEPT ![message[w]] = Tperrno(sent, wants)]
       \/ Lost(w) /\ UNCHANGED response
    /\ at' = [at EXCEPT ![w] = "posting"]
    /\ UNCHANGED <<serving, message, svcInfo, buffers, asked, said>>

\* InvokePost: FreeBuffer of the data, which is a typed buffer or is left alone.
ToFree(w) == {response[w].data}

InvokePost(w) ==
    /\ at[w] = "posting"
    /\ buffers' = [b \in Buffer |-> IF b \in ToFree(w) THEN Unused ELSE buffers[b]]
    /\ at' = [at EXCEPT ![w] = "waiting"]
    /\ message' = [message EXCEPT ![w] = 0]
    /\ response' = [response EXCEPT ![w] = NoResponse]
    /\ UNCHANGED <<serving, svcInfo, asked, said, result>>

ServiceStep(w) == \/ \E b \in Buffer : AllocBuffer(w, b) \/ FreeBuffer(w, b)
                  \/ Tpreturn(w) \/ ReturnsPlainly(w) \/ Throws(w)

ServingNext ==
    \E w \in Worker :
        \/ ReceiveRequest(w)
        \/ serving /\ (CallService(w) \/ ServiceStep(w) \/ HasReturned(w) \/ WriteReply(w) \/ InvokePost(w))

ServingSpec == ServingInit /\ [][ServingNext]_servingVars

-----------------------------------------------------------------------------
(* tpcall returns what its own service has said: 0 only for TPSUCCESS,     *)
(* TPESVCFAIL only for TPFAIL, and TPESVCERR never for a plain success,    *)
(* whatever other threads of the server return meanwhile.                  *)
ResultIsTheServices ==
    \A n \in DOMAIN result :
        /\ result[n] \in {"OK", "TPEOTYPE"} => said[n] = "TPSUCCESS"
        /\ result[n] = "TPESVCFAIL" <=> said[n] = "TPFAIL" /\ result[n] \notin {NoOwner, "TPETIME"}
        /\ result[n] = "TPENOENT" => asked[n].svc \notin Advertised

(* A reply carries what its service has put into the buffer: the buffer is *)
(* nobody else's until the reply is written.                               *)
ReplyIsAsGiven ==
    \A w \in Worker : at[w] = "posting" /\ response[w].data # NoOwner => response[w].content = message[w]

(* A buffer given to tpreturn is freed, whatever became of the reply: all  *)
(* that is in use is in the hands of a service or on its way.              *)
BuffersAreFreed ==
    \A b \in Buffer : buffers[b].owner # NoOwner =>
        LET w == buffers[b].owner IN at[w] \in {"service", "returned", "replying", "posting"}

(* A server that runs ends because a service says TPEXIT, or answers with  *)
(* data a request that had none: never because it throws or fails.         *)
EndsOnlyOnDemand ==
    ~serving => \E n \in DOMAIN said : said[n] = "TPEXIT" \/ (said[n] = "TPSUCCESS" /\ asked[n].type = NoOwner)

(* What becomes of a request at a server: all of these. *)
ServedAsPromised == ResultIsTheServices /\ ReplyIsAsGiven /\ BuffersAreFreed /\ EndsOnlyOnDemand
=============================================================================
