---------------------------- MODULE FakeRegistry -----------------------------
(***************************************************************************)
(* testhelpers/registry.go: the registry of the tests, which stands before *)
(* a real one, fails some of the requests it gets and answers some itself. *)
(* Its server runs each request in a goroutine of its own; what they share *)
(* is guarded by one RWMutex, except for the two failNext counters.        *)
(*                                                                         *)
(* The requests come from layer sources, which make up to three attempts   *)
(* (layer_source.go 202-216, 261-279).  A test sets the registry up before *)
(* the first of them.  What the real registry answers is not told apart.   *)
(***************************************************************************)
EXTENDS Integers, FiniteSets

CONSTANTS
  Sources,       \* layer sources, and the goroutines that serve them
  Digests,
  MaxFailures,   \* bound: failures that a test asks for
  MaxCalls,      \* bound: calls of a source
  Nobody

MAX_DOCKER_RETRIES == 3

(* Requests by the handler that serves them.                               *)
Kinds == {"blob", "manifest", "token", "other"}
Failing == {"blob", "manifest"}

ASSUME BoundsAssumption == MaxFailures \in Nat /\ MaxCalls \in Nat
ASSUME NobodyAssumption == Nobody \notin Sources

VARIABLES
  failNext,      \* failNextBlobRequests and failNextManifestRequests
  order,         \* order[d]: of the handler for blob d; -1 if there is none
  forceTokenAuthError,
  blobRequestsCounter,
  writer, readers,     \* who holds the mutex, and how
  pc,            \* pc[s]: what the handler of s's request does next
  request,       \* request[s]: its kind and digest
  read,          \* read[s]: the counter as read by the decrement
  answer,        \* answer[s]: to the last request of s
  attempt, calls,      \* attempts of the present call of s, and calls so far
  asked, failed, handled, overlapped
    \* ghosts: failures asked for, failures handed out, requests that the
    \* handler for a digest got, kinds of which two requests ran at a time

setUp == <<failNext, order, forceTokenAuthError>>
mutex == <<writer, readers>>
client == <<request, attempt, calls>>
ghosts == <<asked, failed, handled, overlapped>>
vars == <<setUp, blobRequestsCounter, mutex, pc, read, answer, client, ghosts>>

Goto(s, label) == pc' = [pc EXCEPT ![s] = label]
Answer(s, what) == answer' = [answer EXCEPT ![s] = what]

Init ==
  /\ failNext = [k \in Failing |-> 0]
  /\ order = [d \in Digests |-> -1]
  /\ forceTokenAuthError = FALSE
  /\ blobRequestsCounter = [d \in Digests |-> 0]
  /\ writer = Nobody /\ readers = {}
  /\ pc = [s \in Sources |-> "idle"]
  /\ request \in [Sources -> {[kind |-> "token", digest |-> d] : d \in Digests}]
  /\ read = [s \in Sources |-> 0]
  /\ answer = [s \in Sources |-> "none"]
  /\ attempt = [s \in Sources |-> 0] /\ calls = [s \in Sources |-> 0]
  /\ asked = [k \in Failing |-> 0] /\ failed = [k \in Failing |-> 0]
  /\ handled = [d \in Digests |-> 0] /\ overlapped = {}

-----------------------------------------------------------------------------
(* The test, before anything is requested.                                 *)

Unused == \A s \in Sources : calls[s] = 0

FailNextRequests(kind, n) ==
  /\ Unused
  /\ failNext' = [failNext EXCEPT ![kind] = n]
  /\ asked' = [asked EXCEPT ![kind] = n]
  /\ UNCHANGED <<order, forceTokenAuthError, blobRequestsCounter, mutex, pc, read, answer, client,
                 failed, handled, overlapped>>

ForceTokenAuthError ==
  /\ Unused
  /\ forceTokenAuthError' = TRUE
  /\ UNCHANGED <<failNext, order, blobRequestsCounter, mutex, pc, read, answer, client, ghosts>>

WhenGettingBlob(d, n) ==
  /\ Unused
  /\ order' = [order EXCEPT ![d] = n]
  /\ UNCHANGED <<failNext, forceTokenAuthError, blobRequestsCounter, mutex, pc, read, answer,
                 client, ghosts>>

-----------------------------------------------------------------------------
(* A layer source.                                                         *)

(* One more attempt, of a new call or after a failure.  Authentication     *)
(* requests are sent by the library and are not retried.                   *)
Send(s) ==
  /\ pc[s] = "idle"
  /\ \/ /\ calls[s] < MaxCalls
        /\ calls' = [calls EXCEPT ![s] = @ + 1]
        /\ attempt' = [attempt EXCEPT ![s] = 1]
        /\ \E k \in Kinds, d \in Digests : request' = [request EXCEPT ![s] = [kind |-> k, digest |-> d]]
     \/ /\ answer[s] = "teapot" /\ attempt[s] < MAX_DOCKER_RETRIES
        /\ attempt' = [attempt EXCEPT ![s] = @ + 1]
        /\ UNCHANGED <<calls, request>>
  /\ LET kind == request'[s].kind IN
       /\ Goto(s, IF kind \in Failing THEN "fail?" ELSE "lock")
       /\ overlapped' = IF \E o \in Sources \ {s} : pc[o] # "idle" /\ request[o].kind = kind
                        THEN overlapped \cup {kind} ELSE overlapped
  /\ Answer(s, "none")
  /\ UNCHANGED <<setUp, blobRequestsCounter, mutex, read, asked, failed, handled>>

-----------------------------------------------------------------------------
(* serveBlob and serveManifest.                                            *)

Kind(s) == request[s].kind
Digest(s) == request[s].digest

CheckFailNext(s) ==
  /\ pc[s] = "fail?"
  /\ Goto(s, IF failNext[Kind(s)] > 0 THEN "read"
             ELSE IF Kind(s) = "blob" THEN "count" ELSE "proxy")
  /\ UNCHANGED <<setUp, blobRequestsCounter, mutex, read, answer, client, ghosts>>

(* failNext--, a read and a write without the mutex.                       *)
ReadFailNext(s) ==
  /\ pc[s] = "read"
  /\ read' = [read EXCEPT ![s] = failNext[Kind(s)]]
  /\ Goto(s, "write")
  /\ UNCHANGED <<setUp, blobRequestsCounter, mutex, answer, client, ghosts>>

(* Mutant: the counter is reset by the first failure.                      *)
WriteFailNextZero(s) ==
  /\ pc[s] = "write"
  /\ failNext' = [failNext EXCEPT ![Kind(s)] = 0]
  /\ failed' = [failed EXCEPT ![Kind(s)] = @ + 1]
  /\ read' = [read EXCEPT ![s] = 0]
  /\ Answer(s, "teapot") /\ Goto(s, "idle")
  /\ UNCHANGED <<order, forceTokenAuthError, blobRequestsCounter, mutex, client,
                 asked, handled, overlapped>>

(* Mutant: the failures never end.                                         *)
WriteFailNextBack(s) ==
  /\ pc[s] = "write"
  /\ failed' = [failed EXCEPT ![Kind(s)] = @ + 1]
  /\ Answer(s, "teapot") /\ Goto(s, "idle")
  /\ UNCHANGED <<setUp, blobRequestsCounter, mutex, read, client, asked, handled, overlapped>>

WriteFailNext(s) ==
  /\ pc[s] = "write"
  /\ failNext' = [failNext EXCEPT ![Kind(s)] = read[s] - 1]
  /\ failed' = [failed EXCEPT ![Kind(s)] = @ + 1]
  /\ read' = [read EXCEPT ![s] = 0]
  /\ Answer(s, "teapot") /\ Goto(s, "idle")
  /\ UNCHANGED <<order, forceTokenAuthError, blobRequestsCounter, mutex, client,
                 asked, handled, overlapped>>

(* A manifest that is not failed comes from the real registry.             *)
ProxyManifest(s) ==
  /\ pc[s] = "proxy"
  /\ Answer(s, "proxied") /\ Goto(s, "idle")
  /\ UNCHANGED <<setUp, blobRequestsCounter, mutex, read, client, ghosts>>

(* Mutant: failed requests and others count as one.                        *)
CountBlobOnce(s) ==
  /\ pc[s] = "count"
  /\ writer = Nobody /\ readers = {}
  /\ blobRequestsCounter' = [blobRequestsCounter EXCEPT ![Digest(s)] = 1]
  /\ Goto(s, "rlock")
  /\ UNCHANGED <<setUp, mutex, read, answer, client, ghosts>>

(* Lock, increment, Unlock.                                                *)
CountBlob(s) ==
  /\ pc[s] = "count"
  /\ writer = Nobody /\ readers = {}
  /\ blobRequestsCounter' = [blobRequestsCounter EXCEPT ![Digest(s)] = @ + 1]
  /\ Goto(s, "rlock")
  /\ UNCHANGED <<setUp, mutex, read, answer, client, ghosts>>

(* RLock.  The counter is read again: it may have moved on.                *)
ChooseHandler(s) ==
  /\ pc[s] = "rlock"
  /\ writer = Nobody
  /\ readers' = readers \cup {s}
  /\ IF order[Digest(s)] \in {0, blobRequestsCounter[Digest(s)]}
     THEN /\ Answer(s, "handled")
          /\ handled' = [handled EXCEPT ![Digest(s)] = @ + 1]
     ELSE Answer(s, "proxied") /\ UNCHANGED handled
  /\ Goto(s, "rUnlock")
  /\ UNCHANGED <<setUp, blobRequestsCounter, writer, read, client, asked, failed, overlapped>>

(* The handler or the proxy is done, and the deferred RUnlock runs.        *)
ServeBlob(s) ==
  /\ pc[s] = "rUnlock"
  /\ readers' = readers \ {s}
  /\ Goto(s, "idle")
  /\ UNCHANGED <<setUp, blobRequestsCounter, writer, read, answer, client, ghosts>>

-----------------------------------------------------------------------------
(* serveToken and serveHTTP.                                               *)

LockAll(s) ==
  /\ pc[s] = "lock"
  /\ writer = Nobody /\ readers = {}
  /\ writer' = s
  /\ Goto(s, "unlock")
  /\ UNCHANGED <<setUp, blobRequestsCounter, readers, read, answer, client, ghosts>>

(* Mutant: an early return without the Unlock.                             *)
ServeTokenLocked(s) ==
  /\ pc[s] = "unlock"
  /\ \/ forceTokenAuthError /\ Answer(s, "unauthorized") /\ UNCHANGED writer
     \/ (forceTokenAuthError => Kind(s) = "other") /\ Answer(s, "proxied") /\ writer' = Nobody
  /\ Goto(s, "idle")
  /\ UNCHANGED <<setUp, blobRequestsCounter, readers, read, client, ghosts>>

(* The answer, and the deferred Unlock.  Of the other requests, only that  *)
(* for /v2/ is refused.                                                    *)
ServeToken(s) ==
  /\ pc[s] = "unlock"
  /\ \/ forceTokenAuthError /\ Answer(s, "unauthorized")
     \/ (forceTokenAuthError => Kind(s) = "other") /\ Answer(s, "proxied")
  /\ writer' = Nobody
  /\ Goto(s, "idle")
  /\ UNCHANGED <<setUp, blobRequestsCounter, readers, read, client, ghosts>>

Serve(s) ==
  \/ CheckFailNext(s) \/ ReadFailNext(s) \/ WriteFailNext(s) \/ ProxyManifest(s)
  \/ CountBlob(s) \/ ChooseHandler(s) \/ ServeBlob(s)
  \/ LockAll(s) \/ ServeToken(s)

Next ==
  \/ \E k \in Failing, n \in 0 .. MaxFailures : FailNextRequests(k, n)
  \/ ForceTokenAuthError
  \/ \E d \in Digests, n \in 0 .. 2 : WhenGettingBlob(d, n)
  \/ \E s \in Sources : Send(s) \/ Serve(s)

(* The server's goroutines are scheduled, and the real registry answers or *)
(* the proxy gives up.  Nobody has to send anything.                       *)
Fairness == \A s \in Sources : WF_vars(Serve(s))

Spec == Init /\ [][Next]_vars /\ Fairness

-----------------------------------------------------------------------------

(* A test that asks for n failures gets them before the first request that *)
(* is let through, even when requests run at the same time and decrements  *)
(* get lost.  Requests that come one by one get no more than n, so that a  *)
(* source which retries gets through if n is less than its attempts, as    *)
(* the tests of retries rely on (registry.go 105-106, 116-117;             *)
(* layer_source_docker_test.go 187, 498).                                  *)
FailuresAsAsked ==
  \A k \in Failing :
    /\ \A s \in Sources :
         Kind(s) = k /\ answer[s] \in {"handled", "proxied"} => failed[k] >= asked[k]
    /\ k \notin overlapped => failed[k] <= asked[k]
    /\ k \notin overlapped /\ asked[k] < MAX_DOCKER_RETRIES =>
         \A s \in Sources :
           Kind(s) = k /\ answer[s] = "teapot" => attempt[s] < MAX_DOCKER_RETRIES

(* If blobs are requested one by one, the handler for one of them answers  *)
(* just the request whose turn it is, and failed requests have no turn     *)
(* (registry.go 129-148).                                                  *)
HandlerHasItsTurn ==
  "blob" \notin overlapped =>
    \A d \in Digests :
      (\A s \in Sources : pc[s] # "rlock") =>
        handled[d] = CASE order[d] = -1 -> 0
                       [] order[d] = 0 -> blobRequestsCounter[d]
                       [] OTHER -> IF blobRequestsCounter[d] >= order[d] THEN 1 ELSE 0

(* Every request is answered: the mutex, which is held while the real      *)
(* registry is asked, is always given back (registry.go 81-82, 93-94,      *)
(* 135-136).                                                               *)
RequestsAreAnswered == \A s \in Sources : pc[s] # "idle" ~> pc[s] = "idle"

=============================================================================
