----------------------------- MODULE FakeSource ------------------------------
(***************************************************************************)
(* layerfetcherfakes/fake_source.go: the layer source of the tests, made   *)
(* by counterfeiter, used by several goroutines.  Each method has a mutex  *)
(* for its calls and answers, and one more guards the invocations of all.  *)
(*                                                                         *)
(* A critical section that waits for nothing is one step.  A call stands   *)
(* for its arguments, and what a call returns is told apart only by where  *)
(* it comes from.  The other fakes are made from the same template.        *)
(***************************************************************************)
EXTENDS Integers, Sequences

CONSTANTS
  Goroutines,
  Order,     \* the methods, in the order in which Invocations locks their mutexes
  MaxCalls,  \* bound: calls of each method
  Nobody

Methods == {Order[i] : i \in 1 .. Len(Order)}
Indexes == 0 .. MaxCalls

ASSUME NobodyAssumption == Nobody \notin Goroutines
ASSUME OrderAssumption ==
  /\ Order \in Seq(Methods) /\ Order # <<>>
  /\ \A i, j \in 1 .. Len(Order) : Order[i] = Order[j] => i = j
ASSUME MaxCallsAssumption == MaxCalls \in Nat

VARIABLES
  argsForCall,    \* argsForCall[m]: the goroutines that called m, in order
  stub,           \* stub[m]: whether m has a Stub
  returnsOnCall,  \* returnsOnCall[m]: calls for which a return has been set
  invocations,    \* invocations[m]
  mutex,          \* mutex[m]: the goroutine in a method that waits for another lock
  reading,        \* goroutines that hold invocationsMutex for reading
  pc,             \* pc[t]: idle, record, return or lock
  method,         \* method[t]: that t calls
  locked,         \* locked[t]: how many methods Invocations has locked
  ret,            \* ret[t]: which return t will give, as found under the mutex
  given           \* ghost: given[m][i]: goroutines that were given the return for call i

settings == <<stub, returnsOnCall>>
calls == <<argsForCall, invocations, given>>
locks == <<mutex, reading, locked>>
vars == <<settings, calls, locks, pc, method, ret>>

NoReturn == [index |-> 0, specific |-> FALSE]

Init ==
  /\ argsForCall = [m \in Methods |-> <<>>]
  /\ stub = [m \in Methods |-> FALSE]
  /\ returnsOnCall = [m \in Methods |-> {}]
  /\ invocations = [m \in Methods |-> <<>>]
  /\ mutex = [m \in Methods |-> Nobody]
  /\ reading = {}
  /\ pc = [t \in Goroutines |-> "idle"]
  /\ method = [t \in Goroutines |-> Order[1]]
  /\ locked = [t \in Goroutines |-> 0]
  /\ ret = [t \in Goroutines |-> NoReturn]
  /\ given = [m \in Methods |-> [i \in Indexes |-> {}]]

Goto(t, label) == pc' = [pc EXCEPT ![t] = label]

(* Which goroutines hold the mutex of m for reading, in Invocations.       *)
Readers(m) == {t \in reading : \E i \in 1 .. locked[t] : Order[i] = m}
Free(m) == mutex[m] = Nobody /\ Readers(m) = {}

-----------------------------------------------------------------------------
(* The settings: Lock, assign, Unlock.                                     *)

Set(m) == Free(m) /\ UNCHANGED <<calls, locks, pc, method, ret>>

Calls(m) ==
  /\ Set(m)
  /\ stub' = [stub EXCEPT ![m] = TRUE]
  /\ UNCHANGED returnsOnCall

Returns(m) ==
  /\ Set(m)
  /\ stub' = [stub EXCEPT ![m] = FALSE]
  /\ UNCHANGED returnsOnCall

ReturnsOnCall(m, i) ==
  /\ Set(m)
  /\ stub' = [stub EXCEPT ![m] = FALSE]
  /\ returnsOnCall' = [returnsOnCall EXCEPT ![m] = @ \cup {i}]

-----------------------------------------------------------------------------
(* A method, for instance Blob.                                            *)

(* Mutant: the call is counted before its return is looked up.             *)
CallCounted(t, m) ==
  /\ pc[t] = "idle" /\ Free(m)
  /\ Len(argsForCall[m]) < MaxCalls
  /\ argsForCall' = [argsForCall EXCEPT ![m] = Append(@, t)]
  /\ LET i == Len(argsForCall[m]) + 1 IN
       ret' = [ret EXCEPT ![t] = [index |-> i, specific |-> ~stub[m] /\ i \in returnsOnCall[m]]]
  /\ mutex' = [mutex EXCEPT ![m] = t]
  /\ method' = [method EXCEPT ![t] = m]
  /\ Goto(t, "record")
  /\ UNCHANGED <<settings, invocations, given, reading, locked>>

(* Under the method's mutex, up to recordInvocation.                       *)
Call(t, m) ==
  /\ pc[t] = "idle" /\ Free(m)
  /\ Len(argsForCall[m]) < MaxCalls
  /\ argsForCall' = [argsForCall EXCEPT ![m] = Append(@, t)]
  /\ LET i == Len(argsForCall[m]) IN
       ret' = [ret EXCEPT ![t] = [index |-> i, specific |-> ~stub[m] /\ i \in returnsOnCall[m]]]
  /\ mutex' = [mutex EXCEPT ![m] = t]
  /\ method' = [method EXCEPT ![t] = m]
  /\ Goto(t, "record")
  /\ UNCHANGED <<settings, invocations, given, reading, locked>>

(* Mutant: the mutex is not given back.                                    *)
RecordAndKeep(t) ==
  /\ pc[t] = "record" /\ reading = {}
  /\ invocations' = [invocations EXCEPT ![method[t]] = Append(@, t)]
  /\ Goto(t, "return")
  /\ UNCHANGED <<settings, argsForCall, given, locks, method, ret>>

(* Mutant: the invocation is recorded after the mutex is given back.       *)
RecordOutside(t) ==
  /\ pc[t] = "record"
  /\ mutex' = [mutex EXCEPT ![method[t]] = Nobody]
  /\ Goto(t, "return")
  /\ UNCHANGED <<settings, calls, reading, locked, method, ret>>

(* recordInvocation with its own mutex, then the Unlock of the method's.   *)
RecordInvocation(t) ==
  /\ pc[t] = "record" /\ reading = {}
  /\ invocations' = [invocations EXCEPT ![method[t]] = Append(@, t)]
  /\ mutex' = [mutex EXCEPT ![method[t]] = Nobody]
  /\ Goto(t, "return")
  /\ UNCHANGED <<settings, argsForCall, given, reading, locked, method, ret>>

(* The answer, with no mutex held: a stub may call the fake.               *)
Return(t) ==
  /\ pc[t] = "return"
  /\ given' = IF ret[t].specific
              THEN [given EXCEPT ![method[t]][ret[t].index] = @ \cup {t}] ELSE given
  /\ ret' = [ret EXCEPT ![t] = NoReturn]
  /\ Goto(t, "idle")
  /\ UNCHANGED <<settings, argsForCall, invocations, locks, method>>

-----------------------------------------------------------------------------
(* Invocations locks everything, one mutex after the other.                *)

StartInvocations(t) ==
  /\ pc[t] = "idle"
  /\ reading' = reading \cup {t}
  /\ Goto(t, "lock")
  /\ UNCHANGED <<settings, calls, mutex, locked, method, ret>>

LockNext(t) ==
  /\ pc[t] = "lock"
  /\ locked[t] < Len(Order)
  /\ mutex[Order[locked[t] + 1]] = Nobody
  /\ locked' = [locked EXCEPT ![t] = @ + 1]
  /\ UNCHANGED <<settings, calls, mutex, reading, pc, method, ret>>

(* The copy is made, and the deferred RUnlocks run.                        *)
CopyInvocations(t) ==
  /\ pc[t] = "lock"
  /\ locked[t] = Len(Order)
  /\ locked' = [locked EXCEPT ![t] = 0]
  /\ reading' = reading \ {t}
  /\ Goto(t, "idle")
  /\ UNCHANGED <<settings, calls, mutex, method, ret>>

Next ==
  \/ \E m \in Methods :
       \/ Calls(m) \/ Returns(m)
       \/ \E i \in 0 .. MaxCalls - 1 : ReturnsOnCall(m, i)
  \/ \E t \in Goroutines :
       \/ \E m \in Methods : Call(t, m)
       \/ RecordInvocation(t) \/ Return(t)
       \/ StartInvocations(t) \/ LockNext(t) \/ CopyInvocations(t)

Spec == Init /\ [][Next]_vars

-----------------------------------------------------------------------------

(* What Invocations copies is what ArgsForCall and CallCount tell of each  *)
(* method, at one moment for all of them; and the return that was set for  *)
(* the i-th call goes to the goroutine that made the i-th call and to no   *)
(* other, however calls overlap (fake_source.go 59-67, 71-73, 242-256).    *)
CallsAreTold ==
  \A m \in Methods :
    /\ invocations[m] = IF mutex[m] = Nobody THEN argsForCall[m]
                        ELSE SubSeq(argsForCall[m], 1, Len(argsForCall[m]) - 1)
    /\ \A i \in Indexes : \A t \in given[m][i] :
         i < Len(argsForCall[m]) /\ argsForCall[m][i + 1] = t

(* A goroutine that waits for a mutex and cannot have it.                  *)
Waits(t) ==
  \/ pc[t] = "record" /\ reading # {}
  \/ pc[t] = "lock" /\ locked[t] < Len(Order) /\ mutex[Order[locked[t] + 1]] # Nobody

Busy(t) == pc[t] # "idle"

(* When every goroutine that is under way waits, one is in Invocations,    *)
(* which takes invocationsMutex first, and waits for one in a method,      *)
(* which takes it last.  Nothing else can stop them: no mutex is ever left *)
(* locked (fake_source.go 57-67, 242-250).                                 *)
StuckOnlyCrosswise ==
  (\E t \in Goroutines : Busy(t)) /\ (\A t \in Goroutines : Busy(t) => Waits(t)) =>
    \E t, u \in Goroutines :
      pc[t] = "record" /\ pc[u] = "lock" /\ Order[locked[u] + 1] = method[t]

=============================================================================
