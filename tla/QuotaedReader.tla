---------------------------- MODULE QuotaedReader ----------------------------
(***************************************************************************)
(* fetcher/layerfetcher/quotaed_reader.go: a reader that lets a stream     *)
(* through until it has delivered more bytes than a quota, and from then   *)
(* on answers every Read with the quota error.                             *)
(*                                                                         *)
(* Bytes are counted, not represented.  The caller is any user of the      *)
(* io.Reader interface: it picks the size of its buffer on each Read and   *)
(* may go on reading after an error (io.Copy, the caller in layer_source.go,*)
(* stops at the first one, which is one of the behaviours here).           *)
(***************************************************************************)
EXTENDS Integers

CONSTANTS
  Quotas,      \* values a reader may be constructed with
  Lengths,     \* how many bytes the delegate's stream may hold
  BufferSizes  \* len(p) of the buffers the caller may pass to Read

(* Blob passes its remaining quota, which is never negative; the unit test *)
(* of the reader also constructs one with -1 (quotaed_reader_test.go:80).  *)
ASSUME QuotasAssumption == Quotas \subseteq {q \in Int : q >= -1}
ASSUME LengthsAssumption == Lengths \subseteq Nat
ASSUME BufferSizesAssumption == BufferSizes \subseteq Nat

VARIABLES
  quota,      \* quotaLeft given to NewQuotaedReader
  length,     \* bytes in the delegate's stream
  QuotaLeft,  \* the field of the same name
  delivered,  \* bytes returned to the caller so far
  err         \* error of the last Read: "none" before the first one

vars == <<quota, length, QuotaLeft, delivered, err>>

DelegateErrors == {"nil", "EOF", "failed"}

-----------------------------------------------------------------------------

(* The constructor.                                                        *)
NewQuotaedReader ==
  /\ quota \in Quotas
  /\ length \in Lengths
  /\ QuotaLeft = quota
  /\ delivered = 0
  /\ err = "none"

(* Mutants of Window: the buffer cut one byte too late, or not at all.     *)
WindowTooWide(p) == IF p > QuotaLeft THEN QuotaLeft + 2 ELSE p
WindowUncut(p) == p

(* Length of the slice handed to the delegate for a buffer of p bytes.     *)
Window(p) == IF p > QuotaLeft THEN QuotaLeft + 1 ELSE p

(* What an io.Reader over the rest of the stream may answer to a Read of w *)
(* bytes: fewer bytes than asked for, an error together with bytes, and    *)
(* io.EOF only when the stream is used up.                                 *)
DelegateMayAnswer(w, n, e) ==
  /\ n <= w
  /\ delivered + n <= length
  /\ e = "EOF" => delivered + n = length

(* Mutants of Read.  The error of the delegate hides the quota error; the  *)
(* stream ends at the quota, as under io.LimitReader; the Read that        *)
(* reports the overrun does not count its bytes.                           *)
ReadDelegateErrorFirst(p) ==
  \E n \in 0..Window(p), e \in DelegateErrors :
    /\ DelegateMayAnswer(Window(p), n, e)
    /\ QuotaLeft' = QuotaLeft - n
    /\ delivered' = delivered + n
    /\ err' = IF e = "nil" /\ QuotaLeft - n < 0 THEN "QuotaExceeded" ELSE e
    /\ UNCHANGED <<quota, length>>
ReadLimited(p) ==
  \E n \in 0..Window(p), e \in DelegateErrors :
    /\ DelegateMayAnswer(Window(p), n, e)
    /\ n <= QuotaLeft
    /\ QuotaLeft' = QuotaLeft - n
    /\ delivered' = delivered + n
    /\ err' = IF QuotaLeft = n THEN "EOF" ELSE e
    /\ UNCHANGED <<quota, length>>
ReadForgetsOverrun(p) ==
  \E n \in 0..Window(p), e \in DelegateErrors :
    /\ DelegateMayAnswer(Window(p), n, e)
    /\ QuotaLeft' = IF QuotaLeft < n THEN QuotaLeft ELSE QuotaLeft - n
    /\ delivered' = delivered + n
    /\ err' = IF QuotaLeft - n < 0 THEN "QuotaExceeded" ELSE e
    /\ UNCHANGED <<quota, length>>

(* One call of Read with a buffer of p bytes.                              *)
Read(p) ==
  \E n \in 0..Window(p), e \in DelegateErrors :
    /\ DelegateMayAnswer(Window(p), n, e)
    /\ QuotaLeft' = QuotaLeft - n
    /\ delivered' = delivered + n
    /\ err' = IF QuotaLeft - n < 0 THEN "QuotaExceeded" ELSE e
    /\ UNCHANGED <<quota, length>>

Init == NewQuotaedReader

Next == \E p \in BufferSizes : Read(p)

Spec == Init /\ [][Next]_vars

-----------------------------------------------------------------------------

(* Values of the variables, and: the slice expression p[0 : QuotaLeft+1]   *)
(* of line 26, which panics when it is out of bounds, is within them on    *)
(* every Read, the Reads after the quota error included.                   *)
TypeOK ==
  /\ quota \in Quotas
  /\ length \in Lengths
  /\ QuotaLeft \in Int /\ QuotaLeft >= -1
  /\ delivered \in Nat
  /\ err \in DelegateErrors \cup {"none", "QuotaExceeded"}
  /\ \A p \in BufferSizes : Window(p) \in 0..p

(* The reader lets at most one byte past the quota through, however the    *)
(* caller sizes its buffers (quotaed_reader_test.go:71).                   *)
AtMostOneByteOver == delivered <= quota + 1

(* A Read reports the quota error exactly when the bytes delivered exceed  *)
(* the quota: neither an error of the delegate nor io.EOF in the same Read *)
(* hides it, and a stream of just the quota's size passes.                 *)
OverrunReported ==
  err # "none" => (err = "QuotaExceeded" <=> delivered > quota)

(* io.EOF means that the caller has the whole stream: the quota never      *)
(* truncates a stream into one that looks complete.                        *)
EOFMeansWhole == err = "EOF" => delivered = length /\ length <= quota

(* Once the quota error is out, every later Read returns it again and      *)
(* delivers nothing.                                                       *)
OverrunIsFinal ==
  [][err = "QuotaExceeded" =>
       err' = "QuotaExceeded" /\ delivered' = delivered]_vars

=============================================================================
