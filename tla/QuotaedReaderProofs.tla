------------------------ MODULE QuotaedReaderProofs -------------------------
(***************************************************************************)
(* Proofs about QuotaedReader, for every quota the code may construct a    *)
(* reader with, every stream and every sequence of buffer sizes.           *)
(***************************************************************************)
EXTENDS QuotaedReader, TLAPS

(* QuotaLeft and delivered are two views of the same count, which stays    *)
(* within the stream and goes no further than one byte past the quota, and *)
(* the error on record tells on which side of the quota the count is.      *)
QuotaInv ==
  /\ TypeOK
  /\ QuotaLeft = quota - delivered
  /\ delivered <= length
  /\ OverrunReported
  /\ EOFMeansWhole

-----------------------------------------------------------------------------

(* A fresh reader satisfies the invariant.                                 *)
LEMMA InitQuotaInv == Init => QuotaInv
  BY QuotasAssumption, LengthsAssumption, BufferSizesAssumption
  DEF Init, Window, NewQuotaedReader, QuotaInv, TypeOK, OverrunReported, EOFMeansWhole,
      DelegateErrors

(* One Read, whatever buffer size it is called with, maintains it.         *)
LEMMA ReadQuotaInv ==
  ASSUME QuotaInv, NEW p \in BufferSizes, Read(p)
  PROVE  QuotaInv'
<1>1. PICK n \in 0..Window(p), e \in DelegateErrors :
        /\ DelegateMayAnswer(Window(p), n, e)
        /\ QuotaLeft' = QuotaLeft - n
        /\ delivered' = delivered + n
        /\ err' = IF QuotaLeft - n < 0 THEN "QuotaExceeded" ELSE e
        /\ UNCHANGED <<quota, length>>
  BY DEF Read
<1>2. Window(p) \in Int /\ Window(p) <= QuotaLeft + 1
  <2>1. p \in Nat
    BY BufferSizesAssumption
  <2>. QED
    BY <2>1 DEF Window, QuotaInv, TypeOK
<1>3. n \in Nat /\ QuotaLeft' >= -1
  BY <1>1, <1>2 DEF QuotaInv, TypeOK
<1>4. TypeOK' /\ QuotaLeft' = quota' - delivered'
  BY <1>1, <1>3, QuotasAssumption, BufferSizesAssumption
  DEF QuotaInv, TypeOK, DelegateErrors, Window
<1>5. OverrunReported'
  BY <1>1, <1>3, <1>4, QuotasAssumption DEF TypeOK, OverrunReported, DelegateErrors
<1>6. EOFMeansWhole'
  BY <1>1, <1>3, <1>4, QuotasAssumption, LengthsAssumption DEF TypeOK, EOFMeansWhole, DelegateErrors, DelegateMayAnswer
<1>7. delivered' <= length'
  BY <1>1 DEF DelegateMayAnswer
<1>. QED
  BY <1>4, <1>5, <1>6, <1>7 DEF QuotaInv

(* The inductive invariant of the reader.                                  *)
THEOREM QuotaInvariance == Spec => []QuotaInv
<1>1. QuotaInv /\ [Next]_vars => QuotaInv'
  <2> SUFFICES ASSUME QuotaInv, [Next]_vars PROVE QuotaInv'
    OBVIOUS
  <2>1. CASE Next
    BY <2>1, ReadQuotaInv DEF Next
  <2>2. CASE UNCHANGED vars
    BY <2>2 DEF vars, QuotaInv, TypeOK, OverrunReported, EOFMeansWhole, Window
  <2>. QED
    BY <2>1, <2>2
<1>. QED
  BY InitQuotaInv, <1>1, PTL DEF Spec

-----------------------------------------------------------------------------

(* The variables keep their types, QuotaLeft never falls below -1, and so  *)
(* the slice of line 26 never panics.                                      *)
THEOREM TypeCorrect == Spec => []TypeOK
<1>1. QuotaInv => TypeOK
  BY DEF QuotaInv
<1>. QED
  BY QuotaInvariance, <1>1, PTL

(* The caller never gets more than one byte past the quota.                *)
THEOREM OneByteOver == Spec => []AtMostOneByteOver
<1>1. QuotaInv => AtMostOneByteOver
  BY QuotasAssumption DEF QuotaInv, TypeOK, AtMostOneByteOver
<1>. QED
  BY QuotaInvariance, <1>1, PTL

(* An overrun is reported by the Read that commits it, and by no other.    *)
THEOREM OverrunsReported == Spec => []OverrunReported
<1>1. QuotaInv => OverrunReported
  BY DEF QuotaInv
<1>. QED
  BY QuotaInvariance, <1>1, PTL

(* io.EOF is only returned for a whole stream that fits the quota.         *)
THEOREM EOFsMeanWhole == Spec => []EOFMeansWhole
<1>1. QuotaInv => EOFMeansWhole
  BY DEF QuotaInv
<1>. QED
  BY QuotaInvariance, <1>1, PTL

(* After the quota error, nothing but the quota error and no more bytes.   *)
THEOREM OverrunsAreFinal == Spec => OverrunIsFinal
<1>1. QuotaInv /\ [Next]_vars =>
        [err = "QuotaExceeded" =>
           err' = "QuotaExceeded" /\ delivered' = delivered]_vars
  <2> SUFFICES ASSUME QuotaInv, Next, err = "QuotaExceeded"
               PROVE  err' = "QuotaExceeded" /\ delivered' = delivered
    OBVIOUS
  <2>1. PICK p \in BufferSizes : Read(p)
    BY DEF Next
  <2>2. QuotaLeft = -1
    BY QuotasAssumption DEF QuotaInv, TypeOK, OverrunReported
  <2>3. Window(p) = 0
    BY <2>2, BufferSizesAssumption DEF Window
  <2>. QED
    BY <2>1, <2>2, <2>3 DEF Read, QuotaInv, TypeOK
<1>. QED
  BY QuotaInvariance, <1>1, PTL DEF Spec, OverrunIsFinal

(* However the bytes come in, a caller that reads to the end learns        *)
(* whether the stream fits: io.EOF comes after all bytes of a stream       *)
(* within the quota, the quota error for a longer one only, after one byte *)
(* more than the quota. This is what io.Copy, and so FitsWhatIsLeft of     *)
(* LayerSource, takes from the reader (quotaed_reader.go 24-37,            *)
(* layer_source.go 151-163).                                               *)
THEOREM CopiesDecide ==
  Spec => [](/\ err = "EOF" => length <= quota /\ delivered = length
             /\ err = "QuotaExceeded" => length > quota /\ delivered = quota + 1)
<1>1. QuotaInv =>
        /\ err = "EOF" => length <= quota /\ delivered = length
        /\ err = "QuotaExceeded" => length > quota /\ delivered = quota + 1
  BY QuotasAssumption, LengthsAssumption
  DEF QuotaInv, TypeOK, OverrunReported, EOFMeansWhole
<1>. QED
  BY QuotaInvariance, <1>1, PTL

=============================================================================
