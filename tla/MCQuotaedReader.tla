-------------------------- MODULE MCQuotaedReader ---------------------------
(* A small instance of QuotaedReader: quotas from the test's -1 up,        *)
(* streams shorter than, as long as and longer than the quota, and buffers *)
(* from empty to larger than both.                                         *)
EXTENDS QuotaedReader

MCQuotas == -1..3
MCLengths == 0..5
MCBufferSizes == {0, 1, 2, 6}
=============================================================================
