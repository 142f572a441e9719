----------------------------- MODULE GrootProofs -----------------------------
(***************************************************************************)
(* Proofs about Groot, for any number of processes, handles, images and    *)
(* limits.                                                                 *)
(***************************************************************************)
EXTENDS Groot, Induction

(* The size of the layers that a pull has gone through so far.             *)
SizeUpTo(image, n) == Sums(LayerSize, image)[n]

Pulling == {"createFetcher", "limit", "pull", "quota", "bundle", "metadata", "output"}
Complete == {"quota", "bundle", "metadata", "output"}

(* What the next call of process p says of its command, of the layers that *)
(* it has pulled, and of the quota.                                        *)
Stage(p) ==
  LET c == command[p] IN
    /\ pc[p] \in {"delete", "stats"} => c.name = pc[p]
    /\ pc[p] \in Complete \cup {"limit"} => c.name = "create"
    /\ pc[p] \in Pulling =>
         /\ c.name \in {"create", "pull"}
         /\ pulled[p] <= Len(c.image)
         /\ Size[p] = SizeUpTo(c.image, pulled[p])
         /\ \A k \in 1 .. pulled[p] : ChainID(c.image, k) \in volumes
    /\ pc[p] \in Complete => pulled[p] = Len(c.image)
    /\ pc[p] = "bundle" => ~LeavesNothing(p)

(* What p has made so far is in the store, unless another process has      *)
(* touched the handle.                                                     *)
Own(p) ==
  LET c == command[p] IN
    c.name = "create" /\ ~disturbed[p] =>
      /\ pc[p] \in {"metadata", "output", "succeeded"} =>
           /\ bundles[c.handle] # NoBundle
           /\ bundles[c.handle].layers = c.image
           /\ bundles[c.handle].limit = c.limit
           /\ bundles[c.handle].exclude = c.exclude
      /\ pc[p] \in {"output", "succeeded"} => metadata[c.handle] = SizeOf(c.image)

(* The inductive invariant.                                                *)
Inv ==
  /\ TypeOK
  /\ \A p \in Processes : Stage(p) /\ Own(p)
  /\ BundlesStandOnVolumes
  /\ LimitsAreKept

-----------------------------------------------------------------------------

(* The fields that a command has.                                          *)
LEMMA CommandFields ==
  ASSUME NEW c \in Command
  PROVE  /\ c.name \in {"create", "pull", "delete", "stats"}
         /\ c.name \in {"create", "pull"} =>
              c.image \in Images /\ c.image \in Seq(DiffIDs) /\ c.limit \in Int /\ c.exclude \in BOOLEAN
         /\ c.name = "create" => c.limit \in Limits
         /\ c.name = "pull" => c.limit = 0
         /\ c.name \in {"create", "delete", "stats"} => c.handle \in Handles
<1>1. CASE c \in [name : {"create"}, handle : Handles, image : Images, limit : Limits,
                    exclude : BOOLEAN]
  <2>1. /\ c.name = "create" /\ c.handle \in Handles /\ c.image \in Images
        /\ c.limit \in Limits /\ c.exclude \in BOOLEAN
    BY <1>1
  <2> QED BY <2>1, ImagesAssumption
<1>2. CASE c \in [name : {"pull"}, image : Images, limit : {0}, exclude : {FALSE}]
  <2>1. c.name = "pull" /\ c.image \in Images /\ c.limit = 0 /\ c.exclude \in BOOLEAN
    BY <1>2
  <2> QED BY <2>1, ImagesAssumption
<1>3. CASE c \in [name : {"delete", "stats"}, handle : Handles]
  <2>1. c.name \in {"delete", "stats"} /\ c.handle \in Handles
    BY <1>3
  <2> QED BY <2>1
<1> QED BY <1>1, <1>2, <1>3 DEF Command

(* The size of an image is that of all its layers, and adding the sizes of *)
(* the layers one by one ends there.                                       *)
LEMMA ImageSize ==
  ASSUME NEW image \in Images
  PROVE  /\ image \in Seq(DiffIDs) /\ Len(image) \in Nat
         /\ SizeOf(image) = SizeUpTo(image, Len(image))
         /\ SizeUpTo(image, 0) = 0
         /\ \A n \in 0 .. Len(image) - 1 :
              SizeUpTo(image, n + 1) = SizeUpTo(image, n) + LayerSize[image[n + 1]]
<1>1. LayerSize \in [DiffIDs -> Int] /\ image \in Seq(DiffIDs)
  BY ImagesAssumption
<1>2. SizeOf(image) = Sums(LayerSize, image)[Len(image)]
  BY DEF SizeOf, Sum
<1>3. /\ Sums(LayerSize, image)[0] = 0
      /\ \A n \in 1 .. Len(image) :
           Sums(LayerSize, image)[n] = Sums(LayerSize, image)[n - 1] + LayerSize[image[n]]
  BY <1>1, SumsOf
<1>4. Len(image) \in Nat
  BY <1>1
<1>5. ASSUME NEW n \in 0 .. Len(image) - 1
      PROVE  SizeUpTo(image, n + 1) = SizeUpTo(image, n) + LayerSize[image[n + 1]]
  <2>1. n + 1 \in 1 .. Len(image) /\ (n + 1) - 1 = n
    BY <1>4
  <2> QED BY <1>3, <2>1 DEF SizeUpTo
<1> QED BY <1>1, <1>2, <1>3, <1>4, <1>5 DEF SizeUpTo

-----------------------------------------------------------------------------

(* Initially nothing is in the store and nobody does anything.             *)
LEMMA InitInv == Init => Inv
<1> SUFFICES ASSUME Init PROVE Inv
  OBVIOUS
<1>1. TypeOK
  BY DEF Init, TypeOK
<1>2. ASSUME NEW p \in Processes PROVE Stage(p) /\ Own(p)
  BY DEF Init, Stage, Own, Pulling, Complete
<1>3. BundlesStandOnVolumes /\ LimitsAreKept
  BY DEF Init, BundlesStandOnVolumes, LimitsAreKept
<1> QED BY <1>1, <1>2, <1>3 DEF Inv

(* A step of p that leaves the store alone and other processes' variables  *)
(* as they are maintains the invariant, if it does so for p.               *)
LEMMA LocalInv ==
  ASSUME Inv, NEW p \in Processes,
         TypeOK', Stage(p)', Own(p)',
         UNCHANGED storeVars,
         \A q \in Processes \ {p} :
           /\ pc'[q] = pc[q] /\ command'[q] = command[q] /\ pulled'[q] = pulled[q]
           /\ Size'[q] = Size[q] /\ disturbed'[q] = disturbed[q]
  PROVE  Inv'
<1>1. ASSUME NEW q \in Processes \ {p} PROVE Stage(q)' /\ Own(q)'
  <2>1. Stage(q) /\ Own(q)
    BY DEF Inv
  <2>2. Stage(q)'
    BY <2>1 DEF Stage, storeVars, LeavesNothing, Limited
  <2>3. Own(q)'
    BY <2>1 DEF Own, storeVars
  <2> QED BY <2>2, <2>3
<1>2. BundlesStandOnVolumes' /\ LimitsAreKept'
  BY DEF Inv, BundlesStandOnVolumes, LimitsAreKept, storeVars
<1> QED BY <1>1, <1>2 DEF Inv

-----------------------------------------------------------------------------
(* Steps that leave the store alone.                                       *)

(* Start of a command.                                                     *)
LEMMA StartInv ==
  ASSUME Inv, NEW p \in Processes, NEW c \in Command, Start(p, c)
  PROVE  Inv'
<1>1. TypeOK
  BY DEF Inv
<1>2. /\ command'[p] = c /\ pulled'[p] = 0 /\ Size'[p] = 0 /\ disturbed'[p] = FALSE
      /\ pc'[p] = IF c.name \in {"create", "pull"} THEN "createFetcher" ELSE c.name
  BY <1>1 DEF Start, Goto, TypeOK
<1>3. c.name \in {"create", "pull", "delete", "stats"}
  BY CommandFields
<1>4. TypeOK'
  BY <1>1, <1>2, <1>3 DEF TypeOK, Start, Goto, storeVars, Running
<1>5. Stage(p)'
  <2>1. CASE c.name \in {"create", "pull"}
    <3>1. c.image \in Images
      BY <2>1, CommandFields
    <3>2. Len(c.image) \in Nat /\ SizeUpTo(c.image, 0) = 0
      BY <3>1, ImageSize
    <3> QED BY <1>2, <2>1, <3>2 DEF Stage, Pulling, Complete, SizeUpTo
  <2>2. CASE c.name \in {"delete", "stats"}
    BY <1>2, <2>2 DEF Stage, Pulling, Complete
  <2> QED BY <1>3, <2>1, <2>2
<1>6. Own(p)'
  BY <1>2, <1>3 DEF Own
<1> QED BY <1>1, <1>4, <1>5, <1>6, LocalInv DEF Start, Goto, TypeOK

(* The command fails, anywhere.                                            *)
LEMMA FailsInv ==
  ASSUME Inv, NEW p \in Processes, Fails(p)
  PROVE  Inv'
<1>1. TypeOK
  BY DEF Inv
<1>2. pc'[p] = "failed"
  BY <1>1 DEF Fails, Goto, TypeOK
<1>3. TypeOK'
  BY <1>1, <1>2 DEF TypeOK, Fails, Goto, storeVars
<1>4. Stage(p)' /\ Own(p)'
  BY <1>2 DEF Stage, Own, Pulling, Complete
<1> QED BY <1>1, <1>3, <1>4, LocalInv DEF Fails, Goto, TypeOK

(* The steps that only take p to its next call.                            *)
LEMMA GotoInv ==
  ASSUME Inv, NEW p \in Processes,
         CreateFetcher(p) \/ CheckLimit(p) \/ Pulled(p) \/ CheckQuota(p) \/ Output(p) \/ Stats(p)
  PROVE  Inv'
<1>1. TypeOK /\ Stage(p) /\ Own(p)
  BY DEF Inv
<1>2. PICK label \in Running \cup {"failed", "succeeded"} :
        /\ pc' = [pc EXCEPT ![p] = label]
        /\ UNCHANGED <<storeVars, command, pulled, Size, disturbed>>
  BY DEF CreateFetcher, CheckLimit, Pulled, CheckQuota, Output, Stats, Goto, Running
<1>3. pc'[p] = label
  BY <1>1, <1>2 DEF TypeOK
<1>4. command[p] \in Command
  BY <1>1 DEF TypeOK
<1> DEFINE c == command[p]
<1>5. /\ c.name = "create" => c.limit \in Int
      /\ c.name = "pull" => c.limit = 0
  BY <1>4, CommandFields
<1>6. pc'[p] \in {"pull", "quota", "bundle", "metadata", "output"} => c.limit >= 0
  BY <1>1, <1>3, <1>5
  DEF CreateFetcher, CheckLimit, Pulled, CheckQuota, Output, Stats, Goto, TypeOK, Stage,
      Pulling, Complete
<1>7. TypeOK'
  BY <1>1, <1>2, <1>3, <1>6 DEF TypeOK, storeVars, Running
<1>8. Stage(p)'
  BY <1>1, <1>2, <1>3
  DEF CreateFetcher, CheckLimit, Pulled, CheckQuota, Output, Stats, Goto, TypeOK, Stage,
      Pulling, Complete, LeavesNothing, Limited, storeVars
<1>9. Own(p)'
  BY <1>1, <1>2, <1>3
  DEF CreateFetcher, CheckLimit, Pulled, CheckQuota, Output, Stats, Goto, TypeOK, Stage, Own,
      Pulling, Complete, storeVars
<1> QED BY <1>1, <1>2, <1>7, <1>8, <1>9, LocalInv DEF TypeOK

-----------------------------------------------------------------------------
(* Steps that change the store.                                            *)

(* A layer more in the store, and in the size.                             *)
LEMMA UnpackInv ==
  ASSUME Inv, NEW p \in Processes, Unpack(p)
  PROVE  Inv'
<1> DEFINE image == command[p].image
           k == pulled[p] + 1
<1>1. TypeOK /\ Stage(p) /\ Own(p)
  BY DEF Inv
<1>2. image \in Images
  BY <1>1, CommandFields DEF TypeOK, Stage, Unpack, Pulling
<1>3. /\ image \in Seq(DiffIDs) /\ Len(image) \in Nat
      /\ SizeUpTo(image, k) = SizeUpTo(image, pulled[p]) + LayerSize[image[k]]
  <2>1. pulled[p] \in 0 .. Len(image) - 1
    BY <1>1, <1>2, ImageSize DEF TypeOK, Unpack
  <2> QED BY <1>2, <2>1, ImageSize
<1>4. k \in 1 .. Len(image) /\ LayerSize[image[k]] \in Nat
  BY <1>1, <1>3, ImagesAssumption DEF TypeOK, Unpack
<1>5. /\ volumes' = volumes \cup {ChainID(image, k)}
      /\ Size' = [Size EXCEPT ![p] = Size[p] + LayerSize[image[k]]]
      /\ pulled' = [pulled EXCEPT ![p] = k]
      /\ pc[p] = "pull"
      /\ UNCHANGED <<bundles, metadata, pc, command, disturbed>>
  BY DEF Unpack
<1>6. TypeOK'
  <2>1. ChainID(image, k) \in Seq(DiffIDs)
    BY <1>3, <1>4 DEF ChainID
  <2>2. Size' \in [Processes -> Nat] /\ pulled' \in [Processes -> Nat]
    BY <1>1, <1>4, <1>5 DEF TypeOK
  <2> QED BY <1>1, <1>5, <2>1, <2>2 DEF TypeOK
<1>7. Stage(p)'
  <2>1. pulled'[p] = k /\ Size'[p] = SizeUpTo(image, k)
    BY <1>1, <1>3, <1>5 DEF TypeOK, Stage, Pulling
  <2>2. ASSUME NEW j \in 1 .. k PROVE ChainID(image, j) \in volumes'
    BY <1>1, <1>5 DEF TypeOK, Stage, Pulling
  <2>3. command'[p].name \in {"create", "pull"}
    BY <1>1, <1>5 DEF Stage, Pulling
  <2> QED BY <1>4, <1>5, <2>1, <2>2, <2>3 DEF Stage, Pulling, Complete, SizeUpTo
<1>8. ASSUME NEW q \in Processes \ {p} PROVE Stage(q)'
  <2>1. Stage(q)
    BY DEF Inv
  <2>2. pulled'[q] = pulled[q] /\ Size'[q] = Size[q] /\ volumes \subseteq volumes'
    BY <1>1, <1>5 DEF TypeOK
  <2> QED BY <1>5, <2>1, <2>2 DEF Stage, LeavesNothing, Limited
<1>9. ASSUME NEW q \in Processes PROVE Own(q)'
  <2>1. Own(q)
    BY DEF Inv
  <2> QED BY <1>5, <2>1 DEF Own
<1>10. BundlesStandOnVolumes' /\ LimitsAreKept'
  BY <1>5 DEF Inv, BundlesStandOnVolumes, LimitsAreKept
<1> QED BY <1>6, <1>7, <1>8, <1>9, <1>10 DEF Inv

(* A step that touches the handle of p's command leaves to others what     *)
(* they made under other handles, and disturbs who made it under this one. *)
LEMMA OthersInv ==
  ASSUME Inv, NEW p \in Processes, NEW h \in Handles, Disturb(p, h),
         NEW q \in Processes \ {p},
         \A g \in Handles \ {h} : bundles'[g] = bundles[g] /\ metadata'[g] = metadata[g],
         pc'[q] = pc[q], UNCHANGED <<volumes, command, pulled, Size>>
  PROVE  Stage(q)' /\ Own(q)'
<1>1. TypeOK /\ Stage(q) /\ Own(q)
  BY DEF Inv
<1>2. Stage(q)'
  BY <1>1 DEF Stage, LeavesNothing, Limited
<1>3. disturbed'[q] = \/ disturbed[q]
                      \/ /\ command[q].name = "create"
                         /\ pc[q] \in {"metadata", "output", "succeeded"}
                         /\ command[q].handle = h
  BY DEF Disturb
<1>4. command[q].name = "create" => command[q].handle \in Handles
  BY <1>1, CommandFields DEF TypeOK
<1>5. Own(q)'
  BY <1>1, <1>3, <1>4 DEF Own
<1> QED BY <1>2, <1>5

(* Disturb says nothing else.                                              *)
LEMMA DisturbType ==
  ASSUME TypeOK, NEW p \in Processes, NEW h, Disturb(p, h)
  PROVE  disturbed' \in [Processes -> BOOLEAN] /\ (disturbed'[p] <=> disturbed[p])
<1>1. disturbed'[p] <=> disturbed[p]
  BY DEF Disturb, TypeOK
<1>2. disturbed' \in [Processes -> BOOLEAN]
  BY DEF Disturb, TypeOK
<1> QED BY <1>1, <1>2

(* Bundle stands on the volumes just pulled and keeps the limit.           *)
LEMMA BundleInv ==
  ASSUME Inv, NEW p \in Processes, Bundle(p)
  PROVE  Inv'
<1> DEFINE c == command[p]
           h == c.handle
           b == [layers |-> c.image, quota |-> quota(p), limit |-> c.limit, exclude |-> c.exclude]
<1>1. TypeOK /\ Stage(p) /\ Own(p)
  BY DEF Inv
<1>2. /\ pc[p] = "bundle"
      /\ bundles' = [bundles EXCEPT ![h] = b]
      /\ Disturb(p, h)
      /\ pc' = [pc EXCEPT ![p] = "metadata"]
      /\ UNCHANGED <<volumes, metadata, command, pulled, Size>>
  BY DEF Bundle, Goto
<1>3. /\ c.name = "create"
      /\ h \in Handles /\ c.image \in Images /\ c.limit \in Limits /\ c.limit \in Int
      /\ c.exclude \in BOOLEAN
  BY <1>1, <1>2, CommandFields DEF TypeOK, Stage, Complete
<1>4. /\ c.limit >= 0 /\ Size[p] \in Nat /\ Size[p] = SizeOf(c.image)
      /\ pulled[p] = Len(c.image)
      /\ \A k \in 1 .. Len(c.image) : ChainID(c.image, k) \in volumes
      /\ ~LeavesNothing(p)
  BY <1>1, <1>2, <1>3, ImageSize DEF TypeOK, Stage, Pulling, Complete
<1>5. quota(p) \in Int
  BY <1>3, <1>4 DEF quota
<1>6. b \in BundleRecord
  BY <1>3, <1>5 DEF BundleRecord
<1>7. b # NoBundle
  BY <1>6, NoBundleAssumption
<1> HIDE DEF b
<1>8. disturbed' \in [Processes -> BOOLEAN] /\ (disturbed'[p] <=> disturbed[p])
  BY <1>1, <1>2, DisturbType
<1>9. TypeOK'
  BY <1>1, <1>2, <1>4, <1>6, <1>8 DEF TypeOK, Running
<1>10. Stage(p)'
  BY <1>1, <1>2 DEF TypeOK, Stage, Pulling, Complete
<1>11. bundles'[h] = b
  BY <1>1, <1>2, <1>3 DEF TypeOK
<1>12. Own(p)'
  <2>1. pc'[p] = "metadata"
    BY <1>1, <1>2 DEF TypeOK
  <2> QED BY <1>2, <1>7, <1>11, <2>1 DEF Own, b
<1>13. ASSUME NEW q \in Processes \ {p} PROVE Stage(q)' /\ Own(q)'
  BY <1>1, <1>2, <1>3, OthersInv DEF TypeOK
<1>14. BundlesStandOnVolumes'
  <2>1. LayersOf(b.layers) \subseteq volumes
    BY <1>4 DEF b, LayersOf
  <2> QED BY <1>1, <1>2, <1>11, <2>1 DEF Inv, TypeOK, BundlesStandOnVolumes
<1>15. LimitsAreKept'
  <2>1. b.limit # 0 => /\ b.quota > 0
                       /\ b.limit = b.quota + (IF b.exclude THEN 0 ELSE SizeOf(b.layers))
    BY <1>3, <1>4 DEF b, quota, LeavesNothing, Limited
  <2> QED BY <1>1, <1>2, <1>11, <2>1 DEF Inv, TypeOK, LimitsAreKept
<1> QED BY <1>9, <1>10, <1>12, <1>13, <1>14, <1>15 DEF Inv

(* The metadata are those of the image that has been pulled.               *)
LEMMA WriteMetadataInv ==
  ASSUME Inv, NEW p \in Processes, WriteMetadata(p)
  PROVE  Inv'
<1> DEFINE c == command[p]
           h == c.handle
<1>1. TypeOK /\ Stage(p) /\ Own(p)
  BY DEF Inv
<1>2. /\ pc[p] = "metadata"
      /\ metadata' = [metadata EXCEPT ![h] = Size[p]]
      /\ Disturb(p, h)
      /\ pc' = [pc EXCEPT ![p] = "output"]
      /\ UNCHANGED <<volumes, bundles, command, pulled, Size>>
  BY DEF WriteMetadata, Goto
<1>3. c.name = "create" /\ h \in Handles /\ c.image \in Images
  BY <1>1, <1>2, CommandFields DEF TypeOK, Stage, Complete
<1>4. Size[p] \in Nat /\ Size[p] = SizeOf(c.image) /\ c.limit >= 0
  BY <1>1, <1>2, <1>3, ImageSize DEF TypeOK, Stage, Pulling, Complete
<1>5. disturbed' \in [Processes -> BOOLEAN] /\ (disturbed'[p] <=> disturbed[p])
  BY <1>1, <1>2, DisturbType
<1>6. pc'[p] = "output" /\ metadata'[h] = Size[p]
  BY <1>1, <1>2, <1>3 DEF TypeOK
<1>7. TypeOK'
  BY <1>1, <1>2, <1>4, <1>5 DEF TypeOK, Running
<1>8. Stage(p)'
  BY <1>1, <1>2, <1>6 DEF Stage, Pulling, Complete
<1>9. Own(p)'
  BY <1>1, <1>2, <1>4, <1>5, <1>6 DEF Own
<1>10. ASSUME NEW q \in Processes \ {p} PROVE Stage(q)' /\ Own(q)'
  BY <1>1, <1>2, <1>3, OthersInv DEF TypeOK
<1>11. BundlesStandOnVolumes' /\ LimitsAreKept'
  BY <1>2 DEF Inv, BundlesStandOnVolumes, LimitsAreKept
<1> QED BY <1>7, <1>8, <1>9, <1>10, <1>11 DEF Inv

(* Bundle and metadata go; volumes stay, for other bundles stand on them.  *)
LEMMA DeleteInv ==
  ASSUME Inv, NEW p \in Processes, Delete(p)
  PROVE  Inv'
<1> DEFINE c == command[p]
           h == c.handle
<1>1. TypeOK /\ Stage(p) /\ Own(p)
  BY DEF Inv
<1>2. /\ pc[p] = "delete"
      /\ bundles' = [bundles EXCEPT ![h] = NoBundle]
      /\ metadata' = [metadata EXCEPT ![h] = NoMetadata]
      /\ Disturb(p, h)
      /\ pc' = [pc EXCEPT ![p] = "succeeded"]
      /\ UNCHANGED <<volumes, command, pulled, Size>>
  BY DEF Delete, Goto
<1>3. c.name = "delete" /\ h \in Handles
  BY <1>1, <1>2, CommandFields DEF TypeOK, Stage
<1>4. disturbed' \in [Processes -> BOOLEAN]
  BY <1>1, <1>2, DisturbType
<1>5. TypeOK'
  BY <1>1, <1>2, <1>4 DEF TypeOK, Running
<1>6. Stage(p)' /\ Own(p)'
  BY <1>1, <1>2, <1>3 DEF TypeOK, Stage, Own, Pulling, Complete
<1>7. ASSUME NEW q \in Processes \ {p} PROVE Stage(q)' /\ Own(q)'
  BY <1>1, <1>2, <1>3, OthersInv DEF TypeOK
<1>8. BundlesStandOnVolumes' /\ LimitsAreKept'
  BY <1>1, <1>2 DEF Inv, TypeOK, BundlesStandOnVolumes, LimitsAreKept
<1> QED BY <1>5, <1>6, <1>7, <1>8 DEF Inv

-----------------------------------------------------------------------------

(* The inductive invariant holds of all commands of all processes.         *)
THEOREM Invariance == Spec => []Inv
<1>1. Inv /\ [Next]_vars => Inv'
  <2> SUFFICES ASSUME Inv, [Next]_vars PROVE Inv'
    OBVIOUS
  <2>1. ASSUME NEW p \in Processes, NEW c \in Command, Start(p, c) PROVE Inv'
    BY <2>1, StartInv
  <2>2. ASSUME NEW p \in Processes, Step(p) PROVE Inv'
    BY <2>2, GotoInv, UnpackInv, BundleInv, WriteMetadataInv, DeleteInv DEF Step
  <2>3. ASSUME NEW p \in Processes, Fails(p) PROVE Inv'
    BY <2>3, FailsInv
  <2>4. CASE UNCHANGED vars
    BY <2>4 DEF vars, storeVars, Inv, TypeOK, Stage, Own, LeavesNothing, Limited,
                BundlesStandOnVolumes, LimitsAreKept
  <2> QED BY <2>1, <2>2, <2>3, <2>4 DEF Next
<1> QED BY InitInv, <1>1, PTL DEF Spec

(* The variables keep their types, and a command with a negative limit     *)
(* never gets past the check in Create.                                    *)
THEOREM TypeCorrect == Spec => []TypeOK
<1>1. Inv => TypeOK
  BY DEF Inv
<1> QED BY Invariance, <1>1, PTL

(* All layers of every bundle are in the store.                            *)
THEOREM BundlesStand == Spec => []BundlesStandOnVolumes
<1>1. Inv => BundlesStandOnVolumes
  BY DEF Inv
<1> QED BY Invariance, <1>1, PTL

(* A bundle that was asked for with a limit has a quota, and image and     *)
(* quota add up to the limit.                                              *)
THEOREM LimitsKept == Spec => []LimitsAreKept
<1>1. Inv => LimitsAreKept
  BY DEF Inv
<1> QED BY Invariance, <1>1, PTL

(* A create that reports success, and that nobody disturbed, has made the  *)
(* bundle and the metadata it was asked for.                               *)
THEOREM CreateIsComplete == Spec => []ReportedCreateIsComplete
<1>1. Inv => ReportedCreateIsComplete
  BY DEF Inv, Own, ReportedCreateIsComplete
<1> QED BY Invariance, <1>1, PTL

(* The commands do to the store what pulling images does, and no more.     *)
THEOREM StoreImplementation == Spec => ImplementsStore
<1> DEFINE served == {[id |-> v, stack |-> v] : v \in volumes}
<1>1. Init => Store!Init
  BY DEF Init, Store!Init
<1>2. Inv /\ [Next]_vars => [Store!Next]_served
  <2> SUFFICES ASSUME Inv, [Next]_vars, volumes' # volumes PROVE Store!Next
    OBVIOUS
  <2>1. PICK p \in Processes : Unpack(p)
    BY DEF Next, Step, vars, Start, Fails, CreateFetcher, CheckLimit, Pulled, CheckQuota,
           Bundle, WriteMetadata, Output, Delete, Stats, storeVars
  <2>2. TypeOK /\ Stage(p)
    BY DEF Inv
  <2>3. PICK image, k : image = command[p].image /\ k = pulled[p] + 1
    OBVIOUS
  <2>4. image \in Images /\ Len(image) \in Nat
    BY <2>1, <2>2, <2>3, CommandFields, ImageSize DEF TypeOK, Stage, Unpack, Pulling
  <2>5. k \in 1 .. Len(image) /\ k - 1 = pulled[p] /\ pulled[p] \in Nat
    BY <2>1, <2>2, <2>3, <2>4 DEF TypeOK, Unpack
  <2>6. k = 1 \/ ChainID(image, k - 1) \in volumes
    BY <2>1, <2>2, <2>3, <2>5 DEF Stage, Unpack, Pulling
  <2>7. volumes' = volumes \cup {ChainID(image, k)}
    BY <2>1, <2>3 DEF Unpack
  <2>8. Store!Serve(image, k)
    BY <2>6, <2>7 DEF Store!Serve, Store!Volume, ChainID
  <2> QED BY <2>4, <2>5, <2>8 DEF Store!Next
<1> QED BY Invariance, <1>1, <1>2, PTL DEF Spec, ImplementsStore, Store!Spec

-----------------------------------------------------------------------------
(* No command is held up by another.                                       *)

(* The calls that the command of process p has still to make, at most.     *)
StepsLeft(p) ==
  LET layersLeft == Len(command[p].image) - pulled[p] IN
    CASE pc[p] = "createFetcher"       -> layersLeft + 7
      [] pc[p] = "limit"               -> layersLeft + 6
      [] pc[p] = "pull"                -> layersLeft + 5
      [] pc[p] = "quota"               -> 4
      [] pc[p] = "bundle"              -> 3
      [] pc[p] = "metadata"            -> 2
      [] pc[p] \in {"output", "delete", "stats"} -> 1
      [] OTHER                         -> 0

(* A step of p ends the command or leaves it fewer calls; a step of        *)
(* another process leaves it where it is.                                  *)
GetsOn(p) ==
  \/ Fails(p)
  \/ Step(p) /\ (pc'[p] \notin Running \/ StepsLeft(p)' < StepsLeft(p))
  \/ \E q \in Processes \ {p} :
       /\ (\E c \in Command : Start(q, c)) \/ Step(q) \/ Fails(q)
       /\ pc'[p] = pc[p] /\ command'[p] = command[p] /\ pulled'[p] = pulled[p]
       /\ StepsLeft(p)' = StepsLeft(p)

(* What is left of a running command is a number of calls.                 *)
LEMMA StepsLeftNat ==
  ASSUME Inv, NEW p \in Processes, pc[p] \in Running
  PROVE  StepsLeft(p) \in Nat
<1>1. TypeOK /\ Stage(p)
  BY DEF Inv
<1>2. CASE pc[p] \in {"createFetcher", "limit", "pull"}
  <2>1. Len(command[p].image) \in Nat /\ pulled[p] \in Nat /\ pulled[p] <= Len(command[p].image)
    BY <1>1, <1>2, CommandFields, ImageSize DEF TypeOK, Stage, Pulling
  <2>2. Len(command[p].image) - pulled[p] \in Nat
    BY <2>1
  <2>3. CASE pc[p] = "createFetcher"
    BY <2>2, <2>3 DEF StepsLeft
  <2>4. CASE pc[p] = "limit"
    BY <2>2, <2>4 DEF StepsLeft
  <2>5. CASE pc[p] = "pull"
    BY <2>2, <2>5 DEF StepsLeft
  <2> QED BY <1>2, <2>3, <2>4, <2>5
<1>3. CASE pc[p] \notin {"createFetcher", "limit", "pull"}
  BY <1>3 DEF StepsLeft, Running
<1> QED BY <1>2, <1>3

(* Each step of a command takes it nearer to its end.                      *)
LEMMA OwnStepGetsOn ==
  ASSUME Inv, NEW p \in Processes, Step(p)
  PROVE  pc'[p] \notin Running \/ StepsLeft(p)' < StepsLeft(p)
<1>1. TypeOK /\ Stage(p)
  BY DEF Inv
<1>2. CASE CreateFetcher(p) \/ CheckLimit(p)
  <2>1. Len(command[p].image) \in Nat /\ pulled[p] \in Nat
    BY <1>1, <1>2, CommandFields, ImageSize
    DEF TypeOK, Stage, Pulling, CreateFetcher, CheckLimit
  <2>2. CASE CreateFetcher(p)
    BY <1>1, <2>1, <2>2 DEF CreateFetcher, Goto, TypeOK, StepsLeft
  <2>3. CASE CheckLimit(p)
    BY <1>1, <2>1, <2>3 DEF CheckLimit, Goto, TypeOK, StepsLeft, Running
  <2> QED BY <1>2, <2>2, <2>3
<1>3. CASE Unpack(p) \/ Pulled(p)
  <2>1. /\ Len(command[p].image) \in Nat /\ pulled[p] \in Nat
        /\ pulled[p] <= Len(command[p].image) /\ pc[p] = "pull"
    BY <1>1, <1>3, CommandFields, ImageSize DEF TypeOK, Stage, Pulling, Unpack, Pulled
  <2>2. CASE Unpack(p)
    <3>1. pulled'[p] = pulled[p] + 1 /\ pc' = pc /\ command' = command
      BY <1>1, <2>2 DEF Unpack, TypeOK
    <3> QED BY <2>1, <3>1 DEF StepsLeft
  <2>3. CASE Pulled(p)
    BY <1>1, <2>1, <2>3 DEF Pulled, Goto, TypeOK, StepsLeft, Running
  <2> QED BY <1>3, <2>2, <2>3
<1>4. CASE CheckQuota(p)
  BY <1>1, <1>4 DEF CheckQuota, Goto, TypeOK, StepsLeft, Running
<1>5. CASE Bundle(p)
  BY <1>1, <1>5 DEF Bundle, Goto, TypeOK, StepsLeft
<1>6. CASE WriteMetadata(p)
  BY <1>1, <1>6 DEF WriteMetadata, Goto, TypeOK, StepsLeft
<1>7. CASE Output(p) \/ Delete(p) \/ Stats(p)
  BY <1>1, <1>7 DEF Output, Delete, Stats, Goto, TypeOK, Running
<1> QED BY <1>2, <1>3, <1>4, <1>5, <1>6, <1>7 DEF Step

(* A step of another process does not touch what a command goes by.        *)
LEMMA OthersKeepPlace ==
  ASSUME TypeOK, NEW p \in Processes, NEW q \in Processes \ {p},
         (\E c \in Command : Start(q, c)) \/ Step(q) \/ Fails(q)
  PROVE  pc'[p] = pc[p] /\ command'[p] = command[p] /\ pulled'[p] = pulled[p]
<1>1. CASE \E c \in Command : Start(q, c)
  BY <1>1 DEF Start, Goto, TypeOK
<1>2. CASE Step(q)
  BY <1>2 DEF Step, CreateFetcher, CheckLimit, Unpack, Pulled, CheckQuota, Bundle,
              WriteMetadata, Output, Delete, Stats, Goto, TypeOK
<1>3. CASE Fails(q)
  BY <1>3 DEF Fails, Goto
<1> QED BY <1>1, <1>2, <1>3

(* A command ends after no more steps of its own than its image has layers *)
(* and 7, whatever the other processes do meanwhile, with the same handle  *)
(* or the same layers: nobody sets a command back or gives it more to do   *)
(* (create.go 10-57, pull.go 8-15).                                        *)
THEOREM CommandsGetOn ==
  Spec => [][\A p \in Processes : (pc[p] \in Running) => StepsLeft(p) \in Nat /\ GetsOn(p)]_vars
<1>1. Inv /\ [Next]_vars =>
        [\A p \in Processes : (pc[p] \in Running) => StepsLeft(p) \in Nat /\ GetsOn(p)]_vars
  <2> SUFFICES ASSUME Inv, Next, NEW p \in Processes, pc[p] \in Running
               PROVE  StepsLeft(p) \in Nat /\ GetsOn(p)
    OBVIOUS
  <2>1. StepsLeft(p) \in Nat
    BY StepsLeftNat
  <2>2. PICK q \in Processes : (\E c \in Command : Start(q, c)) \/ Step(q) \/ Fails(q)
    BY DEF Next
  <2>3. CASE q = p
    <3>1. ~(\E c \in Command : Start(p, c))
      BY DEF Start
    <3> QED BY <2>1, <2>2, <2>3, <3>1, OwnStepGetsOn DEF GetsOn
  <2>4. CASE q # p
    <3>1. pc'[p] = pc[p] /\ command'[p] = command[p] /\ pulled'[p] = pulled[p]
      BY <2>2, <2>4, OthersKeepPlace DEF Inv
    <3>2. StepsLeft(p)' = StepsLeft(p)
      BY <3>1 DEF StepsLeft
    <3> QED BY <2>1, <2>2, <2>4, <3>1, <3>2 DEF GetsOn
  <2> QED BY <2>3, <2>4
<1> QED BY Invariance, <1>1, PTL DEF Spec

=============================================================================
