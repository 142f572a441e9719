-------------------------- MODULE ImagePullerProofs --------------------------
(***************************************************************************)
(* Proofs about ImagePuller, for any manifests, limits and contents.       *)
(***************************************************************************)
EXTENDS ImagePuller, Induction, SequenceTheorems

(* A manifest that createLayerInfos takes, or the empty one of a pull that *)
(* has not got any.                                                        *)
Readable ==
  {m \in [layers : Seq(Layer), diffIDs : Seq(Contents \cup {NotDigest})] : ~Panics(m)}

(* The image of a manifest has a layer for each of the manifest's.         *)
LEMMA ImageFacts ==
  ASSUME NEW m \in Readable
  PROVE  /\ ImageOf(m) \in Seq(Contents) /\ Len(ImageOf(m)) = Len(m.layers)
         /\ Len(m.layers) \in Nat
         /\ \A k \in 1 .. Len(m.layers) : ImageOf(m)[k] = m.diffIDs[k] /\ m.diffIDs[k] \in Contents
<1> DEFINE n == Len(m.layers)
           d == m.diffIDs
<1>1. m.layers \in Seq(Layer) /\ d \in Seq(Contents \cup {NotDigest}) /\ n \in Nat /\ Len(d) \in Nat
  BY DEF Readable
<1>2. \A k \in 1 .. n : k <= Len(d) /\ d[k] # NotDigest
  BY <1>1 DEF Readable, Panics
<1> HIDE DEF n, d
<1>3. n <= Len(d)
  BY <1>1, <1>2
<1>4. \A k \in 1 .. n : d[k] \in Contents
  BY <1>1, <1>2
<1>5. /\ Len(SubSeq(d, 1, n)) = n
      /\ \A k \in 1 .. n : SubSeq(d, 1, n)[k] = d[k]
      /\ SubSeq(d, 1, n) \in Seq(Contents \cup {NotDigest})
  BY <1>1, <1>3
<1>6. SubSeq(d, 1, n) \in Seq(Contents)
  <2>1. PICK s : s = SubSeq(d, 1, n)
    OBVIOUS
  <2>2. \A k \in 1 .. Len(s) : s[k] \in Contents
    BY <1>4, <1>5, <2>1
  <2> QED BY <1>5, <2>1, <2>2
<1> QED BY <1>1, <1>4, <1>5, <1>6 DEF ImageOf, n, d

(* The stack of the lowest k layers, and the one below it.                 *)
LEMMA StackFacts ==
  ASSUME NEW s \in Seq(Contents), NEW k \in 1 .. Len(s)
  PROVE  /\ SubSeq(s, 1, k) \in Seq(Contents) /\ SubSeq(s, 1, k - 1) \in Seq(Contents)
         /\ Len(SubSeq(s, 1, k)) = k /\ Len(SubSeq(s, 1, k - 1)) = k - 1
         /\ SubSeq(s, 1, k)[k] = s[k]
         /\ Append(SubSeq(s, 1, k - 1), s[k]) = SubSeq(s, 1, k)
<1>1. /\ SubSeq(s, 1, k) \in Seq(Contents) /\ SubSeq(s, 1, k - 1) \in Seq(Contents)
      /\ Len(SubSeq(s, 1, k)) = k /\ Len(SubSeq(s, 1, k - 1)) = k - 1
      /\ SubSeq(s, 1, k)[k] = s[k]
  OBVIOUS
<1> DEFINE a == Append(SubSeq(s, 1, k - 1), s[k])
           b == SubSeq(s, 1, k)
<1>2. a \in Seq(Contents) /\ Len(a) = k
  BY <1>1
<1>3. \A i \in 1 .. k : a[i] = b[i]
  BY <1>1
<1> HIDE DEF a, b
<1>4. b \in Seq(Contents) /\ Len(b) = k
  BY <1>1 DEF b
<1>5. a = b
  BY <1>2, <1>3, <1>4, SeqEqual
<1> QED BY <1>1, <1>5 DEF a, b

(* What createLayerInfos makes of a manifest: the chain ID of a layer is   *)
(* the stack of the image up to it.                                        *)
LEMMA InfosOf ==
  ASSUME NEW m \in Readable
  PROVE  /\ Len(createLayerInfos(m)) = Len(m.layers)
         /\ \A k \in 1 .. Len(m.layers) :
              /\ createLayerInfos(m)[k].Size = m.layers[k].size
              /\ createLayerInfos(m)[k].DiffID = ImageOf(m)[k]
              /\ createLayerInfos(m)[k].ChainID = SubSeq(ImageOf(m), 1, k)
<1> DEFINE N == Len(m.layers)
           s == ImageOf(m)
           Eq(f) == f = [i \in 0 .. N |->
                           IF i = 0 THEN NoParent ELSE chainID(m.diffIDs[i], f[i - 1])]
           stack == [i \in 0 .. N |-> SubSeq(s, 1, i)]
           chain == CHOOSE f : Eq(f)
           info(i) == [BlobID        |-> m.layers[i].digest,
                       Size          |-> m.layers[i].size,
                       gzip          |-> m.layers[i].gzip,
                       DiffID        |-> m.diffIDs[i],
                       ChainID       |-> chain[i],
                       ParentChainID |-> chain[i - 1]]
<1>1. /\ N \in Nat /\ s \in Seq(Contents) /\ Len(s) = N
      /\ \A k \in 1 .. N : s[k] = m.diffIDs[k] /\ m.diffIDs[k] \in Contents
  BY ImageFacts
<1> HIDE DEF s, N
<1>2. Eq(stack)
  <2>1. SubSeq(s, 1, 0) = NoParent
    BY <1>1 DEF NoParent
  <2>2. ASSUME NEW i \in 1 .. N PROVE SubSeq(s, 1, i) = Append(stack[i - 1], m.diffIDs[i])
    <3>1. i - 1 \in 0 .. N
      BY <1>1
    <3> QED BY <1>1, <3>1, StackFacts
  <2> HIDE DEF stack
  <2>3. \A i \in 0 .. N : stack[i] = IF i = 0 THEN NoParent ELSE chainID(m.diffIDs[i], stack[i - 1])
    BY <1>1, <2>1, <2>2 DEF chainID, stack
  <2>4. stack = [i \in 0 .. N |-> stack[i]]
    BY DEF stack
  <2> QED BY <2>3, <2>4
<1>3. Eq(chain)
  <2> HIDE DEF Eq, stack
  <2>1. \E f : Eq(f)
    BY <1>2
  <2> QED BY <2>1
<1> HIDE DEF chain
<1>4. \A i \in 0 .. N : chain[i] = SubSeq(s, 1, i)
  <2> DEFINE T == {i \in Nat : chain[i] = SubSeq(s, 1, i)}
  <2>1. 0 \in T
    BY <1>1, <1>3 DEF NoParent
  <2>2. ASSUME NEW i \in 1 .. N, i - 1 \in T PROVE i \in T
    <3>1. chain[i] = Append(chain[i - 1], m.diffIDs[i])
      <4>1. i \in 0 .. N /\ i # 0
        BY <1>1
      <4>2. chain[i] = chainID(m.diffIDs[i], chain[i - 1])
        BY <1>3, <4>1
      <4> QED BY <4>2 DEF chainID
    <3>2. i \in Nat /\ m.diffIDs[i] = s[i]
      BY <1>1
    <3> QED BY <1>1, <2>2, <3>1, <3>2, StackFacts
  <2> HIDE DEF T
  <2>3. 0 .. N \subseteq T
    BY <1>1, <2>1, <2>2, BoundedInduction
  <2> QED BY <2>3 DEF T
<1>5. createLayerInfos(m) = [i \in 1 .. N |-> info(i)]
  BY DEF createLayerInfos, N, chain
<1> DEFINE infos == [i \in 1 .. N |-> info(i)]
<1>6. Len(infos) = N
  <2> DEFINE A == {info(i) : i \in 1 .. N}
  <2>1. infos \in [1 .. N -> A]
    OBVIOUS
  <2> HIDE DEF infos, A, info
  <2> QED BY <1>1, <2>1, FunctionIsSequence
<1>7. ASSUME NEW k \in 1 .. N
      PROVE  /\ infos[k].Size = m.layers[k].size
             /\ infos[k].DiffID = s[k]
             /\ infos[k].ChainID = SubSeq(s, 1, k)
  BY <1>1, <1>4
<1> QED BY <1>5, <1>6, <1>7 DEF s, N

(* When no partial sum of the declared sizes is out of range, the sum that *)
(* the code computes is the declared size.                                 *)
LEMMA SumDoesNotWrap ==
  ASSUME NEW m \in Readable,
         \A n \in 1 .. Len(m.layers) :
           Sums([l \in Layer |-> l.size], m.layers)[n] \in -(MaxInt + 1) .. MaxInt
  PROVE  layersSize(createLayerInfos(m)) = Sum([l \in Layer |-> l.size], m.layers)
<1> DEFINE N == Len(m.layers)
           size == [l \in Layer |-> l.size]
           D == Sums(size, m.layers)
           infos == createLayerInfos(m)
           Eq(f) == f = [i \in 0 .. N |-> IF i = 0 THEN 0 ELSE Int64(f[i - 1] + infos[i].Size)]
           total == CHOOSE f : Eq(f)
<1>1. /\ N \in Nat /\ Len(infos) = N
      /\ \A k \in 1 .. N : infos[k].Size = m.layers[k].size
  BY InfosOf, ImageFacts
<1>2. m.layers \in Seq(Layer) /\ size \in [Layer -> Int]
  <2>1. m.layers \in Seq(Layer)
    BY DEF Readable
  <2>2. ASSUME NEW l \in Layer PROVE l.size \in Int
    <3>1. l.size \in -(MaxInt + 1) .. MaxInt
      BY DEF Layer
    <3> QED BY <3>1, MaxIntAssumption
  <2> QED BY <2>1, <2>2
<1>3. /\ D \in [0 .. N -> Int]
      /\ D[0] = 0
      /\ \A n \in 1 .. N : D[n] = D[n - 1] + size[m.layers[n]]
  <2> HIDE DEF size
  <2> QED BY <1>2, SumsOf
<1>4. \A n \in 1 .. N : D[n] = D[n - 1] + infos[n].Size
  <2> SUFFICES ASSUME NEW n \in 1 .. N PROVE D[n] = D[n - 1] + infos[n].Size
    OBVIOUS
  <2>1. m.layers[n] \in Layer
    BY <1>1, <1>2
  <2>2. size[m.layers[n]] = infos[n].Size
    BY <1>1, <2>1
  <2> HIDE DEF size, infos, D
  <2> QED BY <1>3, <2>2
<1>5. \A n \in 1 .. N : D[n] \in -(MaxInt + 1) .. MaxInt
  OBVIOUS
<1> HIDE DEF D, infos, N, size
<1>6. \A n \in 1 .. N : D[n] = Int64(D[n - 1] + infos[n].Size)
  BY <1>4, <1>5, MaxIntAssumption DEF Int64
<1>7. Eq(D)
  <2>1. D = [i \in 0 .. N |-> D[i]]
    BY <1>3
  <2>2. \A i \in 0 .. N : D[i] = IF i = 0 THEN 0 ELSE Int64(D[i - 1] + infos[i].Size)
    BY <1>1, <1>3, <1>6
  <2> QED BY <2>1, <2>2
<1>8. Eq(total)
  <2> HIDE DEF Eq
  <2>1. \E f : Eq(f)
    BY <1>7
  <2> QED BY <2>1
<1> HIDE DEF total
<1>9. total[N] = D[N]
  <2> DEFINE T == {i \in Nat : total[i] = D[i]}
  <2>1. 0 \in T
    BY <1>1, <1>3, <1>8
  <2>2. ASSUME NEW i \in 1 .. N, i - 1 \in T PROVE i \in T
    <3>1. i \in 0 .. N /\ i # 0
      BY <1>1
    <3>2. total[i] = Int64(total[i - 1] + infos[i].Size)
      BY <1>8, <3>1
    <3> QED BY <1>1, <1>6, <2>2, <3>2
  <2> HIDE DEF T
  <2>3. 0 .. N \subseteq T
    BY <1>1, <2>1, <2>2, BoundedInduction
  <2> QED BY <1>1, <2>3 DEF T
<1>10. layersSize(infos) = total[N]
  BY <1>1 DEF layersSize, total
<1> QED BY <1>9, <1>10 DEF Sum, D, infos, N, size

-----------------------------------------------------------------------------

(* How far a pull has come: the layers up to the current one are in the    *)
(* store, the total is theirs, and the file under the reader, if there is  *)
(* one, has the content of the current one.                                *)
Building ==
  /\ manifest \in Readable
  /\ manifest \in Manifests \/ manifest.layers = << >>
  /\ layerInfos = createLayerInfos(manifest)
  /\ \A k \in 1 .. current - 1 :
       [id |-> SubSeq(ImageOf(manifest), 1, k), stack |-> SubSeq(ImageOf(manifest), 1, k)] \in volumes
  /\ totalBytes = Sums(Length, ImageOf(manifest))[current - 1]
  /\ pc = "imageInfo" => current = 1
  /\ pc = "unpack" => current <= Len(layerInfos)
  /\ pc = "done" => current = Len(layerInfos) + 1
  /\ stream # NoFile => files[stream] = ImageOf(manifest)[current] /\ stream \notin orphans

(* A volume has the layers that its chain ID stands for.                   *)
Volumes == \A v \in volumes : v = [id |-> v.stack, stack |-> v.stack] /\ v.stack # << >>

(* What was added to the store, and what is about to be, is charged.       *)
Ledger ==
  /\ remaining \in Int /\ fetched \in Nat
  /\ Limited =>
       /\ remaining >= 0
       /\ fetched + remaining + (IF stream = NoFile THEN 0 ELSE Length[files[stream]])
            <= spec.DiskLimit
       /\ pc \in {"build", "unpack", "done"} => ~quotaExceeded

(* The inductive invariant.                                                *)
Inv == TypeOK /\ FilesFollowReader /\ Building /\ Volumes /\ Ledger

(* Facts about the layer that is built next.                               *)
LEMMA CurrentFacts ==
  ASSUME Inv, pc = "unpack"
  PROVE  /\ current \in 1 .. Len(ImageOf(manifest)) /\ current \in Nat
         /\ Len(layerInfos) = Len(ImageOf(manifest))
         /\ layerInfos[current].ChainID = SubSeq(ImageOf(manifest), 1, current)
         /\ layerInfos[current].DiffID = ImageOf(manifest)[current]
         /\ ImageOf(manifest)[current] \in Contents
         /\ Length[ImageOf(manifest)[current]] \in Nat
         /\ Sums(Length, ImageOf(manifest))[current]
              = Sums(Length, ImageOf(manifest))[current - 1] + Length[ImageOf(manifest)[current]]
<1>1. manifest \in Readable /\ layerInfos = createLayerInfos(manifest)
  BY DEF Inv, Building
<1>2. PICK s : s = ImageOf(manifest)
  OBVIOUS
<1>3. /\ s \in Seq(Contents) /\ Len(s) = Len(manifest.layers) /\ Len(s) \in Nat
      /\ Len(layerInfos) = Len(s)
  BY <1>1, <1>2, ImageFacts, InfosOf
<1>4. current \in 1 .. Len(s)
  BY <1>3 DEF Inv, TypeOK, Building
<1>5. s[current] \in Contents
  BY <1>3, <1>4
<1>6. layerInfos[current].ChainID = SubSeq(s, 1, current) /\ layerInfos[current].DiffID = s[current]
  BY <1>1, <1>2, <1>3, <1>4, InfosOf
<1>7. Length[s[current]] \in Nat
  BY <1>5, LengthAssumption
<1>8. Sums(Length, s)[current] = Sums(Length, s)[current - 1] + Length[s[current]]
  <2>1. Length \in [Contents -> Int]
    BY LengthAssumption
  <2> QED BY <1>3, <1>4, <2>1, SumsOf
<1> QED BY <1>2, <1>3, <1>4, <1>5, <1>6, <1>7, <1>8

(* Steps between the calls: the pull goes on or ends.                      *)
LEMMA GoesInv ==
  ASSUME Inv, stream = NoFile,
         UNCHANGED <<config, remaining, files, orphans, pullVars, current, stream, sums, volumes>>,
         pc' \in {"build", "unpack", "done", "failed", "panicked"},
         open' \in BOOLEAN, open' <=> pc' \in Running \cup {"unwind"},
         pc' = "unpack" => current <= Len(layerInfos),
         pc' = "done" => current = Len(layerInfos) + 1,
         Limited /\ pc' \in {"build", "unpack", "done"} => ~quotaExceeded
  PROVE  Inv'
<1>1. TypeOK'
  BY DEF Inv, TypeOK, pullVars, sums, Running
<1>2. FilesFollowReader'
  BY DEF Inv, FilesFollowReader
<1>3. Building'
  BY DEF Inv, Building, pullVars, sums
<1>4. Volumes'
  BY DEF Inv, Volumes
<1>5. Ledger'
  BY DEF Inv, Ledger, pullVars, sums, Limited, quotaExceeded
<1> QED BY <1>1, <1>2, <1>3, <1>4, <1>5 DEF Inv

(* The deferred Close of the reader takes away its file and nothing else.  *)
LEMMA CloseReaderEffect ==
  ASSUME Inv, CloseReader
  PROVE  /\ stream' = NoFile
         /\ UNCHANGED <<config, remaining, open, orphans>>
         /\ files' \in [Files -> Contents \cup {Absent}]
         /\ \A f \in Files : files'[f] # Absent <=> f \in orphans
<1>1. CASE stream = NoFile
  <2>1. stream' = NoFile /\ UNCHANGED <<config, remaining, open, orphans, files>>
    BY <1>1 DEF CloseReader, fetcherVars
  <2> QED BY <1>1, <2>1, FilesAssumption DEF Inv, TypeOK, FilesFollowReader
<1>2. CASE stream # NoFile
  <2>1. /\ stream' = NoFile
        /\ files' = [files EXCEPT ![stream] = Absent]
        /\ UNCHANGED <<config, remaining, open, orphans>>
    BY <1>2 DEF CloseReader, CloseBlobReader, Source!Remove
  <2> QED BY <1>2, <2>1 DEF Inv, TypeOK, FilesFollowReader, Building
<1> QED BY <1>1, <1>2

-----------------------------------------------------------------------------

(* A new process begins with nothing of the old one's, but the files it    *)
(* lost are still lost.                                                    *)
LEMMA StartPullInv ==
  ASSUME Inv, pc \notin Running \cup {"unwind"}, StartPull
  PROVE  Inv'
<1>1. /\ spec' \in Specs /\ config' = SourceConfig(spec')
      /\ remaining' = spec'.DiskLimit /\ open' = TRUE /\ pc' = "imageInfo"
      /\ manifest' = [layers |-> << >>, diffIDs |-> << >>] /\ layerInfos' = << >>
      /\ current' = 1 /\ stream' = NoFile /\ totalBytes' = 0 /\ fetched' = 0
      /\ UNCHANGED <<files, orphans, volumes>>
  BY DEF StartPull
<1>2. spec'.DiskLimit \in Nat
  BY <1>1, SpecsAssumption
<1>3. stream = NoFile
  BY DEF Inv, FilesFollowReader, Running
<1>4. manifest' \in Readable /\ layerInfos' = createLayerInfos(manifest') /\ Len(layerInfos') = 0
  <2>1. manifest' \in Readable /\ Len(manifest'.layers) = 0
    BY <1>1 DEF Readable, Panics
  <2>2. createLayerInfos(manifest') = << >>
    BY <2>1 DEF createLayerInfos
  <2> QED BY <1>1, <2>1, <2>2
<1>5. TypeOK'
  BY <1>1, <1>2, <1>4, FilesAssumption DEF Inv, TypeOK, Running
<1>6. FilesFollowReader'
  BY <1>1, <1>3 DEF Inv, FilesFollowReader
<1>7. Sums(Length, ImageOf(manifest'))[0] = 0
  <2>1. Length \in [Contents -> Int] /\ ImageOf(manifest') \in Seq(Contents)
    BY <1>4, LengthAssumption, ImageFacts
  <2> QED BY <2>1, SumsOf
<1>8. Building'
  BY <1>1, <1>4, <1>7 DEF Building
<1>9. Volumes' /\ Ledger'
  BY <1>1, <1>2 DEF Inv, Volumes, Ledger, Limited
<1> QED BY <1>5, <1>6, <1>8, <1>9 DEF Inv

(* The manifest arrives.                                                   *)
LEMMA ImageInfoInv ==
  ASSUME Inv, ImageInfo
  PROVE  Inv'
<1>1. /\ pc = "imageInfo" /\ pc' = "quota"
      /\ manifest' \in Manifests /\ ~Panics(manifest')
      /\ layerInfos' = createLayerInfos(manifest')
      /\ UNCHANGED <<config, remaining, files, open, orphans, spec, current, stream,
                     totalBytes, fetched, volumes>>
  BY DEF ImageInfo, fetcherVars, sums
<1>2. current = 1 /\ stream = NoFile
  BY <1>1 DEF Inv, Building, FilesFollowReader
<1>3. manifest' \in Readable
  BY <1>1, ManifestsAssumption DEF Readable
<1>4. Len(layerInfos') \in Nat
  BY <1>1, <1>3, ImageFacts, InfosOf
<1>5. TypeOK'
  BY <1>1, <1>2, <1>4 DEF Inv, TypeOK, Running
<1>6. FilesFollowReader'
  BY <1>1, <1>2 DEF Inv, FilesFollowReader
<1>7. Sums(Length, ImageOf(manifest'))[0] = 0 /\ Sums(Length, ImageOf(manifest))[0] = 0
  <2>1. /\ Length \in [Contents -> Int]
        /\ ImageOf(manifest') \in Seq(Contents) /\ ImageOf(manifest) \in Seq(Contents)
    BY <1>3, LengthAssumption, ImageFacts DEF Inv, Building
  <2> QED BY <2>1, SumsOf
<1>8. Building'
  BY <1>1, <1>2, <1>3, <1>7 DEF Inv, Building
<1>9. Volumes' /\ Ledger'
  BY <1>1 DEF Inv, Volumes, Ledger, Limited
<1> QED BY <1>5, <1>6, <1>8, <1>9 DEF Inv

(* What a pull with a limit gets from the source is charged.               *)
LEMMA StreamBlobEffect ==
  ASSUME Inv, pc = "unpack", NEW f \in Files,
         NEW c \in Contents, Source!Deliver(layerInfos[current], f, c)
  PROVE  /\ files[f] = Absent /\ f \notin orphans
         /\ c = ImageOf(manifest)[current]
         /\ files' = [files EXCEPT ![f] = c]
         /\ remaining' = remaining - Length[c] /\ remaining' \in Int
         /\ Limited => remaining' >= 0
         /\ UNCHANGED <<config, open>>
<1>1. config.skipOCILayerValidation = FALSE /\ (Limited => config.skipImageQuotaValidation = FALSE)
  BY DEF Inv, TypeOK, SourceConfig, Limited
<1>2. c = layerInfos[current].DiffID
  BY <1>1 DEF Source!Deliver, Source!ContentOf
<1>3. Length[c] \in Nat /\ remaining \in Int
  BY LengthAssumption DEF Inv, TypeOK
<1>4. /\ files[f] = Absent
      /\ config.skipImageQuotaValidation \/ Length[c] <= remaining
      /\ files' = [files EXCEPT ![f] = c]
      /\ remaining' = remaining - Length[c]
      /\ UNCHANGED <<config, open>>
  BY DEF Source!Deliver
<1>5. f \notin orphans
  BY <1>4 DEF Inv, FilesFollowReader
<1> QED BY <1>1, <1>2, <1>3, <1>4, <1>5, CurrentFacts

(* The reader gets its file.                                               *)
LEMMA ReadCreatesInv ==
  ASSUME Inv, ReadCreates
  PROVE  Inv'
<1>1. PICK f \in Files, c \in Contents :
        Source!Deliver(layerInfos[current], f, c) /\ stream' = f /\ UNCHANGED orphans
  BY DEF ReadCreates, StreamBlob
<1>2. /\ pc = "unpack" /\ stream = NoFile
      /\ UNCHANGED <<pc, spec, manifest, layerInfos, current, totalBytes, fetched, volumes>>
  BY DEF ReadCreates, pullVars, sums
<1>3. /\ files[f] = Absent /\ f \notin orphans
      /\ c = ImageOf(manifest)[current]
      /\ files' = [files EXCEPT ![f] = c]
      /\ remaining' = remaining - Length[c] /\ remaining' \in Int
      /\ Limited => remaining' >= 0
      /\ UNCHANGED <<config, open>>
  BY <1>1, <1>2, StreamBlobEffect
<1>4. TypeOK'
  BY <1>1, <1>2, <1>3 DEF Inv, TypeOK
<1>5. f # NoFile /\ files'[f] = c /\ c # Absent
  BY <1>3, FilesAssumption DEF Inv, TypeOK
<1>6. FilesFollowReader'
  BY <1>1, <1>2, <1>3, <1>5, FilesAssumption DEF Inv, TypeOK, FilesFollowReader
<1>7. Building'
  BY <1>1, <1>2, <1>3, <1>5 DEF Inv, Building
<1>8. Volumes'
  BY <1>2 DEF Inv, Volumes
<1>9. Ledger'
  <2>1. Length[c] \in Nat /\ remaining \in Int /\ fetched \in Nat
    BY LengthAssumption DEF Inv, TypeOK, Ledger
  <2>2. Limited' = Limited /\ quotaExceeded' = quotaExceeded /\ spec' = spec
    BY <1>2 DEF Limited, quotaExceeded
  <2> QED BY <1>1, <1>2, <1>3, <1>5, <2>1, <2>2 DEF Inv, Ledger
<1> QED BY <1>4, <1>6, <1>7, <1>8, <1>9 DEF Inv

(* A file that StreamBlob loses is charged all the same.                   *)
LEMMA ReadLosesFileInv ==
  ASSUME Inv, ReadLosesFile
  PROVE  Inv'
<1>1. PICK f \in Files, c \in Contents :
        Source!Deliver(layerInfos[current], f, c) /\ orphans' = orphans \cup {f}
  BY DEF ReadLosesFile, StreamBlobLosesFile
<1>2. /\ pc = "unpack" /\ stream = NoFile
      /\ UNCHANGED <<pc, spec, manifest, layerInfos, current, stream, totalBytes, fetched, volumes>>
  BY DEF ReadLosesFile, pullVars, sums
<1>3. /\ files[f] = Absent
      /\ files' = [files EXCEPT ![f] = c]
      /\ remaining' = remaining - Length[c] /\ remaining' \in Int
      /\ Limited => remaining' >= 0
      /\ UNCHANGED <<config, open>>
  BY <1>1, <1>2, StreamBlobEffect
<1>4. TypeOK'
  BY <1>1, <1>2, <1>3 DEF Inv, TypeOK
<1>5. FilesFollowReader'
  BY <1>1, <1>2, <1>3, FilesAssumption DEF Inv, TypeOK, FilesFollowReader
<1>6. Building'
  BY <1>2 DEF Inv, Building
<1>7. Volumes'
  BY <1>2 DEF Inv, Volumes
<1>8. Ledger'
  <2>1. Length[c] \in Nat /\ remaining \in Int /\ fetched \in Nat
    BY LengthAssumption DEF Inv, TypeOK, Ledger
  <2>2. Limited' = Limited /\ quotaExceeded' = quotaExceeded /\ spec' = spec
    BY <1>2 DEF Limited, quotaExceeded
  <2>3. ASSUME Limited
        PROVE  /\ remaining' >= 0 /\ fetched + remaining' <= spec.DiskLimit
               /\ pc \in {"build", "unpack", "done"} => ~quotaExceeded
    <3>1. fetched + remaining <= spec.DiskLimit
      BY <1>2, <2>3 DEF Inv, Ledger
    <3>2. spec.DiskLimit \in Nat
      BY SpecsAssumption DEF Inv, TypeOK
    <3> QED BY <1>3, <2>1, <2>3, <3>1, <3>2 DEF Inv, Ledger
  <2> QED BY <1>2, <1>3, <2>1, <2>2, <2>3 DEF Ledger
<1> QED BY <1>4, <1>5, <1>6, <1>7, <1>8 DEF Inv

-----------------------------------------------------------------------------

(* The driver puts the file on the stack below.                            *)
LEMMA UnpackEffect ==
  ASSUME Inv, Unpack
  PROVE  LET v == [id    |-> SubSeq(ImageOf(manifest), 1, current),
                   stack |-> SubSeq(ImageOf(manifest), 1, current)]
         IN /\ volumes' = volumes \cup {v}
            /\ v.stack \in Seq(Contents) /\ v.stack # << >>
            /\ current = 1 \/ [id    |-> SubSeq(ImageOf(manifest), 1, current - 1),
                               stack |-> SubSeq(ImageOf(manifest), 1, current - 1)] \in volumes
            /\ files[stream] = ImageOf(manifest)[current]
<1> DEFINE s == ImageOf(manifest)
           below == SubSeq(s, 1, current - 1)
           this == SubSeq(s, 1, current)
<1>1. pc = "unpack" /\ stream # NoFile
  BY DEF Unpack
<1>2. files[stream] = s[current]
  BY <1>1 DEF Inv, Building
<1>3. /\ s \in Seq(Contents) /\ current \in 1 .. Len(s)
      /\ Len(layerInfos) = Len(s)
      /\ layerInfos[current].ChainID = this
      /\ \A k \in 1 .. Len(s) : layerInfos[k].ChainID = SubSeq(s, 1, k)
  BY <1>1, CurrentFacts, ImageFacts, InfosOf DEF Inv, Building
<1> HIDE DEF s
<1>4. /\ this \in Seq(Contents) /\ below \in Seq(Contents)
      /\ Len(this) = current /\ Len(below) = current - 1
      /\ Append(below, s[current]) = this
  BY <1>3, StackFacts
<1>5. current = 1 \/ [id |-> below, stack |-> below] \in volumes
  <2>1. \A k \in 1 .. current - 1 : [id |-> SubSeq(s, 1, k), stack |-> SubSeq(s, 1, k)] \in volumes
    BY DEF Inv, Building, s
  <2>2. current = 1 \/ current - 1 \in 1 .. current - 1
    BY <1>3
  <2> QED BY <2>1, <2>2
<1>6. Below = {below}
  <2>1. CASE current = 1
    <3>1. parentChainIDs = << >>
      BY <2>1 DEF parentChainIDs
    <3>2. below = << >>
      BY <1>4, <2>1
    <3> QED BY <3>1, <3>2 DEF Below
  <2>2. CASE current # 1
    <3>1. current - 1 \in Nat /\ current - 1 \in 1 .. Len(s) /\ current - 1 # 0
      BY <1>3, <2>2
    <3>2. \A k \in 1 .. current - 1 : layerInfos[k].ChainID \in Seq(Contents)
      BY <1>3, StackFacts
    <3>3. parentChainIDs \in [1 .. current - 1 -> Seq(Contents)]
      BY <3>2 DEF parentChainIDs
    <3>4. Len(parentChainIDs) = current - 1 /\ parentChainIDs # << >>
      BY <3>1, <3>3, FunctionIsSequence
    <3>5. parentChainIDs[current - 1] = below
      BY <1>3, <3>1 DEF parentChainIDs
    <3>6. Below = {v.stack : v \in {w \in volumes : w.id = below}}
      BY <3>4, <3>5 DEF Below
    <3>7. \A v \in volumes : v.id = below => v.stack = below
      BY DEF Inv, Volumes
    <3> QED BY <1>5, <2>2, <3>6, <3>7
  <2> QED BY <2>1, <2>2
<1>7. volumes' = volumes \cup {[id |-> this, stack |-> this]}
  <2>1. PICK stack \in Below :
          volumes' = volumes \cup {[id    |-> layerInfos[current].ChainID,
                                    stack |-> Append(stack, files[stream])]}
    BY DEF Unpack
  <2> QED BY <1>2, <1>3, <1>4, <1>6, <2>1 DEF s
<1>8. this # << >>
  <2> HIDE DEF this
  <2> QED BY <1>3, <1>4
<1> QED BY <1>2, <1>4, <1>5, <1>7, <1>8 DEF s

(* After a layer is in the store, however it got there, the pull is one    *)
(* layer further.                                                          *)
LEMMA NextLayerInv ==
  ASSUME Inv, pc = "unpack", CloseReader, current' = current + 1, pc' = "build",
         UNCHANGED pullVars,
         volumes \subseteq volumes',
         \A v \in volumes' \ volumes :
           v = [id |-> v.stack, stack |-> v.stack] /\ v.stack \in Seq(Contents) /\ v.stack # << >>,
         [id    |-> SubSeq(ImageOf(manifest), 1, current),
          stack |-> SubSeq(ImageOf(manifest), 1, current)] \in volumes',
         totalBytes' = totalBytes + Length[ImageOf(manifest)[current]],
         Ledger'
  PROVE  Inv'
<1>1. /\ stream' = NoFile
      /\ UNCHANGED <<config, remaining, open, orphans>>
      /\ files' \in [Files -> Contents \cup {Absent}]
      /\ \A f \in Files : files'[f] # Absent <=> f \in orphans
  BY CloseReaderEffect
<1>2. UNCHANGED <<spec, manifest, layerInfos>>
  BY DEF pullVars
<1>3. /\ current \in 1 .. Len(layerInfos) /\ current \in Nat
      /\ Length[ImageOf(manifest)[current]] \in Nat
      /\ Sums(Length, ImageOf(manifest))[current]
           = Sums(Length, ImageOf(manifest))[current - 1] + Length[ImageOf(manifest)[current]]
      /\ Len(layerInfos) \in Nat
  BY CurrentFacts, ImageFacts DEF Inv, Building
<1>4. TypeOK'
  <2>1. current' \in 1 .. Len(layerInfos) + 1 /\ totalBytes' \in Nat
    BY <1>3 DEF Inv, TypeOK
  <2> QED BY <1>1, <1>2, <2>1 DEF Inv, TypeOK, Running
<1>5. FilesFollowReader'
  BY <1>1, FilesAssumption DEF FilesFollowReader
<1>6. Building'
  <2>1. current' - 1 = current
    BY <1>3
  <2>2. totalBytes' = Sums(Length, ImageOf(manifest))[current]
    BY <1>3 DEF Inv, Building
  <2>3. \A k \in 1 .. current :
          [id |-> SubSeq(ImageOf(manifest), 1, k), stack |-> SubSeq(ImageOf(manifest), 1, k)] \in volumes'
    <3> SUFFICES ASSUME NEW k \in 1 .. current
                 PROVE  [id |-> SubSeq(ImageOf(manifest), 1, k),
                         stack |-> SubSeq(ImageOf(manifest), 1, k)] \in volumes'
      OBVIOUS
    <3>1. k = current \/ k \in 1 .. current - 1
      BY <1>3
    <3> QED BY <3>1 DEF Inv, Building
  <2> QED BY <1>1, <1>2, <2>1, <2>2, <2>3 DEF Inv, Building
<1>7. Volumes'
  BY DEF Inv, Volumes
<1> QED BY <1>4, <1>5, <1>6, <1>7 DEF Inv

(* The layer comes from the file, and its bytes from the quota.            *)
LEMMA UnpackInv ==
  ASSUME Inv, Unpack
  PROVE  Inv'
<1> DEFINE s == ImageOf(manifest)
           v == [id |-> SubSeq(s, 1, current), stack |-> SubSeq(s, 1, current)]
<1>1. /\ pc = "unpack" /\ stream # NoFile
      /\ totalBytes' = totalBytes + Length[files[stream]]
      /\ fetched' = fetched + Length[files[stream]]
      /\ CloseReader /\ current' = current + 1 /\ pc' = "build" /\ UNCHANGED pullVars
  BY DEF Unpack, Add
<1>2. /\ volumes' = volumes \cup {v}
      /\ v.stack \in Seq(Contents) /\ v.stack # << >>
      /\ files[stream] = s[current]
  BY UnpackEffect
<1>3. /\ v \in volumes' /\ volumes \subseteq volumes'
      /\ \A w \in volumes' \ volumes :
           w = [id |-> w.stack, stack |-> w.stack] /\ w.stack \in Seq(Contents) /\ w.stack # << >>
  <2>1. v = [id |-> v.stack, stack |-> v.stack]
    OBVIOUS
  <2> HIDE DEF v
  <2> QED BY <1>2, <2>1
<1>4. Length[s[current]] \in Nat
  BY <1>1, CurrentFacts
<1> HIDE DEF s
<1>5. Ledger'
  <2>1. UNCHANGED <<spec, layerInfos, remaining>> /\ stream' = NoFile
    BY <1>1, CloseReaderEffect DEF pullVars
  <2>2. fetched' \in Nat /\ remaining' \in Int
    BY <1>1, <1>2, <1>4, <2>1 DEF Inv, Ledger
  <2>3. Limited' = Limited /\ quotaExceeded' = quotaExceeded
    BY <2>1 DEF Limited, quotaExceeded
  <2>4. ASSUME Limited
        PROVE  /\ remaining >= 0 /\ fetched' + remaining <= spec.DiskLimit
               /\ ~quotaExceeded
    <3>1. fetched + remaining + Length[s[current]] <= spec.DiskLimit /\ remaining >= 0
      BY <1>1, <1>2, <2>4 DEF Inv, Ledger
    <3>2. fetched \in Nat /\ remaining \in Int /\ fetched' = fetched + Length[s[current]]
      BY <1>1, <1>2 DEF Inv, Ledger
    <3>3. fetched' + remaining = fetched + remaining + Length[s[current]]
      BY <1>4, <3>2
    <3>4. ~quotaExceeded
      BY <1>1, <2>4 DEF Inv, Ledger
    <3> QED BY <3>1, <3>3, <3>4
  <2>5. ASSUME Limited
        PROVE  fetched' + remaining' + 0 <= spec.DiskLimit
    BY <2>1, <2>2, <2>4, <2>5
  <2> QED BY <1>1, <2>1, <2>2, <2>3, <2>4, <2>5 DEF Ledger
<1> QED BY <1>1, <1>2, <1>3, <1>5, NextLayerInv DEF s

(* A layer that the store has is the one the chain ID stands for.          *)
LEMMA UnpackHasInv ==
  ASSUME Inv, UnpackHas
  PROVE  Inv'
<1> DEFINE s == ImageOf(manifest)
<1>1. /\ pc = "unpack" /\ CloseReader /\ current' = current + 1 /\ pc' = "build"
      /\ UNCHANGED <<pullVars, fetched, volumes>>
  BY DEF UnpackHas
<1>2. PICK v \in volumes : /\ v.id = layerInfos[current].ChainID
                           /\ totalBytes' = totalBytes + Length[v.stack[Len(v.stack)]]
  BY DEF UnpackHas, Add
<1>3. /\ s \in Seq(Contents) /\ current \in 1 .. Len(s)
      /\ layerInfos[current].ChainID = SubSeq(s, 1, current)
  BY <1>1, CurrentFacts, ImageFacts DEF Inv, Building
<1> HIDE DEF s
<1>4. v = [id |-> SubSeq(s, 1, current), stack |-> SubSeq(s, 1, current)]
  <2>1. v = [id |-> v.stack, stack |-> v.stack]
    BY DEF Inv, Volumes
  <2>2. v.stack = SubSeq(s, 1, current)
    BY <1>2, <1>3, <2>1
  <2> QED BY <2>1, <2>2
<1>5. v.stack[Len(v.stack)] = s[current]
  BY <1>3, <1>4, StackFacts
<1>6. Ledger'
  <2>1. /\ UNCHANGED <<spec, layerInfos, remaining, fetched>> /\ stream' = NoFile
    BY <1>1, CloseReaderEffect DEF pullVars
  <2>2. Limited' = Limited /\ quotaExceeded' = quotaExceeded
    BY <2>1 DEF Limited, quotaExceeded
  <2>3. ASSUME Limited
        PROVE  fetched + remaining <= spec.DiskLimit
    <3>1. stream = NoFile \/ Length[files[stream]] \in Nat
      BY <1>1, CurrentFacts DEF Inv, Building
    <3>2. /\ fetched \in Nat /\ remaining \in Int
          /\ fetched + remaining + (IF stream = NoFile THEN 0 ELSE Length[files[stream]])
               <= spec.DiskLimit
      BY <2>3 DEF Inv, Ledger
    <3>3. spec.DiskLimit \in Nat
      BY SpecsAssumption DEF Inv, TypeOK
    <3> QED BY <3>1, <3>2, <3>3
  <2>4. Limited => /\ remaining >= 0 /\ ~quotaExceeded
    BY <1>1 DEF Inv, Ledger
  <2>5. fetched \in Nat /\ remaining \in Int /\ fetched + remaining + 0 = fetched + remaining
    BY DEF Inv, Ledger
  <2> QED BY <1>1, <2>1, <2>2, <2>3, <2>4, <2>5 DEF Ledger
<1> QED BY <1>1, <1>2, <1>4, <1>5, <1>6, NextLayerInv DEF s

(* Unpack fails, or the process is killed: what was added stays.           *)
LEMMA UnpackFailsInv ==
  ASSUME Inv, UnpackFails
  PROVE  Inv'
<1>1. /\ pc = "unpack" /\ pc' = "unwind" /\ CloseReader
      /\ UNCHANGED <<spec, manifest, layerInfos, current, totalBytes, fetched, volumes>>
  BY DEF UnpackFails, pullVars, sums
<1>2. /\ stream' = NoFile
      /\ UNCHANGED <<config, remaining, open, orphans>>
      /\ files' \in [Files -> Contents \cup {Absent}]
      /\ \A f \in Files : files'[f] # Absent <=> f \in orphans
  BY <1>1, CloseReaderEffect
<1>3. TypeOK'
  BY <1>1, <1>2 DEF Inv, TypeOK, Running
<1>4. FilesFollowReader'
  BY <1>2, FilesAssumption DEF FilesFollowReader
<1>5. Building' /\ Volumes'
  BY <1>1, <1>2 DEF Inv, Building, Volumes
<1>6. Ledger'
  <2>1. Limited' = Limited /\ quotaExceeded' = quotaExceeded
    BY <1>1 DEF Limited, quotaExceeded
  <2>2. stream = NoFile \/ Length[files[stream]] \in Nat
    BY <1>1, CurrentFacts DEF Inv, Building
  <2>3. fetched \in Nat /\ remaining \in Int /\ spec.DiskLimit \in Nat
    BY SpecsAssumption DEF Inv, TypeOK, Ledger
  <2>4. Limited => /\ remaining >= 0
                   /\ fetched + remaining <= spec.DiskLimit
    BY <2>2, <2>3 DEF Inv, Ledger
  <2> QED BY <1>1, <1>2, <2>1, <2>3, <2>4 DEF Ledger
<1> QED BY <1>3, <1>4, <1>5, <1>6 DEF Inv

(* The file under the reader of a killed process is lost.                  *)
LEMMA CrashInv ==
  ASSUME Inv, Crash
  PROVE  Inv'
<1>1. /\ pc' = "killed" /\ open' = FALSE /\ stream' = NoFile
      /\ orphans' = orphans \cup {f \in Files : f = stream}
      /\ UNCHANGED <<config, remaining, files, spec, manifest, layerInfos, current, totalBytes,
                     fetched, volumes>>
  BY DEF Crash, pullVars, sums
<1>2. TypeOK'
  BY <1>1 DEF Inv, TypeOK, Running
<1>3. FilesFollowReader'
  BY <1>1, FilesAssumption DEF Inv, FilesFollowReader
<1>4. Building' /\ Volumes'
  BY <1>1 DEF Inv, Building, Volumes
<1>5. Ledger'
  <2>1. Limited' = Limited /\ quotaExceeded' = quotaExceeded
    BY <1>1 DEF Limited, quotaExceeded
  <2>2. stream = NoFile \/ Length[files[stream]] \in Nat
    BY CurrentFacts DEF Inv, Building, FilesFollowReader
  <2>3. fetched \in Nat /\ remaining \in Int /\ spec.DiskLimit \in Nat
    BY SpecsAssumption DEF Inv, TypeOK, Ledger
  <2>4. Limited => /\ remaining >= 0
                   /\ fetched + remaining <= spec.DiskLimit
    BY <2>2, <2>3 DEF Inv, Ledger
  <2> QED BY <1>1, <2>1, <2>3, <2>4 DEF Ledger
<1> QED BY <1>2, <1>3, <1>4, <1>5 DEF Inv

(* What others do to the store: one more volume, which has the layers that *)
(* its chain ID stands for.                                                *)
LEMMA OthersUnpackEffect ==
  ASSUME OthersUnpack
  PROVE  \E stack \in Seq(Contents) :
           stack # << >> /\ volumes' = volumes \cup {[id |-> stack, stack |-> stack]}
<1>1. PICK m \in {n \in Manifests : ~Panics(n)} :
        \E k \in 1 .. Len(ImageOf(m)) : Store!Serve(ImageOf(m), k)
  BY DEF OthersUnpack, Store!Next
<1>2. PICK s : s = ImageOf(m)
  OBVIOUS
<1>3. s \in Seq(Contents)
  BY <1>2, ImageFacts, ManifestsAssumption DEF Readable
<1>4. PICK k \in 1 .. Len(s) : Store!Serve(s, k)
  BY <1>1, <1>2
<1>5. SubSeq(s, 1, k) \in Seq(Contents) /\ SubSeq(s, 1, k) # << >>
  <2>1. k \in Nat /\ k > 0 /\ Len(SubSeq(s, 1, k)) = k
    BY <1>3, StackFacts
  <2> QED BY <1>3, <2>1, StackFacts
<1> QED BY <1>4, <1>5 DEF Store!Serve, Store!Volume

(* A pull is not disturbed by what others do to the store: it has found    *)
(* nothing there that could go, and what comes is right.                   *)
LEMMA OthersUnpackInv ==
  ASSUME Inv, OthersUnpack
  PROVE  Inv'
<1>1. PICK stack \in Seq(Contents) :
        stack # << >> /\ volumes' = volumes \cup {[id |-> stack, stack |-> stack]}
  BY OthersUnpackEffect
<1>2. UNCHANGED <<fetcherVars, pc, pullVars, current, stream, sums>>
  BY DEF OthersUnpack
<1>3. TypeOK'
  BY <1>1, <1>2 DEF Inv, TypeOK, fetcherVars, pullVars, sums
<1>4. FilesFollowReader' /\ Ledger'
  BY <1>2 DEF Inv, FilesFollowReader, Ledger, Limited, quotaExceeded, fetcherVars, pullVars, sums
<1>5. Building'
  BY <1>1, <1>2 DEF Inv, Building, fetcherVars, pullVars, sums
<1>6. Volumes'
  BY <1>1 DEF Inv, Volumes
<1> QED BY <1>3, <1>4, <1>5, <1>6 DEF Inv

-----------------------------------------------------------------------------

(* Initially nothing is in the store, and no pull has begun.               *)
LEMMA InitInv == Init => Inv
<1> SUFFICES ASSUME Init PROVE Inv
  OBVIOUS
<1>1. manifest \in Readable /\ Len(manifest.layers) = 0
  BY DEF Init, Readable, Panics
<1>2. createLayerInfos(manifest) = << >> /\ Len(layerInfos) = 0
  BY <1>1 DEF Init, createLayerInfos
<1>3. Sums(Length, ImageOf(manifest))[0] = 0
  <2>1. Length \in [Contents -> Int] /\ ImageOf(manifest) \in Seq(Contents)
    BY <1>1, LengthAssumption, ImageFacts
  <2> QED BY <2>1, SumsOf
<1>4. spec \in Specs /\ spec.DiskLimit \in Nat
  BY SpecsAssumption DEF Init
<1>5. TypeOK
  <2>1. remaining \in Int /\ current \in 1 .. Len(layerInfos) + 1
    BY <1>2, <1>4 DEF Init
  <2>2. ~open /\ open \in BOOLEAN /\ pc \notin Running \cup {"unwind"}
    BY DEF Init, Running
  <2> QED BY <1>4, <2>1, <2>2 DEF Init, TypeOK
<1>6. FilesFollowReader
  BY FilesAssumption DEF Init, FilesFollowReader
<1>7. Building
  BY <1>1, <1>2, <1>3 DEF Init, Building
<1>8. Volumes /\ Ledger
  BY <1>4 DEF Init, Volumes, Ledger
<1> QED BY <1>5, <1>6, <1>7, <1>8 DEF Inv

(* The inductive invariant holds of all pulls, one after the other, and    *)
(* whatever others do to the store meanwhile.                              *)
THEOREM Invariance == Spec => []Inv
<1>1. Inv /\ [Next]_vars => Inv'
  <2> SUFFICES ASSUME Inv, [Next]_vars PROVE Inv'
    OBVIOUS
  <2>1. ASSUME ImageInfoFails \/ ImageInfoPanics \/ CheckQuota \/ QuotaIsExceeded \/ BuildLayer
               \/ AllBuilt \/ Unwind
        PROVE  Inv'
    <3>1. stream = NoFile
      BY <2>1 DEF Inv, FilesFollowReader, ImageInfoFails, ImageInfoPanics, CheckQuota,
                  QuotaIsExceeded, BuildLayer, AllBuilt, Unwind
    <3>2. /\ UNCHANGED <<config, remaining, files, orphans, pullVars, current, stream, sums, volumes>>
          /\ pc' \in {"build", "unpack", "done", "failed", "panicked"}
          /\ open' \in BOOLEAN /\ (open' <=> pc' \in Running \cup {"unwind"})
      BY <2>1 DEF Inv, TypeOK, Running, ImageInfoFails, ImageInfoPanics, CheckQuota, QuotaIsExceeded,
                  BuildLayer, AllBuilt, Unwind, End, CloseFetcher, Source!Finish, fetcherVars
    <3>3. Len(layerInfos) \in Nat /\ current \in 1 .. Len(layerInfos) + 1
      BY ImageFacts, InfosOf DEF Inv, TypeOK, Building
    <3>4. /\ pc' = "unpack" => current <= Len(layerInfos)
          /\ pc' = "done" => current = Len(layerInfos) + 1
      BY <2>1, <3>3 DEF ImageInfoFails, ImageInfoPanics, CheckQuota, QuotaIsExceeded, BuildLayer,
                        AllBuilt, Unwind, End
    <3>5. CASE pc = "build"
      BY <3>1, <3>2, <3>4, <3>5, GoesInv DEF Inv, Ledger
    <3>6. CASE pc = "quota" /\ ~quotaExceeded
      BY <3>1, <3>2, <3>4, <3>6, GoesInv
    <3>7. CASE pc' \notin {"build", "unpack", "done"}
      BY <3>1, <3>2, <3>4, <3>7, GoesInv
    <3> QED BY <2>1, <3>5, <3>6, <3>7 DEF ImageInfoFails, ImageInfoPanics, CheckQuota,
                  QuotaIsExceeded, BuildLayer, AllBuilt, Unwind, End
  <2>2. CASE UNCHANGED vars
    BY <2>2 DEF vars, fetcherVars, pullVars, sums, Inv, TypeOK, FilesFollowReader, Building, Volumes,
                Ledger, Limited, quotaExceeded
  <2> QED BY <2>1, <2>2, StartPullInv, ImageInfoInv, UnpackInv, UnpackHasInv, UnpackFailsInv,
             ReadCreatesInv, ReadLosesFileInv, CrashInv, OthersUnpackInv DEF Next, PullStep
<1> QED BY InitInv, <1>1, PTL DEF Spec

(* The variables keep their types.                                         *)
THEOREM TypeCorrect == Spec => []TypeOK
<1>1. Inv => TypeOK
  BY DEF Inv
<1> QED BY Invariance, <1>1, PTL

(* Temporary files are under the reader, or lost.                          *)
THEOREM FilesAccounted == Spec => []FilesFollowReader
<1>1. Inv => FilesFollowReader
  BY DEF Inv
<1> QED BY Invariance, <1>1, PTL

(* A pull that succeeds has put the image together, and knows its size.    *)
THEOREM RightImage == Spec => []PulledImageIsRight
<1>1. Inv => PulledImageIsRight
  <2> SUFFICES ASSUME Inv, pc = "done" PROVE PulledImageIsRight
    BY DEF PulledImageIsRight
  <2> DEFINE s == ImageOf(manifest)
  <2>1. manifest \in Readable /\ layerInfos = createLayerInfos(manifest)
    BY DEF Inv, Building
  <2>2. /\ Len(layerInfos) \in Nat /\ Len(layerInfos) = Len(s)
        /\ \A k \in 1 .. Len(layerInfos) : layerInfos[k].ChainID = SubSeq(s, 1, k)
    BY <2>1, ImageFacts, InfosOf
  <2>3. current - 1 = Len(layerInfos)
    BY <2>2 DEF Inv, Building
  <2> HIDE DEF s
  <2>4. totalBytes = Sum(Length, s)
    BY <2>2, <2>3 DEF Inv, Building, Sum, s
  <2>5. ASSUME NEW k \in 1 .. Len(layerInfos)
        PROVE  {v.stack : v \in {w \in volumes : w.id = layerInfos[k].ChainID}} = {SubSeq(s, 1, k)}
    <3>1. [id |-> SubSeq(s, 1, k), stack |-> SubSeq(s, 1, k)] \in volumes
      BY <2>3 DEF Inv, Building, s
    <3>2. \A v \in volumes : v.id = SubSeq(s, 1, k) => v.stack = SubSeq(s, 1, k)
      BY DEF Inv, Volumes
    <3>3. layerInfos[k].ChainID = SubSeq(s, 1, k)
      BY <2>2
    <3> QED BY <3>1, <3>2, <3>3
  <2> QED BY <2>4, <2>5 DEF PulledImageIsRight, s
<1> QED BY Invariance, <1>1, PTL

(* A pull with a limit adds no more than the limit, and begins to download *)
(* an image that declares more only when the sum of its sizes wraps.       *)
THEOREM LimitRespected == Spec => []DownloadsFit
<1>1. Inv => DownloadsFit
  <2> SUFFICES ASSUME Inv, Limited PROVE DownloadsFit
    BY DEF DownloadsFit
  <2> DEFINE size == [l \in Layer |-> l.size]
             N == Len(manifest.layers)
  <2>1. fetched <= spec.DiskLimit
    <3>1. stream = NoFile \/ Length[files[stream]] \in Nat
      BY CurrentFacts DEF Inv, Building, FilesFollowReader
    <3>2. /\ fetched \in Nat /\ remaining \in Int /\ remaining >= 0
          /\ fetched + remaining + (IF stream = NoFile THEN 0 ELSE Length[files[stream]])
               <= spec.DiskLimit
          /\ spec.DiskLimit \in Nat
      BY SpecsAssumption DEF Inv, TypeOK, Ledger
    <3> QED BY <3>1, <3>2
  <2>2. ASSUME pc \in {"build", "unpack", "done"},
               \A n \in 1 .. N : DeclaredSize(n) \in -(MaxInt + 1) .. MaxInt
        PROVE  DeclaredSize(N) <= spec.DiskLimit
    <3>1. manifest \in Readable /\ layerInfos = createLayerInfos(manifest)
      BY DEF Inv, Building
    <3>2. \A n \in 1 .. N : Sums(size, manifest.layers)[n] \in -(MaxInt + 1) .. MaxInt
      BY <2>2 DEF DeclaredSize
    <3>3. layersSize(layerInfos) = Sum(size, manifest.layers)
      BY <3>1, <3>2, SumDoesNotWrap
    <3>4. DeclaredSize(N) = layersSize(layerInfos)
      BY <3>3 DEF DeclaredSize, Sum
    <3>5. DeclaredSize(N) \in Int
      <4>1. manifest.layers \in Seq(Layer) /\ N \in Nat
        BY <3>1, ImageFacts DEF Readable
      <4>2. ASSUME NEW l \in Layer PROVE l.size \in Int
        <5>1. l.size \in -(MaxInt + 1) .. MaxInt
          BY DEF Layer
        <5> QED BY <5>1, MaxIntAssumption
      <4>3. size \in [Layer -> Int]
        BY <4>2
      <4>4. Sums(size, manifest.layers) \in [0 .. N -> Int]
        <5> HIDE DEF size
        <5> QED BY <4>1, <4>3, SumsOf
      <4> HIDE DEF size
      <4>5. Sums(size, manifest.layers)[N] \in Int
        BY <4>1, <4>4
      <4> QED BY <4>5 DEF DeclaredSize, size
    <3>6. ~(layersSize(layerInfos) > spec.DiskLimit)
      BY <2>2 DEF Inv, Ledger, Limited, quotaExceeded
    <3>7. spec.DiskLimit \in Nat
      BY SpecsAssumption DEF Inv, TypeOK
    <3> HIDE DEF N
    <3> QED BY <3>4, <3>5, <3>6, <3>7
  <2> QED BY <2>1, <2>2 DEF DownloadsFit
<1> QED BY Invariance, <1>1, PTL

(* What a step does to the store is a step of ImageStore.                  *)
LEMMA StoreStep == Inv /\ [Next]_vars => [Store!Next]_volumes
<1> SUFFICES ASSUME Inv, [Next]_vars, volumes' # volumes, ~Store!Next PROVE FALSE
  OBVIOUS
<1>1. Unpack
  BY DEF OthersUnpack, Next, PullStep, vars, StartPull, ImageInfo, ImageInfoFails, ImageInfoPanics,
         CheckQuota, QuotaIsExceeded, BuildLayer, AllBuilt, Unwind, UnpackHas, UnpackFails,
         ReadCreates, ReadLosesFile, Crash, End
<1>2. PICK image, k : image = ImageOf(manifest) /\ k = current
  OBVIOUS
<1>3. /\ manifest \in Manifests /\ ~Panics(manifest)
      /\ k \in 1 .. Len(image)
  <2>1. pc = "unpack"
    BY <1>1 DEF Unpack
  <2>2. k \in 1 .. Len(image) /\ Len(image) = Len(manifest.layers) /\ manifest \in Readable
    BY <1>2, <2>1, CurrentFacts, ImageFacts DEF Inv, Building
  <2>3. manifest.layers # << >>
    BY <2>2
  <2> QED BY <2>2, <2>3 DEF Inv, Building, Readable
<1>4. Store!Serve(image, k)
  BY <1>1, <1>2, UnpackEffect DEF Store!Serve, Store!Volume
<1>5. image \in {ImageOf(m) : m \in {n \in Manifests : ~Panics(n)}}
  BY <1>2, <1>3
<1> QED BY <1>3, <1>4, <1>5 DEF Store!Next

(* To the store, all pulls are what ImageStore says: a process of groot    *)
(* keeps to the contract as long as the others do, so that all of them     *)
(* together keep to it (image_puller.go 94-131).                           *)
THEOREM StoreImplementation == Spec => ImplementsStore
<1>1. Init => Store!Init
  BY DEF Init, Store!Init
<1> QED BY Invariance, <1>1, StoreStep, PTL DEF Spec, ImplementsStore, Store!Spec

(* Below every volume there are those that its chain ID stands for.        *)
Closed ==
  \A v \in volumes : \A k \in 1 .. Len(v.id) - 1 : Store!Volume(v.id, k) \in volumes

(* A store that has grown by a step of ImageStore is as closed as before.  *)
LEMMA ServeClosed ==
  ASSUME Closed, [Store!Next]_volumes
  PROVE  Closed'
<1>1. CASE UNCHANGED volumes
  BY <1>1 DEF Closed, Store!Volume
<1>2. CASE Store!Next
  <2>1. PICK m \in {n \in Manifests : ~Panics(n)} :
          \E k \in 1 .. Len(ImageOf(m)) : Store!Serve(ImageOf(m), k)
    BY <1>2 DEF Store!Next
  <2>2. PICK s : s = ImageOf(m)
    OBVIOUS
  <2>3. s \in Seq(Contents) /\ Len(s) \in Nat
    BY <2>2, ImageFacts, ManifestsAssumption DEF Readable
  <2>4. PICK k \in 1 .. Len(s) : Store!Serve(s, k)
    BY <2>1, <2>2
  <2>5. /\ k = 1 \/ Store!Volume(s, k - 1) \in volumes
        /\ volumes' = volumes \cup {Store!Volume(s, k)}
    BY <2>4 DEF Store!Serve
  <2>6. \A i \in 0 .. Len(s) : Store!Volume(s, i).id = SubSeq(s, 1, i) /\ Len(SubSeq(s, 1, i)) = i
    BY <2>3 DEF Store!Volume
  <2>7. ASSUME NEW i \in 1 .. Len(s), NEW j \in 1 .. i
        PROVE  Store!Volume(SubSeq(s, 1, i), j) = Store!Volume(s, j)
    <3>1. SubSeq(SubSeq(s, 1, i), 1, j) = SubSeq(s, 1, j)
      <4> DEFINE a == SubSeq(SubSeq(s, 1, i), 1, j)
                 b == SubSeq(s, 1, j)
      <4>1. SubSeq(s, 1, i) \in Seq(Contents) /\ Len(SubSeq(s, 1, i)) = i
        BY <2>3
      <4>2. \A n \in 1 .. i : SubSeq(s, 1, i)[n] = s[n]
        BY <2>3
      <4>3. a \in Seq(Contents) /\ Len(a) = j /\ \A n \in 1 .. j : a[n] = SubSeq(s, 1, i)[n]
        BY <4>1
      <4>4. b \in Seq(Contents) /\ Len(b) = j /\ \A n \in 1 .. j : b[n] = s[n]
        BY <2>3
      <4> HIDE DEF a, b
      <4>5. \A n \in 1 .. j : a[n] = b[n]
        BY <4>2, <4>3, <4>4
      <4>6. a = b
        BY <4>3, <4>4, <4>5, SeqEqual
      <4> QED BY <4>6 DEF a, b
    <3> QED BY <3>1 DEF Store!Volume
  <2>8. ASSUME NEW v \in volumes', NEW j \in 1 .. Len(v.id) - 1
        PROVE  Store!Volume(v.id, j) \in volumes'
    <3>1. CASE v \in volumes
      BY <2>5, <3>1 DEF Closed
    <3>2. CASE v = Store!Volume(s, k)
      <4>1. v.id = SubSeq(s, 1, k) /\ j \in 1 .. k - 1 /\ k # 1
        BY <2>3, <2>6, <3>2
      <4>2. Store!Volume(s, k - 1) \in volumes
        BY <2>5, <4>1
      <4>3. Store!Volume(s, k - 1).id = SubSeq(s, 1, k - 1) /\ Len(SubSeq(s, 1, k - 1)) = k - 1
        BY <2>3, <2>6
      <4>4. Store!Volume(v.id, j) = Store!Volume(s, j)
        BY <2>3, <2>7, <4>1
      <4>5. CASE j = k - 1
        BY <2>5, <4>2, <4>4, <4>5
      <4>6. CASE j # k - 1
        <5>1. j \in 1 .. Len(Store!Volume(s, k - 1).id) - 1
          BY <2>3, <4>1, <4>3, <4>6
        <5>2. Store!Volume(SubSeq(s, 1, k - 1), j) \in volumes
          BY <4>2, <4>3, <5>1 DEF Closed
        <5>3. Store!Volume(SubSeq(s, 1, k - 1), j) = Store!Volume(s, j)
          BY <2>3, <2>7, <4>1
        <5> QED BY <2>5, <4>4, <5>2, <5>3
      <4> QED BY <4>5, <4>6
    <3> QED BY <2>5, <3>1, <3>2
  <2>9. \A v \in volumes' : \A j \in 1 .. Len(v.id) - 1 : Store!Volume(v.id, j) \in volumes'
    BY <2>8
  <2> QED BY <2>9 DEF Closed, Store!Volume
<1> QED BY <1>1, <1>2

(* The driver is never asked for a layer without its parents being in the  *)
(* store, and no volume is ever in the store without those below it        *)
(* (image_puller.go 94-131).                                               *)
THEOREM ParentsBuilt == Spec => []ParentsFirst
<1>1. Init => Closed
  BY DEF Init, Closed
<1>2. Inv /\ Closed /\ [Next]_vars => Closed'
  BY StoreStep, ServeClosed
<1>3. Inv /\ Closed => ParentsFirst
  <2>1. ASSUME Inv, pc = "unpack", NEW k \in 1 .. current - 1
        PROVE  \E v \in volumes : v.id = layerInfos[k].ChainID
    <3>1. manifest \in Readable /\ layerInfos = createLayerInfos(manifest)
      BY <2>1 DEF Inv, Building
    <3>2. k \in 1 .. Len(manifest.layers)
      BY <2>1, <3>1, CurrentFacts, ImageFacts
    <3>3. layerInfos[k].ChainID = SubSeq(ImageOf(manifest), 1, k)
      BY <3>1, <3>2, InfosOf
    <3>4. [id |-> SubSeq(ImageOf(manifest), 1, k), stack |-> SubSeq(ImageOf(manifest), 1, k)]
            \in volumes
      BY <2>1 DEF Inv, Building
    <3> QED BY <3>3, <3>4
  <2>2. ASSUME Closed, NEW v \in volumes, NEW k \in 1 .. Len(v.id) - 1
        PROVE  \E w \in volumes : w.id = SubSeq(v.id, 1, k)
    BY <2>2 DEF Closed, Store!Volume
  <2> QED BY <2>1, <2>2 DEF ParentsFirst
<1> QED BY Invariance, <1>1, <1>2, <1>3, PTL DEF Spec

-----------------------------------------------------------------------------
(* Pulls end.  PullsEnd, which TLC checks, says so under fairness; here is *)
(* the variant behind it, for images of any length.                        *)

UnderWay == Running \cup {"unwind"}

(* How many steps a pull has left at most, once it has its layer infos.    *)
StepsLeft ==
  CASE pc = "imageInfo" -> 1
    [] pc = "quota"     -> 2 * Len(layerInfos) + 2
    [] pc = "build"     -> 2 * (Len(layerInfos) + 1 - current) + 1
    [] pc = "unpack"    -> 2 * (Len(layerInfos) + 1 - current)
    [] pc = "unwind"    -> 1
    [] OTHER            -> 0

(* A step ends the pull, or gets the infos, or leaves fewer steps; or it is*)
(* a Read of the driver's or the work of others, which leave the pull where*)
(* it is.                                                                  *)
GetsOn ==
  \/ pc' \notin UnderWay
  \/ pc = "imageInfo" /\ pc' = "quota"
  \/ StepsLeft' < StepsLeft /\ pc' # "imageInfo"
  \/ (ReadCreates \/ ReadLosesFile \/ OthersUnpack) /\ pc' = pc /\ StepsLeft' = StepsLeft

(* Whatever registry, driver and others do, a pull never goes back: with n *)
(* layers it takes no more than 2 * n + 2 steps after ImageInfo, besides   *)
(* the Reads of the driver's (image_puller.go 67-131).                     *)
THEOREM PullsGetOn == Spec => [][(pc \in UnderWay) => StepsLeft \in Nat /\ GetsOn]_vars
<1>1. Inv /\ [Next]_vars => [(pc \in UnderWay) => StepsLeft \in Nat /\ GetsOn]_vars
  <2> SUFFICES ASSUME Inv, Next, pc \in UnderWay PROVE StepsLeft \in Nat /\ GetsOn
    OBVIOUS
  <2>1. PICK n \in Nat : n = Len(layerInfos)
    BY ImageFacts, InfosOf DEF Inv, Building
  <2>2. current \in 1 .. n + 1 /\ current \in Nat /\ (pc = "unpack" => current <= n)
    BY <2>1 DEF Inv, TypeOK, Building
  <2>3. StepsLeft \in Nat
    BY <2>1, <2>2 DEF StepsLeft
  <2> SUFFICES GetsOn
    BY <2>3
  <2>4. CASE ImageInfo \/ ImageInfoFails \/ ImageInfoPanics \/ QuotaIsExceeded \/ AllBuilt \/ Unwind
             \/ Crash
    BY <2>4 DEF ImageInfo, ImageInfoFails, ImageInfoPanics, QuotaIsExceeded, AllBuilt, Unwind, Crash,
       End, GetsOn, UnderWay, Running
  <2>5. CASE CheckQuota
    <3>1. layerInfos' = layerInfos /\ current' = current /\ pc = "quota" /\ pc' = "build"
      BY <2>5 DEF CheckQuota, pullVars
    <3>2. StepsLeft' < StepsLeft
      BY <2>1, <2>2, <3>1 DEF StepsLeft
    <3> QED BY <3>1, <3>2 DEF GetsOn
  <2>6. CASE BuildLayer
    <3>1. layerInfos' = layerInfos /\ current' = current /\ pc = "build" /\ pc' = "unpack"
      BY <2>6 DEF BuildLayer, pullVars
    <3>2. StepsLeft' < StepsLeft
      BY <2>1, <2>2, <3>1 DEF StepsLeft
    <3> QED BY <3>1, <3>2 DEF GetsOn
  <2>7. CASE Unpack \/ UnpackHas
    <3>1. layerInfos' = layerInfos /\ current' = current + 1 /\ pc = "unpack" /\ pc' = "build"
      BY <2>7 DEF Unpack, UnpackHas, pullVars
    <3>2. StepsLeft' < StepsLeft
      BY <2>1, <2>2, <3>1 DEF StepsLeft
    <3> QED BY <3>1, <3>2 DEF GetsOn
  <2>8. CASE UnpackFails
    <3>1. pc = "unpack" /\ pc' = "unwind"
      BY <2>8 DEF UnpackFails
    <3>2. StepsLeft' < StepsLeft
      BY <2>1, <2>2, <3>1 DEF StepsLeft
    <3> QED BY <3>1, <3>2 DEF GetsOn
  <2>9. CASE ReadCreates \/ ReadLosesFile \/ OthersUnpack
    <3>1. UNCHANGED <<pc, layerInfos, current>>
      BY <2>9 DEF ReadCreates, ReadLosesFile, OthersUnpack, pullVars
    <3>2. StepsLeft' = StepsLeft
      BY <3>1 DEF StepsLeft
    <3> QED BY <2>9, <3>1, <3>2 DEF GetsOn
  <2> QED BY <2>4, <2>5, <2>6, <2>7, <2>8, <2>9 DEF Next, PullStep, UnderWay
<1> QED BY Invariance, <1>1, PTL DEF Spec

=============================================================================
