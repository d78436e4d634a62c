------------------------- MODULE MatchPlanningProofs -------------------------
(***************************************************************************)
(* TLAPS proofs about MatchPlanning, for every list of files, every        *)
(* configuration and every answer of the AI: what a plan means, what a     *)
(* cache hit is current with, and what a replay may touch; and about       *)
(* UniqueTargets, the allocator of the names that a plan gives out.        *)
(***************************************************************************)
EXTENDS MatchPlanning, UniqueTargets, SelectionProofs

-----------------------------------------------------------------------------
(* The inductive invariant.                                                  *)

\* A tag is one that is safe in a file name and short.
SafeTag(tag) == tag.kind \in {"lower", "upper"} /\ Len(tag.word) <= 16

\* The operations connect the files that are meant, one by one.
Means(ops, meant) ==
  /\ IsSeq(ops) /\ IsSeq(meant) /\ Len(ops) = Len(meant)
  /\ \A i \in DOMAIN ops :
       ops[i].v = meant[i].v /\ ops[i].s = meant[i].s /\ SafeTag(ops[i].name.tag)

DistinctTargets(mode, ops) ==
  \A i, j \in DOMAIN ops : i # j => TargetOf(mode, ops[i]) # TargetOf(mode, ops[j])

\* What a scan returns: an identifier tells the position of its file in it.
ScanResult(media) ==
  /\ IsSeq(media)
  /\ \A i \in DOMAIN media :
       /\ media[i].id = i
       /\ media[i].path \in Range(Inputs)
       /\ media[i].file_type = FileType(media[i].path)

KeyUnder(key, c) == key = [files |-> key.files, config |-> ConfigHash(c)]

\* What a run knows at each of its steps.
RunKnows ==
  /\ run.pc \in {"idle", "locked", "scanned", "missed", "asking", "saving", "writing", "planned"}
  /\ run.pc = "locked" => run = [pc |-> "locked", config |-> run.config]
  /\ run.pc = "scanned" =>
       /\ run = [pc |-> "scanned", config |-> run.config, media |-> run.media]
       /\ ScanResult(run.media)
  /\ run.pc \in {"missed", "asking"} =>
       /\ run = [pc |-> run.pc, config |-> run.config, media |-> run.media, key |-> run.key]
       /\ ScanResult(run.media) /\ KeyUnder(run.key, run.config)
  /\ run.pc \in {"saving", "writing"} =>
       /\ run = [pc |-> run.pc, config |-> run.config, key |-> run.key, ops |-> run.ops,
                 meant |-> run.meant, rejected |-> run.rejected]
       /\ KeyUnder(run.key, run.config)
       /\ Means(run.ops, run.meant) /\ DistinctTargets(run.config.mode, run.ops)

\* What the cache file says, whoever wrote it and whatever happened since.
CacheTells ==
  cache.state = "data" =>
    /\ KeyUnder(cache.directory, cache.asked.config)
    /\ cache.directory.files = cache.asked.files
    /\ Means(cache.match_operations, cache.asked.meant)
    /\ DistinctTargets(cache.original_relocation_mode, cache.match_operations)
    /\ cache.asked.quiet =>
         \A op \in Range(cache.match_operations) :
           \E e \in cache.asked.files :
             e[1] = op.s /\ <<op.s, Seconds(e[2])>> \in cache.file_snapshot

PlanInv == RunKnows /\ CacheTells /\ PlanIsWhatWasMeant /\ CacheHitIsCurrent /\ ReplayIsSafe

-----------------------------------------------------------------------------
(* The tag of a target name.                                                 *)

LEMMA CodeIsSafe ==
  ASSUME NEW w, Codes(w) # {}
  PROVE  SafeTag(Code(w))
<1> DEFINE c == CHOOSE c \in Codes(w) : TRUE
<1>1. c \in DOMAIN LanguageCodes
  BY DEF Codes
<1>2. Len(c) <= 16
  BY <1>1, ShortCodes
<1>3. Code(w) = [word |-> c, kind |-> "lower"]
  BY DEF Code, Plain
<1> HIDE DEF c
<1> QED
  BY <1>2, <1>3 DEF SafeTag

LEMMA SmallTags ==
  /\ SafeTag(NoTag)
  /\ \A l : SafeTag(SanitizeSuffix(l))
  /\ \A a, b : SafeTag(a) /\ SafeTag(b) => SafeTag(First(a, b))
<1>1. Len("") <= 16
  BY ShortCodes
<1>2. SafeTag(NoTag)
  BY <1>1 DEF SafeTag, NoTag, Plain
<1>3. ASSUME NEW l PROVE SafeTag(SanitizeSuffix(l))
  BY <1>2 DEF SanitizeSuffix, SafeTag
<1> QED
  BY <1>2, <1>3 DEF First

\* Whatever the AI and the path say, the tag is one a file name may have.
LEMMA TagIsSafe ==
  ASSUME NEW suffix, NEW language, NEW shown, IsSeq(shown.dirs)
  PROVE  SafeTag(SubtitleTag(suffix, language, shown))
<1>1. SafeTag(NormalizeAiLanguage(language))
  BY SmallTags DEF NormalizeAiLanguage
<1>2. SafeTag(DetectFromDirectory(shown))
  <2> DEFINE s == shown.dirs
             I == {i \in DOMAIN s : Codes(Lower(s[i]).word) # {}}
             known == Picked(s, I)
  <2>1. CASE known = <<>>
    BY <2>1, SmallTags DEF DetectFromDirectory
  <2>2. CASE known # <<>>
    <3>1. I \subseteq DOMAIN s
      OBVIOUS
    <3> HIDE DEF I
    <3>2. /\ Cardinality(I) \in Nat /\ IsSeq(known) /\ Len(known) = Cardinality(I)
          /\ \A k \in 1..Cardinality(I) : Nth(I, k) \in I /\ known[k] = s[Nth(I, k)]
      BY <3>1, PickedFacts
    <3> HIDE DEF known
    <3>3. 1 \in 1..Cardinality(I)
      BY <2>2, <3>2 DEF IsSeq
    <3>4. Codes(Lower(known[1]).word) # {}
      BY <3>2, <3>3 DEF I
    <3>5. DetectFromDirectory(shown) = Code(Lower(known[1]).word)
      BY <2>2 DEF DetectFromDirectory, known, I
    <3> QED
      BY <3>4, <3>5, CodeIsSafe
  <2> QED
    BY <2>1, <2>2
<1>3. SafeTag(DetectFromFilename(shown))
  <2> DEFINE captured(sep) == LET l == shown.marks[sep] IN
               IF l.kind = "lower" /\ Len(l.word) \in 2..3 /\ Codes(l.word) # {} THEN Code(l.word) ELSE NoTag
  <2>1. ASSUME NEW sep PROVE SafeTag(captured(sep))
    BY CodeIsSafe, SmallTags
  <2>2. DetectFromFilename(shown) =
          First(captured("dot"), First(captured("underscore"), captured("hyphen")))
    BY DEF DetectFromFilename
  <2> HIDE DEF captured
  <2> QED
    BY <2>1, <2>2, SmallTags
<1> QED
  BY <1>1, <1>2, <1>3, SmallTags DEF SubtitleTag, PrimaryLanguage

-----------------------------------------------------------------------------
(* Scans and what is found in them.                                          *)

\* scan_file_list numbers the media files of the list.
LEMMA ScanIsResult ==
  ScanResult(ScanFileList)
<1> DEFINE I == {i \in DOMAIN Inputs : Exists(Inputs[i])}
           found == Picked(Inputs, I)
           J == {i \in DOMAIN found : FileType(found[i]) # "none"}
           media == Picked(found, J)
           relative == [p \in Range(Inputs) |-> [p EXCEPT !.dir = 0]]
           result == [i \in DOMAIN media |-> MediaFile(i, media[i], relative[media[i]])]
<1>1. IsSeq(Inputs) /\ I \subseteq DOMAIN Inputs
  BY SequencesAssumption DEF IsSeq
<1>2. ScanFileList = result
  BY DEF ScanFileList, Classified
<1> HIDE DEF I, relative
<1>3. /\ IsSeq(found) /\ DOMAIN found = 1..Cardinality(I)
      /\ \A k \in DOMAIN found : Nth(I, k) \in I /\ found[k] = Inputs[Nth(I, k)]
  BY <1>1, PickedFacts
<1>4. \A k \in DOMAIN found : found[k] \in Range(Inputs)
  BY <1>1, <1>3 DEF Range
<1>5. J \subseteq DOMAIN found
  OBVIOUS
<1> HIDE DEF found, J
<1>6. /\ Cardinality(J) \in Nat /\ IsSeq(media) /\ DOMAIN media = 1..Cardinality(J)
      /\ \A k \in DOMAIN media : Nth(J, k) \in J /\ media[k] = found[Nth(J, k)]
  <2>1. IsSeq(found)
    BY <1>3
  <2>2. /\ Cardinality(J) \in Nat /\ IsSeq(media) /\ DOMAIN media = 1..Cardinality(J)
        /\ \A k \in 1..Cardinality(J) : Nth(J, k) \in J /\ media[k] = found[Nth(J, k)]
    BY <2>1, <1>5, PickedFacts
  <2> QED
    BY <2>2
<1>7. \A k \in DOMAIN media : media[k] \in Range(Inputs)
  BY <1>4, <1>5, <1>6
<1> HIDE DEF media
<1>8. IsSeq(result)
  <2>1. result \in [1..Cardinality(J) -> Range(result)]
    BY <1>6 DEF Range
  <2> HIDE DEF result
  <2> QED
    BY <1>6, <2>1 DEF IsSeq
<1>9. \A i \in DOMAIN result :
        /\ result[i].id = i /\ result[i].path = media[i]
        /\ result[i].file_type = FileType(media[i]) /\ i \in DOMAIN media
  BY DEF MediaFile
<1> HIDE DEF result
<1> QED
  BY <1>2, <1>7, <1>8, <1>9 DEF ScanResult

\* find_media_file_by_id_or_path finds the file whose identifier was returned.
LEMMA FindFacts ==
  ASSUME NEW media, ScanResult(media), NEW type, NEW p,
         NEW f \in Find(OfType(media, type), IdOf(media, p))
  PROVE  f = p /\ f \in Range(Inputs) /\ FileType(f) = type
<1> DEFINE I == {i \in DOMAIN media : media[i].file_type = type}
           hits == Picked(media, I)
           id == IdOf(media, p)
<1>1. I \subseteq DOMAIN media /\ OfType(media, type) = hits
  BY DEF OfType
<1>2. IsSeq(media) /\ DOMAIN media = 1..Len(media) /\ Len(media) \in Nat
  BY DEF ScanResult, IsSeq
<1> HIDE DEF I
<1>3. /\ DOMAIN hits = 1..Cardinality(I)
      /\ \A k \in 1..Cardinality(I) : Nth(I, k) \in I /\ hits[k] = media[Nth(I, k)]
  BY <1>1, <1>2, PickedFacts
<1> HIDE DEF hits, id
<1>4. PICK k \in DOMAIN hits : hits[k].id = id /\ f = hits[k].path
  BY <1>1 DEF Find, id
<1>5. PICK i \in I : hits[k] = media[i]
  BY <1>3
<1>6. i \in DOMAIN media /\ media[i].id = i /\ id = i /\ id # 0 /\ f = media[i].path
  BY <1>1, <1>2, <1>4, <1>5 DEF ScanResult
<1>7. \E j \in DOMAIN media : media[j].path = p
  BY <1>6 DEF id, IdOf
<1> DEFINE j == CHOOSE j \in DOMAIN media : media[j].path = p
<1>8. j \in DOMAIN media /\ media[j].path = p
  BY <1>7
<1>9. id = media[j].id
  BY <1>7 DEF id, IdOf
<1> HIDE DEF j
<1>10. j = i
  BY <1>6, <1>8, <1>9 DEF ScanResult
<1> QED
  BY <1>1, <1>5, <1>6, <1>8, <1>10 DEF I, ScanResult
-----------------------------------------------------------------------------
(* Operations.                                                               *)

\* An operation whose name has no number yet
Unnumbered(op) ==
  \E v, s, tag, stem, ext, conf :
    op = [v |-> v, s |-> s, confidence |-> conf,
          name |-> [dir |-> 0, stem |-> stem, tag |-> tag, num |-> 0, ext |-> ext]]

\* An accepted match becomes an operation between the two hits it means.
LEMMA OperationFacts ==
  ASSUME ScanResult(run.media), NEW m, Accepted(m)
  PROVE  /\ Operation(m).v = m.v /\ Operation(m).s = m.s
         /\ SafeTag(Operation(m).name.tag)
         /\ Unnumbered(Operation(m))
<1> DEFINE vs == Find(OfType(run.media, "Video"), IdOf(run.media, m.v))
           ss == Find(OfType(run.media, "Subtitle"), IdOf(run.media, m.s))
           v == CHOOSE f \in vs : TRUE
           s == CHOOSE f \in ss : TRUE
<1>1. vs # {} /\ ss # {}
  BY DEF Accepted, Returned
<1>2. Operation(m) = [v |-> v, s |-> s, name |-> Named(v, s, m, 0), confidence |-> m.confidence]
  BY DEF Operation, Returned
<1>3. v \in vs /\ s \in ss
  BY <1>1
<1> HIDE DEF v, s
<1>4. v = m.v
  BY <1>3, FindFacts
<1>5. s = m.s /\ s \in Range(Inputs) /\ FileType(s) = "Subtitle"
  BY <1>3, FindFacts
<1>6. IsSeq(Shown[s].dirs)
  BY <1>5, SequencesAssumption DEF IsSeq
<1> DEFINE tag == SubtitleTag(m.suffix, m.language, Shown[s])
<1>7. SafeTag(tag)
  BY <1>6, TagIsSafe
<1>8. Named(v, s, m, 0) = [dir |-> 0, stem |-> v.stem, tag |-> tag, num |-> 0, ext |-> s.ext]
  BY DEF Named
<1> HIDE DEF tag
<1>9. /\ Operation(m).v = v /\ Operation(m).s = s /\ Operation(m).name.tag = tag
  BY <1>2, <1>8
<1>10. Unnumbered(Operation(m))
  BY <1>2, <1>8 DEF Unnumbered
<1> QED
  BY <1>4, <1>5, <1>7, <1>9, <1>10

\* What the allocator returns for the operations of the accepted matches.
LEMMA AllocatedFacts ==
  ASSUME ScanResult(run.media), NEW mode, NEW taken, IsSeq(taken),
         \A i \in DOMAIN taken : Accepted(taken[i]),
         NEW o \in Allocated(mode, [i \in DOMAIN taken |-> Operation(taken[i])])
  PROVE  Means(o, taken) /\ DistinctTargets(mode, o)
<1> DEFINE ops == [i \in DOMAIN taken |-> Operation(taken[i])]
           n == Len(taken)
<1>1. n \in Nat /\ DOMAIN taken = 1..n /\ DOMAIN ops = 1..n /\ \A i \in 1..n : ops[i] = Operation(taken[i])
  BY DEF IsSeq
<1>2. ASSUME NEW i \in 1..n
      PROVE  /\ ops[i].v = taken[i].v /\ ops[i].s = taken[i].s
             /\ SafeTag(ops[i].name.tag)
             /\ Unnumbered(ops[i])
  BY <1>1, OperationFacts
<1> HIDE DEF ops, n
<1>3. /\ o \in [1..n -> {[op EXCEPT !.name.num = k] : op \in Range(ops), k \in {0, 2, 3}}]
      /\ \A i \in 1..n : [o[i] EXCEPT !.name.num = 0] = ops[i]
      /\ \A i \in 1..n : \A j \in 1..n : i # j => TargetOf(mode, o[i]) # TargetOf(mode, o[j])
  <2>1. o \in Allocated(mode, ops)
    BY DEF ops
  <2> QED
    BY <1>1, <2>1 DEF Allocated
<1>4. ASSUME NEW i \in 1..n
      PROVE  o[i].v = ops[i].v /\ o[i].s = ops[i].s /\ o[i].name.tag = ops[i].name.tag
  <2>1. PICK op \in Range(ops), k \in {0, 2, 3} : o[i] = [op EXCEPT !.name.num = k]
    BY <1>3
  <2>2. PICK j \in 1..n : op = ops[j]
    BY <1>1 DEF Range
  <2>3. PICK v, s, tag, stem, ext, conf :
          op = [v |-> v, s |-> s, confidence |-> conf,
                name |-> [dir |-> 0, stem |-> stem, tag |-> tag, num |-> 0, ext |-> ext]]
    <3>1. Unnumbered(op)
      BY <1>2, <2>2
    <3> QED
      BY <3>1 DEF Unnumbered
  <2>4. o[i] = [v |-> v, s |-> s, confidence |-> conf,
                name |-> [dir |-> 0, stem |-> stem, tag |-> tag, num |-> k, ext |-> ext]]
    BY <2>1, <2>3
  <2>5. [o[i] EXCEPT !.name.num = 0] = ops[i]
    BY <1>3
  <2>6. ops[i] = [v |-> v, s |-> s, confidence |-> conf,
                name |-> [dir |-> 0, stem |-> stem, tag |-> tag, num |-> 0, ext |-> ext]]
    BY <2>4, <2>5
  <2> QED
    BY <2>4, <2>6
<1>5. IsSeq(o) /\ Len(o) = n /\ DOMAIN o = 1..n
  <2>1. o \in [1..n -> Range(o)]
    BY <1>3 DEF Range
  <2> QED
    BY <1>1, <2>1 DEF IsSeq
<1>6. Means(o, taken)
  BY <1>2, <1>4, <1>5 DEF Means, n
<1>7. DistinctTargets(mode, o)
  BY <1>3, <1>5 DEF DistinctTargets
<1> QED
  BY <1>6, <1>7

\* Filtering operations and what they mean at the same positions keeps the two
\* together.
LEMMA PickedMeans ==
  ASSUME NEW ops, NEW meant, Means(ops, meant), NEW I, I \subseteq DOMAIN ops
  PROVE  /\ Means(Picked(ops, I), Picked(meant, I))
         /\ \A i \in DOMAIN Picked(ops, I) : \E k \in I : Picked(ops, I)[i] = ops[k]
<1> DEFINE p == Picked(ops, I)
           q == Picked(meant, I)
<1>1. IsSeq(ops) /\ IsSeq(meant) /\ DOMAIN ops = DOMAIN meant
  BY DEF Means, IsSeq
<1>2. /\ IsSeq(p) /\ DOMAIN p = 1..Cardinality(I) /\ Len(p) = Cardinality(I)
      /\ \A k \in 1..Cardinality(I) : Nth(I, k) \in I /\ p[k] = ops[Nth(I, k)]
  BY <1>1, PickedFacts
<1>3. /\ IsSeq(q) /\ DOMAIN q = 1..Cardinality(I) /\ Len(q) = Cardinality(I)
      /\ \A k \in 1..Cardinality(I) : q[k] = meant[Nth(I, k)]
  BY <1>1, PickedFacts
<1> HIDE DEF p, q
<1>4. \A k \in DOMAIN p : p[k].v = q[k].v /\ p[k].s = q[k].s /\ SafeTag(p[k].name.tag)
  BY <1>2, <1>3 DEF Means
<1>5. Means(p, q)
  BY <1>2, <1>3, <1>4 DEF Means
<1>6. \A i \in DOMAIN p : \E k \in I : p[i] = ops[k]
  BY <1>2
<1> QED
  BY <1>5, <1>6 DEF p, q

LEMMA PickedDistinct ==
  ASSUME NEW ops, IsSeq(ops), NEW mode, DistinctTargets(mode, ops), NEW I, I \subseteq DOMAIN ops
  PROVE  DistinctTargets(mode, Picked(ops, I))
<1> DEFINE p == Picked(ops, I)
<1>1. /\ DOMAIN p = 1..Cardinality(I)
      /\ \A k \in 1..Cardinality(I) : Nth(I, k) \in I /\ p[k] = ops[Nth(I, k)]
      /\ \A j, k \in 1..Cardinality(I) : j # k => Nth(I, j) # Nth(I, k)
  BY PickedFacts
<1> HIDE DEF p
<1>2. ASSUME NEW i \in DOMAIN p, NEW j \in DOMAIN p, i # j
      PROVE  TargetOf(mode, p[i]) # TargetOf(mode, p[j])
  BY <1>1, <1>2 DEF DistinctTargets
<1> QED
  BY <1>2 DEF DistinctTargets, p
-----------------------------------------------------------------------------
(* The steps.                                                                *)

\* Nothing that bears on the plans changes.
LEMMA Untouched ==
  ASSUME PlanInv, run' = run, cache' = cache
  PROVE  PlanInv'
<1>1. RunKnows' /\ CacheTells'
  BY DEF PlanInv, RunKnows, CacheTells
<1>2. PlanIsWhatWasMeant' /\ CacheHitIsCurrent' /\ ReplayIsSafe'
  BY SMTT(40) DEF PlanInv, PlanIsWhatWasMeant, CacheHitIsCurrent, ReplayIsSafe, TargetOf, Target
<1> QED
  BY <1>1, <1>2 DEF PlanInv

\* The run is not at its plan, and the cache is as it was.
LEMMA Unplanned ==
  ASSUME PlanInv, cache' = cache, RunKnows', run'.pc # "planned"
  PROVE  PlanInv'
<1>1. CacheTells'
  BY DEF PlanInv, CacheTells
<1>2. PlanIsWhatWasMeant' /\ CacheHitIsCurrent' /\ ReplayIsSafe'
  BY DEF PlanIsWhatWasMeant, CacheHitIsCurrent, ReplayIsSafe
<1> QED
  BY <1>1, <1>2 DEF PlanInv

LEMMA UnlockStep ==
  ASSUME PlanInv, cache' = cache, Unlock
  PROVE  PlanInv'
<1>1. run' = Idle /\ run'.pc = "idle"
  BY DEF Unlock, Idle
<1>2. RunKnows'
  BY <1>1 DEF RunKnows
<1> QED
  BY <1>1, <1>2, Unplanned

LEMMA AcquireStep ==
  ASSUME PlanInv, NEW p, NEW c, Acquire(p, c)
  PROVE  PlanInv'
<1>1. run' = [pc |-> "locked", config |-> c] /\ cache' = cache
  BY DEF Acquire
<1>2. RunKnows' /\ run'.pc # "planned"
  BY <1>1 DEF RunKnows
<1> QED
  BY <1>1, <1>2, Unplanned

LEMMA ScanStep ==
  ASSUME PlanInv, Scan
  PROVE  PlanInv'
<1>1. CASE Unlock
  BY <1>1, UnlockStep DEF Scan
<1>2. CASE ~Unlock
  <2>1. run' = [pc |-> "scanned", config |-> run.config, media |-> ScanFileList] /\ cache' = cache
    BY <1>2 DEF Scan
  <2> DEFINE media == ScanFileList
  <2>2. ScanResult(media)
    BY ScanIsResult
  <2>3. run' = [pc |-> "scanned", config |-> run.config, media |-> media]
    BY <2>1
  <2> HIDE DEF media
  <2>4. run'.pc = "scanned" /\ run'.media = media /\ ScanResult(run'.media)
    BY <2>2, <2>3
  <2>5. RunKnows'
    BY <2>3, <2>4 DEF RunKnows, ScanResult, IsSeq
  <2> QED
    BY <2>1, <2>4, <2>5, Unplanned
<1> QED
  BY <1>1, <1>2
\* A plan is made and the cache left alone.
LEMMA PlanFrame ==
  ASSUME PlanInv, cache' = cache, run'.pc = "planned",
         PlanIsWhatWasMeant', CacheHitIsCurrent', ReplayIsSafe'
  PROVE  PlanInv'
<1>1. CacheTells'
  BY DEF PlanInv, CacheTells
<1>2. RunKnows'
  BY DEF RunKnows
<1> QED
  BY <1>1, <1>2 DEF PlanInv

\* A plan whose operations mean what was asked has the first property.
LEMMA MeantIsPlanned ==
  ASSUME NEW ops, NEW meant, NEW J, run'.pc = "planned", run'.ops = ops,
         J = {i \in DOMAIN run'.asked.meant :
                run'.from = "ai" \/
                {run'.asked.meant[i].v, run'.asked.meant[i].s} \subseteq DOMAIN run'.seen},
         Picked(run'.asked.meant, J) = meant, Means(ops, meant)
  PROVE  PlanIsWhatWasMeant'
<1>1. Len(ops) = Len(meant)
  BY DEF Means
<1>2. \A i \in DOMAIN ops :
        /\ ops[i].v = meant[i].v /\ ops[i].s = meant[i].s
        /\ ops[i].name.tag.kind \in {"lower", "upper"} /\ Len(ops[i].name.tag.word) <= 16
  BY DEF Means, SafeTag
<1> QED
  BY <1>1, <1>2 DEF PlanIsWhatWasMeant

\* A hit: the plan is that of the cache, for the same files.
LEMMA HitStep ==
  ASSUME PlanInv, cache' = cache, Hit(Key(run.config)),
         Plan(Rebuilt(cache.match_operations), <<>>, "cache")
  PROVE  PlanInv'
<1> DEFINE cops == cache.match_operations
           meant == cache.asked.meant
           I == {i \in DOMAIN cops : Exists(cops[i].v) /\ Exists(cops[i].s)}
           J == {i \in DOMAIN meant : {meant[i].v, meant[i].s} \subseteq DOMAIN disk}
           ops == Picked(cops, I)
           d == disk
           asked == cache.asked
           conf == run.config
<1>1. /\ cache.state = "data" /\ Means(cops, meant)
      /\ KeyUnder(cache.directory, asked.config) /\ cache.directory.files = asked.files
      /\ cache.directory = Key(conf)
  BY DEF PlanInv, CacheTells, Hit
<1>2. DOMAIN cops = DOMAIN meant /\ \A i \in DOMAIN cops : cops[i].v = meant[i].v /\ cops[i].s = meant[i].s
  BY <1>1 DEF Means, IsSeq
<1>3. I = J /\ I \subseteq DOMAIN cops
  BY <1>2 DEF Exists
<1>4. run' = [pc |-> "planned", config |-> conf, ops |-> ops, rejected |-> <<>>, from |-> "cache",
              seen |-> d, asked |-> asked]
  BY DEF Plan, Rebuilt
<1>5. Means(ops, Picked(meant, I))
  BY <1>1, <1>3, PickedMeans
<1>6. PlanIsWhatWasMeant'
  <2>1. run'.pc = "planned" /\ run'.ops = ops /\ run'.from = "cache" /\ run'.asked.meant = meant /\ run'.seen = d
    BY <1>4
  <2>2. J = {i \in DOMAIN meant : {meant[i].v, meant[i].s} \subseteq DOMAIN d}
    OBVIOUS
  <2>3. Picked(meant, J) = Picked(meant, I)
    BY <1>3
  <2> HIDE DEF ops, meant, I, J, d
  <2>4. J = {i \in DOMAIN run'.asked.meant :
                run'.from = "ai" \/
                {run'.asked.meant[i].v, run'.asked.meant[i].s} \subseteq DOMAIN run'.seen}
    BY <2>1, <2>2
  <2>5. Picked(run'.asked.meant, J) = Picked(meant, I)
    BY <2>1, <2>3
  <2> QED
    BY <1>5, <2>1, <2>4, <2>5, MeantIsPlanned
<1>7. CacheHitIsCurrent'
  <2>1. asked.files = {<<p, d[p]>> : p \in Range(Inputs) \cap DOMAIN d}
    BY <1>1 DEF Key, Exists
  <2>2. ConfigHash(asked.config) = ConfigHash(conf)
    BY <1>1 DEF Key, KeyUnder
  <2> HIDE DEF ops, d, asked, conf
  <2>3. run'.seen = d /\ run'.asked = asked /\ run'.config = conf
    BY <1>4
  <2> QED
    BY <2>1, <2>2, <2>3 DEF CacheHitIsCurrent
<1>8. ReplayIsSafe'
  BY <1>4 DEF ReplayIsSafe
<1>9. run'.pc = "planned"
  BY <1>4
<1> QED
  BY <1>6, <1>7, <1>8, <1>9, PlanFrame

LEMMA LookUpStep ==
  ASSUME PlanInv, LookUp
  PROVE  PlanInv'
<1>1. run.pc = "scanned" /\ cache' = cache
  BY DEF LookUp
<1>2. CASE Hit(Key(run.config))
  BY <1>1, <1>2, HitStep DEF LookUp
<1>3. CASE ~Hit(Key(run.config))
  <2> DEFINE key == Key(run.config)
             media == run.media
             conf == run.config
  <2>1. run' = [pc |-> "missed", config |-> conf, media |-> media, key |-> key]
    BY <1>3 DEF LookUp
  <2>2. ScanResult(media)
    BY <1>1 DEF PlanInv, RunKnows
  <2>3. KeyUnder(key, conf)
    BY DEF Key, KeyUnder
  <2> HIDE DEF key, media, conf
  <2>4. /\ run'.pc = "missed" /\ run'.config = conf /\ run'.media = media /\ run'.key = key
        /\ ScanResult(run'.media) /\ KeyUnder(run'.key, run'.config)
    BY <2>1, <2>2, <2>3
  <2>5. RunKnows'
    BY <2>1, <2>4 DEF RunKnows
  <2> QED
    BY <1>1, <2>4, <2>5, Unplanned
<1> QED
  BY <1>2, <1>3

LEMMA SampleStep ==
  ASSUME PlanInv, Sample
  PROVE  PlanInv'
<1>1. run.pc = "missed" /\ cache' = cache
  BY DEF Sample
<1>2. CASE Unlock
  BY <1>1, <1>2, UnlockStep
<1>3. CASE ~Unlock
  <2> DEFINE key == run.key
             media == run.media
             conf == run.config
  <2>1. run' = [run EXCEPT !.pc = "asking"]
    BY <1>3 DEF Sample
  <2>2. /\ run = [pc |-> run.pc, config |-> conf, media |-> media, key |-> key]
        /\ ScanResult(media) /\ KeyUnder(key, conf)
    BY <1>1 DEF PlanInv, RunKnows
  <2> HIDE DEF key, media, conf
  <2>3. run' = [pc |-> "asking", config |-> conf, media |-> media, key |-> key]
    BY <2>1, <2>2
  <2>4. /\ run'.pc = "asking" /\ run'.config = conf /\ run'.media = media /\ run'.key = key
        /\ ScanResult(run'.media) /\ KeyUnder(run'.key, run'.config)
    BY <2>2, <2>3
  <2>5. RunKnows'
    BY <2>3, <2>4 DEF RunKnows
  <2> QED
    BY <1>1, <2>4, <2>5, Unplanned
<1> QED
  BY <1>2, <1>3
\* The answer: identifiers are turned back into the files they stand for.
LEMMA AnalyzeStep ==
  ASSUME PlanInv, Analyze
  PROVE  PlanInv'
<1>1. run.pc = "asking" /\ cache' = cache
  BY DEF Analyze
<1>2. CASE Unlock
  BY <1>1, <1>2, UnlockStep
<1>3. CASE ~Unlock
  <2> DEFINE key == run.key
             conf == run.config
             positions(answer) == {i \in DOMAIN answer : Accepted(answer[i])}
             taken(answer) == Picked(answer, positions(answer))
             ops(answer) == [i \in DOMAIN taken(answer) |-> Operation(taken(answer)[i])]
  <2>1. PICK answer \in Answers : \E o \in Allocated(conf.mode, ops(answer)) :
          run' = [pc |-> "saving", config |-> conf, key |-> key, ops |-> o, meant |-> taken(answer),
                  rejected |-> Picked(answer, {i \in DOMAIN answer : ~Accepted(answer[i])})]
    BY <1>3 DEF Analyze
  <2>2. PICK o \in Allocated(conf.mode, ops(answer)) :
          run' = [pc |-> "saving", config |-> conf, key |-> key, ops |-> o, meant |-> taken(answer),
                  rejected |-> Picked(answer, {i \in DOMAIN answer : ~Accepted(answer[i])})]
    BY <2>1
  <2>3. IsSeq(answer) /\ positions(answer) \subseteq DOMAIN answer
    BY SequencesAssumption DEF IsSeq
  <2> DEFINE I == positions(answer)
             T == taken(answer)
             R == Picked(answer, {i \in DOMAIN answer : ~Accepted(answer[i])})
  <2>4. /\ IsSeq(T) /\ DOMAIN T = 1..Cardinality(I)
        /\ \A k \in 1..Cardinality(I) : Nth(I, k) \in I /\ T[k] = answer[Nth(I, k)]
    <3> HIDE DEF I
    <3> QED
      BY <2>3, PickedFacts DEF I
  <2>5. \A i \in I : Accepted(answer[i])
    OBVIOUS
  <2>6. ScanResult(run.media) /\ KeyUnder(key, conf)
    BY <1>1 DEF PlanInv, RunKnows
  <2>7. o \in Allocated(conf.mode, [i \in DOMAIN T |-> Operation(T[i])])
    BY <2>2
  <2>8. run' = [pc |-> "saving", config |-> conf, key |-> key, ops |-> o, meant |-> T, rejected |-> R]
    BY <2>2
  <2> HIDE DEF I, T, R, key, conf
  <2>9. \A i \in DOMAIN T : Accepted(T[i])
    BY <2>4, <2>5
  <2>10. Means(o, T) /\ DistinctTargets(conf.mode, o)
    BY <2>4, <2>6, <2>7, <2>9, AllocatedFacts
  <2>11. /\ run'.pc = "saving" /\ run'.config = conf /\ run'.key = key /\ run'.ops = o
         /\ run'.meant = T /\ run'.rejected = R
         /\ Means(run'.ops, run'.meant) /\ DistinctTargets(run'.config.mode, run'.ops)
         /\ KeyUnder(run'.key, run'.config)
    BY <2>6, <2>8, <2>10
  <2>12. RunKnows'
    BY <2>8, <2>11 DEF RunKnows
  <2> QED
    BY <1>1, <2>11, <2>12, Unplanned
<1> QED
  BY <1>2, <1>3

\* The cache file is truncated: it tells nothing until it is written.
LEMMA SaveOpensStep ==
  ASSUME PlanInv, SaveOpens
  PROVE  PlanInv'
<1> DEFINE conf == run.config
           key == run.key
           ops == run.ops
           meant == run.meant
           rejected == run.rejected
<1>1. /\ run = [pc |-> run.pc, config |-> conf, key |-> key, ops |-> ops, meant |-> meant,
                rejected |-> rejected]
      /\ KeyUnder(key, conf) /\ Means(ops, meant) /\ DistinctTargets(conf.mode, ops)
  BY DEF SaveOpens, PlanInv, RunKnows
<1>2. run' = [run EXCEPT !.pc = "writing"] /\ cache'.state = "torn"
  BY DEF SaveOpens, Torn
<1> HIDE DEF conf, key, ops, meant, rejected
<1>3. run' = [pc |-> "writing", config |-> conf, key |-> key, ops |-> ops, meant |-> meant,
              rejected |-> rejected]
  BY <1>1, <1>2
<1>4. /\ run'.pc = "writing" /\ run'.config = conf /\ run'.key = key /\ run'.ops = ops
      /\ run'.meant = meant /\ run'.rejected = rejected
      /\ Means(run'.ops, run'.meant) /\ DistinctTargets(run'.config.mode, run'.ops)
      /\ KeyUnder(run'.key, run'.config)
  BY <1>1, <1>3
<1>5. RunKnows'
  BY <1>3, <1>4 DEF RunKnows
<1>6. CacheTells'
  BY <1>2 DEF CacheTells
<1>7. PlanIsWhatWasMeant' /\ CacheHitIsCurrent' /\ ReplayIsSafe'
  BY <1>4 DEF PlanIsWhatWasMeant, CacheHitIsCurrent, ReplayIsSafe
<1> QED
  BY <1>5, <1>6, <1>7 DEF PlanInv

\* The plan is written: the cache tells what the run knows, and what the files of
\* the operations are now.
LEMMA SaveWritesStep ==
  ASSUME PlanInv, SaveWrites
  PROVE  PlanInv'
<1> DEFINE conf == run.config
           key == run.key
           ops == run.ops
           meant == run.meant
           rejected == run.rejected
           snapshot == Snapshot(ops)
           named == UNION {{op.v, op.s} : op \in Range(ops)}
           quiet == \A p \in named : Exists(p) /\ <<p, disk[p]>> \in key.files
           asked == [files |-> key.files, config |-> conf, meant |-> meant, quiet |-> quiet]
           d == disk
<1>1. /\ KeyUnder(key, conf) /\ Means(ops, meant) /\ DistinctTargets(conf.mode, ops)
  BY DEF SaveWrites, PlanInv, RunKnows
<1>2. run' = [pc |-> "planned", config |-> conf, ops |-> ops, rejected |-> rejected, from |-> "ai",
              seen |-> d, asked |-> [meant |-> meant]]
  BY DEF SaveWrites, Plan
<1>3. cache' = [state |-> "data", version |-> "2.0", directory |-> key, file_snapshot |-> snapshot,
                match_operations |-> ops, original_relocation_mode |-> conf.mode, asked |-> asked]
  BY DEF SaveWrites, CacheData
<1>4. ASSUME quiet, NEW op \in Range(ops)
      PROVE  \E e \in key.files : e[1] = op.s /\ <<op.s, Seconds(e[2])>> \in snapshot
  <2>1. op.s \in named
    OBVIOUS
  <2>2. Exists(op.s) /\ <<op.s, disk[op.s]>> \in key.files
    BY <1>4, <2>1
  <2>3. <<op.s, Seconds(disk[op.s])>> \in snapshot
    BY <2>1, <2>2 DEF Snapshot
  <2> DEFINE e == <<op.s, disk[op.s]>>
  <2>4. e \in key.files /\ e[1] = op.s /\ <<op.s, Seconds(e[2])>> \in snapshot
    BY <2>2, <2>3
  <2> QED
    BY <2>4
<1> HIDE DEF conf, key, ops, meant, rejected, snapshot, quiet, d
<1>5. CacheTells'
  <2> HIDE DEF asked
  <2>1. /\ cache'.directory = key /\ cache'.file_snapshot = snapshot
        /\ cache'.match_operations = ops /\ cache'.original_relocation_mode = conf.mode
        /\ cache'.asked = asked
    BY <1>3
  <2>2. asked.files = key.files /\ asked.config = conf /\ asked.meant = meant /\ asked.quiet = quiet
    BY DEF asked
  <2> QED
    BY <1>1, <1>4, <2>1, <2>2 DEF CacheTells
<1> HIDE DEF asked
<1>6. PlanIsWhatWasMeant'
  <2>1. run'.pc = "planned" /\ run'.ops = ops /\ run'.from = "ai" /\ run'.asked.meant = meant
    BY <1>2
  <2>2. Picked(meant, DOMAIN meant) = meant
    BY <1>1, PickedAll DEF Means
  <2>3. DOMAIN meant = {i \in DOMAIN run'.asked.meant :
                run'.from = "ai" \/
                {run'.asked.meant[i].v, run'.asked.meant[i].s} \subseteq DOMAIN run'.seen}
    BY <2>1
  <2>4. Picked(run'.asked.meant, DOMAIN meant) = meant
    BY <2>1, <2>2
  <2> QED
    BY <1>1, <2>1, <2>3, <2>4, MeantIsPlanned
<1>7. CacheHitIsCurrent' /\ ReplayIsSafe'
  BY <1>2 DEF CacheHitIsCurrent, ReplayIsSafe
<1>8. RunKnows'
  BY <1>2 DEF RunKnows
<1> QED
  BY <1>5, <1>6, <1>7, <1>8 DEF PlanInv

\* A replay: the two validations and the rebuilding.
LEMMA ReplayStep ==
  ASSUME PlanInv, Replay
  PROVE  PlanInv'
<1> DEFINE cops == cache.match_operations
           meant == cache.asked.meant
           mode == cache.original_relocation_mode
           I == {i \in DOMAIN cops : Exists(cops[i].v) /\ Exists(cops[i].s)}
           ops == Picked(cops, I)
           d == disk
           asked == cache.asked
           conf == run.config
<1>1. /\ Means(cops, meant) /\ DistinctTargets(mode, cops) /\ cache' = cache
      /\ asked.quiet => \A op \in Range(cops) : \E e \in asked.files :
           e[1] = op.s /\ <<op.s, Seconds(e[2])>> \in cache.file_snapshot
  BY DEF Replay, PlanInv, CacheTells
<1>2. SnapshotClean /\ TargetsClean /\ conf.mode = mode
  BY DEF Replay
<1>3. run' = [pc |-> "planned", config |-> conf, ops |-> ops, rejected |-> <<>>, from |-> "replay",
              seen |-> d, asked |-> asked]
  BY DEF Replay, Plan, Rebuilt
<1>4. IsSeq(cops) /\ I \subseteq DOMAIN cops
  BY <1>1 DEF Means
<1>5. ASSUME NEW i \in DOMAIN ops
      PROVE  \E k \in I : ops[i] = cops[k]
  <2> HIDE DEF I, meant
  <2> QED
    BY <1>1, <1>4, PickedMeans
<1>6. DistinctTargets(mode, ops)
  <2> HIDE DEF I, mode
  <2> QED
    BY <1>1, <1>4, PickedDistinct
<1>7. ASSUME NEW k \in I
      PROVE  LET op == cops[k]  t == TargetOf(mode, op) IN
             /\ t \in DOMAIN d => t = op.s
             /\ {op.v, op.s} \subseteq DOMAIN d
             /\ asked.quiet => \E e \in asked.files : e[1] = op.s /\ Seconds(e[2]) = Seconds(d[op.s])
  <2> DEFINE op == cops[k]
  <2>1. op \in Range(cops) /\ op.v \in DOMAIN d /\ op.s \in DOMAIN d
    BY DEF Range, Exists
  <2>2. TargetOf(mode, op) = [op.name EXCEPT !.dir = IF mode # "None" THEN op.v.dir ELSE op.s.dir]
    BY DEF TargetOf, Target
  <2>3. TargetOf(mode, op) \in DOMAIN d => TargetOf(mode, op) = op.s
    BY <1>2, <2>1, <2>2 DEF TargetsClean, Exists
  <2>4. ASSUME asked.quiet
        PROVE  \E e \in asked.files : e[1] = op.s /\ Seconds(e[2]) = Seconds(d[op.s])
    <3>1. PICK e \in asked.files : e[1] = op.s /\ <<op.s, Seconds(e[2])>> \in cache.file_snapshot
      BY <1>1, <2>1, <2>4
    <3> DEFINE x == <<op.s, Seconds(e[2])>>
    <3>2. Exists(x[1]) /\ Seconds(disk[x[1]]) = x[2]
      BY <1>2, <3>1 DEF SnapshotClean
    <3>3. x[1] = op.s /\ x[2] = Seconds(e[2])
      OBVIOUS
    <3> QED
      BY <3>1, <3>2, <3>3
  <2> QED
    BY <2>1, <2>3, <2>4
<1>8. ReplayIsSafe'
  <2> HIDE DEF ops, cops, I, d, asked, mode, conf
  <2>1. run'.ops = ops /\ run'.seen = d /\ run'.asked = asked /\ run'.config.mode = mode
    BY <1>2, <1>3
  <2>2. ASSUME NEW i \in DOMAIN ops
        PROVE  LET op == ops[i]  t == TargetOf(mode, op) IN
               /\ t \in DOMAIN d => t = op.s
               /\ \A j \in DOMAIN ops \ {i} : TargetOf(mode, ops[j]) # t
               /\ {op.v, op.s} \subseteq DOMAIN d
               /\ asked.quiet => \E e \in asked.files : e[1] = op.s /\ Seconds(e[2]) = Seconds(d[op.s])
    <3>1. PICK k \in I : ops[i] = cops[k]
      BY <1>5
    <3>2. \A j \in DOMAIN ops \ {i} : TargetOf(mode, ops[j]) # TargetOf(mode, ops[i])
      BY <1>6 DEF DistinctTargets
    <3> QED
      BY <1>7, <3>1, <3>2
  <2> QED
    BY <2>1, <2>2 DEF ReplayIsSafe
<1>9. run'.pc = "planned" /\ PlanIsWhatWasMeant' /\ CacheHitIsCurrent'
  BY <1>3 DEF PlanIsWhatWasMeant, CacheHitIsCurrent
<1> QED
  BY <1>1, <1>8, <1>9, PlanFrame

LEMMA PlanInvStep ==
  ASSUME PlanInv, [Next]_vars
  PROVE  PlanInv'
<1>1. ASSUME NEW p \in Procs, Lock(p) \/ Deadline(p)
      PROVE  PlanInv'
  BY <1>1, Untouched DEF Lock, Deadline
<1>2. ASSUME NEW p \in Procs, NEW c \in Configs, Acquire(p, c)
      PROVE  PlanInv'
  BY <1>2, AcquireStep
<1>3. CASE SaveError
  BY <1>3, UnlockStep DEF SaveError
<1>4. CASE Execute
  BY <1>4, UnlockStep DEF Execute
<1>5. CASE Crash
  BY <1>5, UnlockStep DEF Crash
<1>6. CASE Edit
  BY <1>6, Untouched DEF Edit
<1>7. CASE UNCHANGED vars
  BY <1>7, Untouched DEF vars
<1> QED
  BY <1>1, <1>2, <1>3, <1>4, <1>5, <1>6, <1>7, ScanStep, LookUpStep, SampleStep, AnalyzeStep,
     SaveOpensStep, SaveWritesStep, ReplayStep DEF Next

LEMMA PlanInvHolds ==
  Spec => []PlanInv
<1>1. Init => PlanInv
  <2> SUFFICES ASSUME Init PROVE PlanInv
    OBVIOUS
  <2>1. run.pc = "idle" /\ cache.state = "none"
    BY DEF Init, Idle, NoCache
  <2> QED
    BY <2>1 DEF PlanInv, RunKnows, CacheTells, PlanIsWhatWasMeant, CacheHitIsCurrent, ReplayIsSafe
<1> QED
  BY <1>1, PlanInvStep, PTL DEF Spec
-----------------------------------------------------------------------------
(* The theorems.                                                             *)

\* Whatever the list of files, the configurations and the answers, whoever edits
\* files and wherever a process dies: a match run returns operations between exactly
\* the files the AI meant, in the order of its answer, under names with a safe tag
\* (match_file_list_with_audit, check_file_list_cache).
THEOREM PlansAreWhatWasMeant ==
  Spec => []PlanIsWhatWasMeant
BY PlanInvHolds, PTL DEF PlanInv

\* check_file_list_cache only returns a plan made for the versions of the files
\* that exist now and for the relocation mode and backup setting of this run.
THEOREM CacheHitsAreCurrent ==
  Spec => []CacheHitIsCurrent
BY PlanInvHolds, PTL DEF PlanInv

\* A replay that validate_snapshot and validate_target_paths let through overwrites
\* nothing, gives no two operations one target and only touches files the plan was
\* made for, up to changes during the AI call or within the second of the snapshot.
THEOREM ReplaysAreSafe ==
  Spec => []ReplayIsSafe
BY PlanInvHolds, PTL DEF PlanInv

-----------------------------------------------------------------------------
(* The allocator of target names, UniqueTargets: for every batch, every       *)
(* directory content and every limit on the numbers probed.                   *)

ClaimedAreVisited == claimed = {target[o] : o \in Visited}
UnvisitedKeep     == \A o \in todo : target[o] = cand[o]

\* A target is the operation's own candidate or nobody's.
OwnOrFree ==
  \A u \in Visited : target[u] = cand[u] \/ \A o \in Ops : target[u] # cand[o]

FreeOnDisk ==
  appeared = 0 => \A o \in Visited \ gaveUp : target[o] \in present => target[o] = source[o]

CleanKept   == pass = "final" /\ Clean => \A u \in Visited : target[u] = cand[u]
ReadyIsDone == pass = "ready" => todo = {}

IInv ==
  /\ TypeOK
  /\ ClaimedAreVisited
  /\ UnvisitedKeep
  /\ OwnOrFree
  /\ NoSharedTarget
  /\ FreeOnDisk
  /\ CleanKept
  /\ ReadyIsDone

-----------------------------------------------------------------------------
LEMMA RemainderBound ==
  ASSUME NEW n \in Nat, NEW w \in Nat, w > 0
  PROVE  n % w \in 0..(w - 1)
  OBVIOUS

LEMMA CounterBound ==
  ASSUME TypeOK, NEW o \in Ops, NEW n \in Counters(o)
  PROVE  n \in 0..(Width - 1)
<1>1. Width \in Nat /\ 2 < Width /\ MaxCounter \in Nat /\ MaxCounter < Width
  BY PathsAssumption
<1>2. cand[o].tail = <<>> \/ \E k \in 0..(Width - 1) : cand[o].tail = <<k>>
  BY DEF TypeOK, Paths, Tails
<1>3. FirstCounter(o) \in 2..(Width - 1)
  <2>1. CASE cand[o].tail = <<>>
    BY <1>1, <2>1 DEF FirstCounter
  <2>2. CASE cand[o].tail # <<>>
    <3>1. PICK k \in 0..(Width - 1) : cand[o].tail = <<k>>
      BY <1>2, <2>2
    <3>2. cand[o].tail[1] = k
      BY <3>1
    <3>3. (k + 1) % Width \in 0..(Width - 1)
      BY <1>1, RemainderBound
    <3> DEFINE r == (k + 1) % Width
    <3>4. FirstCounter(o) = IF r < 2 THEN 2 ELSE r
      BY <2>2, <3>2 DEF FirstCounter
    <3>5. r \in 0..(Width - 1)
      BY <3>3
    <3> HIDE DEF r
    <3> QED
      BY <1>1, <3>4, <3>5
  <2> QED
    BY <2>1, <2>2
<1> QED
  BY <1>1, <1>3 DEF Counters

LEMMA ProbeIsPath ==
  ASSUME TypeOK, NEW o \in Ops, NEW n \in Counters(o)
  PROVE  Probe(o, n) \in Paths
<1>1. n \in 0..(Width - 1)
  BY CounterBound
<1>2. cand[o] \in Paths
  BY DEF TypeOK
<1> QED
  BY <1>1, <1>2 DEF Probe, Paths, Tails

LEMMA InitIsPath ==
  ASSUME NEW d \in Dirs, NEW name \in Names
  PROVE  Path(d, name) \in Paths
<1>1. name \in Bases \X Tails
  BY PathsAssumption
<1>2. name[1] \in Bases /\ name[2] \in Tails
  BY <1>1
<1> QED
  BY <1>2 DEF Path, Paths

-----------------------------------------------------------------------------
LEMMA InitIInv == AllocInit => IInv
<1> SUFFICES ASSUME AllocInit PROVE IInv
  OBVIOUS
<1>1. source \in [Ops -> Paths] /\ source \in [Ops -> Sources]
  BY PathsAssumption DEF AllocInit
<1>2. PICK relocating \in BOOLEAN, name \in [Ops -> Names] :
       /\ requires = [o \in Ops |-> relocating /\ source[o].dir # VideoDir[o]]
       /\ target = [o \in Ops |->
            Path(IF requires[o] THEN VideoDir[o] ELSE source[o].dir, name[o])]
  BY DEF AllocInit
<1>3. requires \in [Ops -> BOOLEAN]
  BY <1>2
<1>4. target \in [Ops -> Paths]
  <2>1. \A o \in Ops : VideoDir[o] \in Dirs /\ source[o].dir \in Dirs
    BY <1>1, PathsAssumption DEF Paths
  <2>2. \A o \in Ops :
          Path(IF requires[o] THEN VideoDir[o] ELSE source[o].dir, name[o]) \in Paths
    BY <1>2, <1>3, <2>1, InitIsPath
  <2> QED
    BY <1>2, <2>2
<1>5. present \subseteq Paths
  BY <1>1, PathsAssumption DEF AllocInit
<1>6. TypeOK
  BY <1>1, <1>3, <1>4, <1>5, PathsAssumption DEF AllocInit, TypeOK
<1>7. Visited = {}
  BY DEF AllocInit, Visited
<1> QED
  BY <1>6, <1>7 DEF AllocInit, IInv, ClaimedAreVisited, UnvisitedKeep, OwnOrFree,
     NoSharedTarget, FreeOnDisk, CleanKept, ReadyIsDone

\* What a visit that does not give up leaves true.
LEMMA CommitFree ==
  ASSUME IInv, NEW o \in Ops, o \in todo, NEW p \in Paths,
         p \notin claimed,
         p = cand[o] \/ \A u \in Ops : cand[u] # p,
         p # source[o] => p \notin present,
         pass = "final" /\ Clean => p = cand[o],
         Commit(o, p), gaveUp' = gaveUp
  PROVE  IInv'
<1> USE DEF IInv, TypeOK, Commit, Visited
<1>1. TypeOK'
  OBVIOUS
<1>2. Ops \ todo' = (Ops \ todo) \cup {o} /\ target'[o] = p
  OBVIOUS
<1>3. \A u \in Ops : u # o => target'[u] = target[u]
  OBVIOUS
<1>4. ClaimedAreVisited'
  BY <1>2, <1>3 DEF ClaimedAreVisited
<1>5. UnvisitedKeep'
  BY <1>3 DEF UnvisitedKeep
<1>6. OwnOrFree'
  BY <1>2, <1>3 DEF OwnOrFree
<1>7. NoSharedTarget'
  BY <1>2, <1>3 DEF NoSharedTarget, ClaimedAreVisited
<1>8. FreeOnDisk'
  BY <1>2, <1>3 DEF FreeOnDisk
<1>9. CleanKept'
  BY <1>2, <1>3 DEF CleanKept, Clean
<1>10. ReadyIsDone'
  BY DEF ReadyIsDone
<1> QED
  BY <1>1, <1>4, <1>5, <1>6, <1>7, <1>8, <1>9, <1>10

\* In a clean pass nothing an operation wants is taken.
LEMMA CleanNotTaken ==
  ASSUME IInv, Clean, pass = "final", NEW o \in Ops, o \in todo
  PROVE  ~Taken(o, cand[o])
<1>1. \A u \in Visited : target[u] = cand[u] /\ u # o
  BY DEF IInv, CleanKept, Visited
<1>2. cand[o] \notin claimed
  BY <1>1 DEF IInv, ClaimedAreVisited, Clean, Visited
<1> QED
  BY <1>2 DEF Taken, Clean

LEMMA KeepIInv ==
  ASSUME IInv, NEW o \in Ops, Keep(o)
  PROVE  IInv'
<1>1. cand[o] \in Paths
  BY DEF IInv, TypeOK
<1> QED
  BY <1>1, CommitFree DEF Keep, IsFirst, Taken

LEMMA GiveUpIInv ==
  ASSUME IInv, NEW o \in Ops, GiveUp(o)
  PROVE  IInv'
<1> USE DEF IInv, TypeOK, Commit, Visited
<1>1. o \in todo /\ Commit(o, cand[o]) /\ gaveUp' = gaveUp \cup {o}
  BY DEF GiveUp, IsFirst
<1>2. TypeOK'
  BY <1>1
<1>3. Ops \ todo' = (Ops \ todo) \cup {o} /\ target'[o] = cand[o]
  BY <1>1
<1>4. \A u \in Ops : u # o => target'[u] = target[u]
  BY <1>1
<1>5. ClaimedAreVisited'
  BY <1>1, <1>3, <1>4 DEF ClaimedAreVisited
<1>6. UnvisitedKeep'
  BY <1>1, <1>4 DEF UnvisitedKeep
<1>7. OwnOrFree'
  BY <1>1, <1>3, <1>4 DEF OwnOrFree
<1>8. NoSharedTarget'
  BY <1>1 DEF NoSharedTarget
<1>9. FreeOnDisk'
  BY <1>1, <1>3, <1>4 DEF FreeOnDisk
<1>10. CleanKept'
  BY <1>1, <1>3, <1>4 DEF CleanKept, Clean
<1>11. ReadyIsDone'
  BY <1>1 DEF ReadyIsDone
<1> QED
  BY <1>2, <1>5, <1>6, <1>7, <1>8, <1>9, <1>10, <1>11

LEMMA SuffixIInv ==
  ASSUME IInv, NEW o \in Ops, Suffix(o)
  PROVE  IInv'
<1>1. o \in todo /\ Taken(o, cand[o]) /\ gaveUp' = gaveUp
  BY DEF Suffix, IsFirst
<1>2. PICK n \in Counters(o) : ~Taken(o, Probe(o, n)) /\ Commit(o, Probe(o, n))
  BY DEF Suffix
<1> DEFINE p == Probe(o, n)
<1>3. p \in Paths
  BY <1>2, ProbeIsPath DEF IInv
<1>4. /\ p \notin claimed
      /\ p = cand[o] \/ \A u \in Ops : cand[u] # p
      /\ p # source[o] => p \notin present
  BY <1>2 DEF Taken
<1>5. ~(pass = "final" /\ Clean)
  BY <1>1, CleanNotTaken
<1>6. Commit(o, p)
  BY <1>2
<1> HIDE DEF p
<1> QED
  BY <1>1, <1>3, <1>4, <1>5, <1>6, CommitFree

LEMMA RewriteIInv ==
  ASSUME IInv, Rewrite
  PROVE  IInv'
<1> USE DEF Rewrite
<1>1. \A o \in Ops : target[o] \in Paths /\ VideoDir[o] \in Dirs
  BY PathsAssumption DEF IInv, TypeOK
<1>2. \A o \in Ops : [target[o] EXCEPT !.dir = VideoDir[o]] \in Paths
  BY <1>1 DEF Paths
<1>3. target' \in [Ops -> Paths]
  BY <1>1, <1>2
<1>4. requires' \in [Ops -> BOOLEAN]
  BY DEF IInv, TypeOK, Redirected
<1>5. TypeOK'
  BY <1>3, <1>4 DEF IInv, TypeOK
<1>6. Visited' = {} /\ pass' = "final"
  BY DEF Visited
<1> QED
  BY <1>5, <1>6 DEF IInv, ClaimedAreVisited, UnvisitedKeep, OwnOrFree,
     NoSharedTarget, FreeOnDisk, CleanKept, ReadyIsDone

LEMMA AppearIInv ==
  ASSUME IInv, Appear
  PROVE  IInv'
<1>1. TypeOK'
  BY PathsAssumption DEF IInv, TypeOK, Appear
<1>2. appeared' # 0
  BY PathsAssumption DEF IInv, TypeOK, Appear
<1>3. Clean' => Clean
  BY DEF Appear, Clean
<1> QED
  BY <1>1, <1>2, <1>3 DEF Appear, IInv, ClaimedAreVisited, UnvisitedKeep, OwnOrFree,
     NoSharedTarget, FreeOnDisk, CleanKept, ReadyIsDone, Visited

LEMMA ReadyIInv ==
  ASSUME IInv, Ready
  PROVE  IInv'
  BY DEF Ready, IInv, TypeOK, ClaimedAreVisited, UnvisitedKeep, OwnOrFree,
     NoSharedTarget, FreeOnDisk, CleanKept, ReadyIsDone, Visited, Clean

LEMMA StutterIInv ==
  ASSUME IInv, UNCHANGED allocVars
  PROVE  IInv'
  BY DEF allocVars, IInv, TypeOK, ClaimedAreVisited, UnvisitedKeep, OwnOrFree,
     NoSharedTarget, FreeOnDisk, CleanKept, ReadyIsDone, Visited, Clean

\* The allocator keeps its bookkeeping exact: what is claimed is what has been
\* given out, and what has been given out was free.
THEOREM AllocatorInvariant == AllocSpec => []IInv
<1>1. IInv /\ [AllocNext]_allocVars => IInv'
  <2> SUFFICES ASSUME IInv, [AllocNext]_allocVars PROVE IInv'
    OBVIOUS
  <2>1. CASE \E o \in Ops : Keep(o) \/ Suffix(o) \/ GiveUp(o)
    BY <2>1, KeepIInv, SuffixIInv, GiveUpIInv
  <2>2. CASE Rewrite
    BY <2>2, RewriteIInv
  <2>3. CASE Ready
    BY <2>3, ReadyIInv
  <2>4. CASE Appear
    BY <2>4, AppearIInv
  <2>5. CASE UNCHANGED allocVars
    BY <2>5, StutterIInv
  <2> QED
    BY <2>1, <2>2, <2>3, <2>4, <2>5 DEF AllocNext, Done
<1> QED
  BY <1>1, InitIInv, PTL DEF AllocSpec

\* apply_unique_target_paths gives no path twice unless it ran out of numbers.
THEOREM TargetsAreUnique == AllocSpec => []NoSharedTarget
<1>1. IInv => NoSharedTarget
  BY DEF IInv
<1> QED
  BY <1>1, AllocatorInvariant, PTL

\* The reserved set protects the candidate that only one operation has, even
\* when others run out of numbers.
THEOREM CandidatesAreNotStolen == AllocSpec => []NotStolen
<1>1. IInv => NotStolen
  BY DEF IInv, OwnOrFree, NotStolen, Visited
<1> QED
  BY <1>1, AllocatorInvariant, PTL

\* A planned target replaces no file that was there.
THEOREM NothingIsClobbered == AllocSpec => []NoClobber
<1>1. IInv => NoClobber
  BY DEF IInv, FreeOnDisk, ReadyIsDone, NoClobber, Visited
<1> QED
  BY <1>1, AllocatorInvariant, PTL

\* A second pass over a conflict-free batch leaves every target as it is.
THEOREM SecondPassIsIdempotent == AllocSpec => Idempotent
<1>1. IInv /\ [AllocNext]_allocVars => [pass = "final" /\ Clean => UNCHANGED target]_allocVars
  <2> SUFFICES ASSUME IInv, AllocNext, pass = "final", Clean PROVE UNCHANGED target
    OBVIOUS
  <2>1. CASE \E o \in Ops : Keep(o)
    <3>1. PICK o \in Ops : Keep(o)
      BY <2>1
    <3>2. target[o] = cand[o]
      BY <3>1 DEF IInv, UnvisitedKeep, Keep, IsFirst
    <3> QED
      BY <3>1, <3>2 DEF Keep, Commit, IInv, TypeOK
  <2>2. CASE \E o \in Ops : Suffix(o) \/ GiveUp(o)
    BY <2>2, CleanNotTaken DEF Suffix, GiveUp, IsFirst
  <2>3. CASE Rewrite \/ Ready \/ Appear \/ Done
    BY <2>3 DEF Rewrite, Ready, Appear, Done, allocVars
  <2> QED
    BY <2>1, <2>2, <2>3 DEF AllocNext
<1> QED
  BY <1>1, AllocatorInvariant, PTL DEF AllocSpec, Idempotent

\* Every variable keeps its type; the numbers of a path stay in 32 bits.
THEOREM TypeCorrect == AllocSpec => []TypeOK
<1>1. IInv => TypeOK
  BY DEF IInv
<1> QED
  BY <1>1, AllocatorInvariant, PTL
=============================================================================
