-------------------------- MODULE JobFiles_proofs ---------------------------
(***************************************************************************)
(* Proofs about JobFiles for every job and call, every growth of the log   *)
(* and every limit.                                                        *)
(*                                                                         *)
(* Two invariants carry them. CeilingIInv says how many bytes a reply may  *)
(* stand for, and holds whatever the data are. AnswerIInv says what each   *)
(* reply is: while the call runs, Going keeps what the requests behind it  *)
(* have shown, and once it is answered, Answers is what each property      *)
(* needs to know of the answer.                                            *)
(***************************************************************************)
EXTENDS JobFiles, Induction

(* A reply that carries text or members says how many bytes it took.       *)
Fits(a) == a.kind \in {"text", "members"} => a.bytes <= ask.ceiling

(* What a call may be answered with: something that fits, or a refusal.    *)
Sizes == ask \in Asks /\ size \in Int /\ probe.size \in Int
CeilingIInv == Sizes /\ job \in Jobs /\ Fits(answer)

(* A refusal carries neither.                                              *)
LEMMA BailFits == ASSUME NEW kind, kind \notin {"text", "members"}, Bail(kind) PROVE Fits(answer') /\ probe' = probe
BY DEF Bail, Reply, Fits

(* slice: what is cut out is charged with what was read.                   *)
LEMMA SliceFits ==
  ASSUME ask \in Asks, NEW lines, NEW bytes, NEW total, NEW moved, bytes <= ask.ceiling,
         Slice(lines, bytes, total, moved)
  PROVE  Fits(answer') /\ probe' = probe
<1> DEFINE kept == IF ask.tail = All \/ lines = {} THEN lines
                   ELSE LastLines(Min(lines), Max(lines), ask.tail)
           matches == GrepLines(Text(kept), NoiseMarkers, Context, MaxHits)
<1>1. ask.grep \in {"none", "invalid", "noise"}
  BY AskAssumption
<1>2. CASE ask.grep = "none"
  <2>1. probe' = probe /\ answer' = [kind |-> "text", lines |-> kept, bytes |-> bytes, size |-> total, moved |-> moved]
    BY <1>2 DEF Slice, Reply
  <2> QED BY <2>1 DEF Fits
<1>3. CASE ask.grep = "invalid"
  <2>1. Bail("invalid_params")
    BY <1>3 DEF Slice
  <2> QED BY <2>1, BailFits
<1>4. CASE ask.grep = "noise"
  <2>1. probe' = probe /\ answer' = [kind |-> "matches", of |-> kept, grep |-> matches]
    BY <1>4 DEF Slice, Reply
  <2> QED BY <2>1 DEF Fits
<1> QED BY <1>1, <1>2, <1>3, <1>4

(* The digest is a reply of its own kind.                                  *)
LEMMA DigestFits ==
  ASSUME NEW tier, NEW text, NEW scan, NEW location, DigestReply(tier, text, scan, location)
  PROVE  Fits(answer') /\ probe' = probe
BY DEF DigestReply, Reply, Fits

(* A tool that has the whole file, unpacked to so many bytes.              *)
LEMMA UseWholeFits ==
  ASSUME ask \in Asks, NEW bytes, bytes <= ask.ceiling, UseWhole(bytes)
  PROVE  Fits(answer') /\ probe' = probe
<1>1. ASSUME Members(bytes) PROVE Fits(answer') /\ probe' = probe
  <2>1. CASE IsTar
    BY <1>1, <2>1 DEF Members, Reply, Fits
  <2>2. CASE ~IsTar
    BY <1>1, <2>2, BailFits DEF Members
  <2> QED BY <2>1, <2>2
<1>2. ASSUME NEW text, Digest(text) PROVE Fits(answer') /\ probe' = probe
  <2>1. \E tier, scan, location : DigestReply(tier, text, scan, location)
    BY <1>2 DEF Digest
  <2> QED BY <2>1, DigestFits
<1>3. ASSUME Extracted(bytes) PROVE Fits(answer') /\ probe' = probe
  <2>1. \/ \E kind \in {"invalid_response", "invalid_params", "unsupported_media"} : Bail(kind)
        \/ \E lines, total : Slice(lines, bytes, total, FALSE)
    BY <1>3, Zenon DEF Extracted
  <2> QED BY <2>1, BailFits, SliceFits
<1>4. CASE ask.tool = "list_job_log_members"
  BY <1>1, <1>4 DEF UseWhole
<1>5. CASE ask.tool = "get_job_log_errors"
  <2>1. Bail("invalid_params") \/ Digest(Text(Lines(0, size)))
    BY <1>5 DEF UseWhole
  <2> QED BY <1>2, <2>1, BailFits
<1>6. CASE ask.tool \notin {"list_job_log_members", "get_job_log_errors"}
  BY <1>3, <1>6 DEF UseWhole
<1> QED BY <1>4, <1>5, <1>6

(* A whole file that came, in one answer or after its probe.               *)
LEMMA WholeFileFits ==
  ASSUME Sizes, WholeFile
  PROVE  Fits(answer') /\ probe' = probe
<1>0. ask \in Asks /\ size \in Int /\ ask.ceiling \in Int
  BY AskAssumption, LimitAssumption DEF Sizes
<1>1. CASE size > ask.ceiling
  BY <1>1, BailFits DEF WholeFile
<1>2. CASE ~(size > ask.ceiling) /\ ask.tool = "get_job_log" /\ ~NeedsFullDecode
  <2>1. size <= ask.ceiling
    BY <1>0, <1>2
  <2>2. Slice(Lines(0, size), size, TotalSize(size), FALSE) \/ Bail("unsupported_media")
    BY <1>2 DEF WholeFile
  <2> QED BY <1>0, <2>1, <2>2, SliceFits, BailFits
<1>3. CASE Decompress
  <2>1. \/ \E kind \in {"invalid_response", "response_too_large"} : Bail(kind)
        \/ ~(Unpacked(size) > ask.ceiling) /\ UseWhole(Unpacked(size))
    BY <1>3 DEF Decompress
  <2>2. ~(Unpacked(size) > ask.ceiling) => Unpacked(size) <= ask.ceiling
    BY <1>0 DEF Unpacked
  <2> QED BY <1>0, <2>1, <2>2, BailFits, UseWholeFits
<1> QED BY <1>1, <1>2, <1>3 DEF WholeFile

(* A part of the file, from the start of its range on.                     *)
LEMMA TailFits ==
  ASSUME Sizes, NEW moved, TailText(moved)
  PROVE  Fits(answer') /\ probe' = probe
<1>1. ask \in Asks /\ size \in Int /\ ask.ceiling \in Int /\ ask.tail \in Int
      /\ BytesPerLine \in Int /\ MinWindow \in Int /\ probe.size \in Int
  BY AskAssumption, LimitAssumption DEF Sizes, All
<1>2. TailWindow \in Int
  <2>1. ask.tail * BytesPerLine \in Int
    BY <1>1
  <2>2. Greatest(ask.tail * BytesPerLine, MinWindow) \in Int
    BY <1>1, <2>1 DEF Greatest
  <2> QED BY <1>1, <2>2 DEF TailWindow, Least
<1>3. Start \in Int
  BY <1>1, <1>2 DEF Start, Greatest
<1>4. \/ \E kind \in {"not_found", "response_too_large", "unsupported_media"} : Bail(kind)
      \/ /\ ~(Start >= size) /\ ~(Start < size /\ size - Start > ask.ceiling)
         /\ \E lines, total : Slice(lines, size - Start, total, moved)
  BY Zenon DEF TailText
<1>5. ~(Start >= size) /\ ~(Start < size /\ size - Start > ask.ceiling) => size - Start <= ask.ceiling
  BY <1>1, <1>3
<1> QED BY <1>1, <1>4, <1>5, BailFits, SliceFits

(* Every job and call starts with no answer.                               *)
LEMMA CeilingInit == Init => CeilingIInv
<1> SUFFICES ASSUME Init PROVE CeilingIInv
  OBVIOUS
<1>1. job \in Jobs /\ ask \in Asks /\ size = job.size /\ probe = NoProbe /\ answer = NoAnswer
  BY DEF Init
<1>2. size \in Int
  BY <1>1, JobAssumption, LimitAssumption
<1> QED BY <1>1, <1>2 DEF CeilingIInv, Sizes, NoProbe, NoAnswer, Fits

(* Every request's end leaves an answer that fits, or none.                *)
LEMMA CeilingNext == CeilingIInv /\ [Next]_vars => CeilingIInv'
<1> SUFFICES ASSUME CeilingIInv, [Next]_vars PROVE CeilingIInv'
  OBVIOUS
<1>0. Sizes /\ job \in Jobs /\ Fits(answer)
  BY DEF CeilingIInv
<1>1. ASSUME ask' = ask, Fits(answer'), job' = job, size' \in Int, probe'.size \in Int
      PROVE  CeilingIInv'
  BY <1>0, <1>1 DEF CeilingIInv, Sizes, Fits
<1>2. ASSUME UNCHANGED <<job, size, ask>>, Fits(answer') /\ probe' = probe PROVE CeilingIInv'
  BY <1>0, <1>1, <1>2 DEF Sizes
<1>3. ASSUME UNCHANGED <<job, size, ask, probe, answer>> PROVE CeilingIInv'
  <2>1. Fits(answer')
    BY <1>0, <1>3 DEF Fits
  <2> QED BY <1>2, <1>3, <2>1
<1>4. CASE Grow
  <2>1. size' \in Int /\ UNCHANGED <<job, ask, probe, answer>>
    BY <1>0, <1>4 DEF Grow, Sizes
  <2> QED BY <1>0, <1>1, <2>1 DEF Sizes, Fits
<1>5. CASE ProbeWhole \/ FetchAll
  <2>1. WholeFile /\ UNCHANGED <<job, size, ask>>
    BY <1>5 DEF ProbeWhole, FetchAll
  <2> QED BY <1>0, <1>2, <2>1, WholeFileFits
<1>6. CASE ProbeHead
  <2>1. probe'.size \in Int
    BY <1>0, <1>6 DEF ProbeHead, Sizes
  <2>2. UNCHANGED <<job, size, ask, answer>>
    BY <1>6 DEF ProbeHead
  <2> QED BY <1>0, <1>1, <2>1, <2>2 DEF Sizes, Fits
<1>7. CASE FetchTail
  <2>1. UNCHANGED <<job, size, ask>>
        /\ (UNCHANGED <<probe, answer>> \/ TailText(FALSE))
    BY <1>7, Zenon DEF FetchTail
  <2> QED BY <1>0, <1>2, <1>3, <2>1, TailFits
<1>8. CASE RetryTail
  <2>1. TailText(Changed) /\ UNCHANGED <<job, size, ask>>
    BY <1>8 DEF RetryTail
  <2> QED BY <1>0, <1>2, <2>1, TailFits
<1>9. ASSUME NEW kinds, kinds \cap {"text", "members"} = {}, \E kind \in kinds : Bail(kind),
             UNCHANGED <<job, size, ask>>
      PROVE  CeilingIInv'
  <2>1. PICK kind \in kinds : Bail(kind)
    BY <1>9
  <2>2. kind \notin {"text", "members"}
    BY <1>9
  <2> QED BY <1>2, <1>9, <2>1, <2>2, BailFits
<1>10. CASE FetchFails
  BY <1>9, <1>10 DEF FetchFails, Failures
<1>11. CASE DigestDetails
  BY <1>3, <1>11 DEF DigestDetails
<1>12. CASE Serial
  <2>1. \/ \E tier, text, scan, location : DigestReply(tier, text, scan, location)
        \/ UNCHANGED <<probe, answer>>
        \/ \E kind \in Failures : Bail(kind)
    BY <1>12, Zenon DEF Serial
  <2>2. UNCHANGED <<job, size, ask>>
    BY <1>12 DEF Serial
  <2> QED BY <1>2, <1>3, <1>9, <2>1, <2>2, DigestFits DEF Failures
<1>13. CASE NeedleDetails
  <2>1. \/ \E kind \in Failures : Bail(kind)
        \/ \E kind \in {"not_found"} : Bail(kind)
        \/ UNCHANGED <<probe, answer>>
    BY <1>13, Zenon DEF NeedleDetails
  <2>2. UNCHANGED <<job, size, ask>>
    BY <1>13 DEF NeedleDetails
  <2> QED BY <1>3, <1>9, <2>1, <2>2 DEF Failures
<1>14. ASSUME NEW looked, NeedleReply(looked), UNCHANGED <<job, size, ask>> PROVE CeilingIInv'
  <2>1. \/ UNCHANGED <<probe, answer>>
        \/ probe' = probe /\ \E list : answer' = [kind |-> "needles", list |-> list, looked |-> looked]
    BY <1>14, Zenon DEF NeedleReply
  <2> QED BY <1>2, <1>3, <1>14, <2>1 DEF Fits
<1>15. CASE Screenshot
  <2>1. \/ \E kind \in Failures \cup {"unsupported_media", "response_too_large"} : Bail(kind)
        \/ NeedleReply(<<>>)
    BY <1>15, Zenon DEF Screenshot
  <2>2. UNCHANGED <<job, size, ask>>
    BY <1>15 DEF Screenshot
  <2> QED BY <1>9, <1>14, <2>1, <2>2 DEF Failures
<1>16. CASE Needle
  <2>1. NeedleReply(images') /\ UNCHANGED <<job, size, ask>>
    BY <1>16 DEF Needle
  <2> QED BY <1>14, <2>1
<1>17. ASSUME NEW source, NEW files, UNCHANGED <<job, size, ask>>,
              Reply([kind |-> "files", source |-> source, files |-> files])
       PROVE  CeilingIInv'
  BY <1>2, <1>17 DEF Reply, Fits
<1>18. CASE Downloads
  <2>1. \/ \E source, files : Reply([kind |-> "files", source |-> source, files |-> files])
        \/ UNCHANGED <<probe, answer>>
    BY <1>18, Zenon DEF Downloads
  <2>2. UNCHANGED <<job, size, ask>>
    BY <1>18 DEF Downloads
  <2> QED BY <1>3, <1>17, <2>1, <2>2
<1>19. CASE Listing
  <2>1. \/ \E source, files : Reply([kind |-> "files", source |-> source, files |-> files])
        \/ \E kind \in Failures : Bail(kind)
    BY <1>19, Zenon DEF Listing
  <2>2. UNCHANGED <<job, size, ask>>
    BY <1>19 DEF Listing
  <2> QED BY <1>9, <1>17, <2>1, <2>2 DEF Failures
<1>20. CASE UNCHANGED vars
  BY <1>3, <1>20 DEF vars
<1> QED BY <1>4, <1>5, <1>6, <1>7, <1>8, <1>10, <1>11, <1>12, <1>13, <1>15, <1>16, <1>18, <1>19,
           <1>20 DEF Next

(* Whatever the log grows to between the probe and the fetch, whatever an  *)
(* archive unpacks to and whatever openQA answers, no text and no list of  *)
(* members was read from more bytes than the call's ceiling.               *)
THEOREM CeilingHolds == Spec => []WithinCeiling
<1>1. CeilingIInv => WithinCeiling
  BY DEF CeilingIInv, Fits, WithinCeiling
<1> QED BY <1>1, CeilingInit, CeilingNext, PTL DEF Spec

(* A finite set of numbers that is not empty has a least and a greatest.   *)
LEMMA Extremes ==
  ASSUME NEW S \in SUBSET Int, IsFiniteSet(S), S # {}
  PROVE  /\ Min(S) \in S /\ \A y \in S : Min(S) <= y
         /\ Max(S) \in S /\ \A y \in S : y <= Max(S)
<1> DEFINE s == Ascending(S)
           n == Cardinality(S)
<1>1. Listed(s, S)
  BY AscendingListed
<1>2. n \in Nat /\ n # 0
  BY FS_CardinalityType, FS_EmptySet
<1> HIDE DEF s, n
<1>3. /\ s \in [1..n -> S] /\ \A i, j \in 1..n : i < j => s[i] < s[j]
      /\ \A x \in S : \E k \in 1..n : s[k] = x
  BY <1>1 DEF Listed, n
<1>4. 1 \in 1..n /\ n \in 1..n
  BY <1>2
<1>5. \A k \in 1..n : s[k] \in S /\ s[k] \in Int
  BY <1>3
<1>6. \A k \in 1..n : s[1] <= s[k] /\ s[k] <= s[n]
  <2> SUFFICES ASSUME NEW k \in 1..n PROVE s[1] <= s[k] /\ s[k] <= s[n]
    OBVIOUS
  <2>1. (k = 1 \/ 1 < k) /\ (k = n \/ k < n)
    BY <1>2
  <2>2. s[1] \in Int /\ s[k] \in Int /\ s[n] \in Int
    BY <1>4, <1>5
  <2>3. (k = 1 \/ s[1] < s[k]) /\ (k = n \/ s[k] < s[n])
    BY <1>3, <1>4, <2>1
  <2> QED
    BY <2>2, <2>3
<1>7. s[1] \in S /\ \A y \in S : s[1] <= y
  BY <1>3, <1>4, <1>6
<1>8. s[n] \in S /\ \A y \in S : s[n] >= y
  <2>1. \A y \in S : y <= s[n]
    BY <1>3, <1>4, <1>6
  <2> QED
    BY <1>4, <1>5, <2>1
<1>9. Min(S) \in S /\ \A y \in S : Min(S) <= y
  BY <1>7 DEF Min
<1>10. Max(S) \in S /\ \A y \in S : Max(S) >= y
  BY <1>8 DEF Max
<1> QED
  BY <1>9, <1>10

(* The lines of an interval are numbered from 1.                           *)
LEMMA TextLength ==
  ASSUME NEW lines, IsFiniteSet(lines)
  PROVE  /\ Len(Text(lines)) = Cardinality(lines) /\ Len(Text(lines)) \in Nat
         /\ DOMAIN Text(lines) = 1..Len(Text(lines))
<1> DEFINE n == Cardinality(lines)
           at(i) == job.classes[Min(lines) + i - 1]
<1>1. n \in Nat
  BY FS_CardinalityType
<1>2. Text(lines) = [i \in 1..n |-> at(i)]
  BY DEF Text
<1> HIDE DEF n, at
<1>3. Len(Text(lines)) = n
  BY <1>1, <1>2
<1> QED
  BY <1>1, <1>2, <1>3 DEF n

(* What a match is shown with are lines of the text, the match among them. *)
LEMMA AroundInside ==
  ASSUME NEW text, Len(text) \in Nat, NEW i \in 1..Len(text)
  PROVE  /\ Around(text, i, Context) = {l \in 1..Len(text) : i - 1 <= l /\ l <= i + 1}
         /\ IsFiniteSet(Around(text, i, Context))
<1>1. Around(text, i, Context) = {l \in 1..Len(text) : i - 1 <= l /\ l <= i + 1}
  BY DEF Around, Context, Greatest, Least
<1>2. IsFiniteSet(1..Len(text))
  BY FS_Interval
<1> QED
  BY <1>1, <1>2, FS_Subset

(* The first matches are at most so many of the matches.                   *)
LEMMA FirstOfFew ==
  ASSUME NEW S \in SUBSET Int, IsFiniteSet(S), NEW n \in Nat
  PROVE  /\ FirstOf(S, n) \in SUBSET S /\ IsFiniteSet(FirstOf(S, n))
         /\ Cardinality(FirstOf(S, n)) \in Nat /\ Cardinality(FirstOf(S, n)) <= n
         /\ Cardinality(FirstOf(S, n)) <= Cardinality(S)
         /\ \A i, j \in S : i <= j /\ j \in FirstOf(S, n) => i \in FirstOf(S, n)
<1> DEFINE T == FirstOf(S, n)
           upTo(i) == {j \in S : j <= i}
<1>1. T \in SUBSET S /\ IsFiniteSet(T) /\ Cardinality(T) <= Cardinality(S)
  BY FS_Subset DEF FirstOf
<1>2. Cardinality(T) \in Nat
  BY <1>1, FS_CardinalityType
<1>3. \A i \in S : i \in T <=> Cardinality(upTo(i)) <= n
  BY DEF FirstOf
<1>4. ASSUME NEW A \in SUBSET S, NEW B \in SUBSET A
      PROVE  /\ Cardinality(B) <= Cardinality(A)
             /\ Cardinality(A) \in Nat /\ Cardinality(B) \in Nat
  <2>1. IsFiniteSet(A)
    BY FS_Subset
  <2> QED
    BY <2>1, FS_Subset, FS_CardinalityType
<1>5. Cardinality(T) <= n
  <2>1. CASE T = {}
    BY <2>1, FS_EmptySet
  <2>2. CASE T # {}
    <3>1. Max(T) \in T /\ \A y \in T : y <= Max(T)
      BY <1>1, <2>2, Extremes
    <3>2. T \in SUBSET upTo(Max(T)) /\ upTo(Max(T)) \in SUBSET S /\ Max(T) \in S
      BY <1>1, <3>1
    <3>3. Cardinality(upTo(Max(T))) <= n
      BY <1>3, <3>1, <3>2
    <3> DEFINE U == upTo(Max(T))
    <3> HIDE DEF U, T
    <3>4. Cardinality(T) <= Cardinality(U) /\ Cardinality(U) \in Nat /\ Cardinality(T) \in Nat
      BY <1>4, <3>2 DEF U
    <3> QED
      BY <3>3, <3>4 DEF U
  <2> QED
    BY <2>1, <2>2
<1>6. ASSUME NEW i \in S, NEW j \in S, i <= j, j \in T PROVE i \in T
  <2>1. upTo(i) \in SUBSET upTo(j) /\ upTo(j) \in SUBSET S
    <3>1. i \in Int /\ j \in Int /\ i <= j
      BY <1>6
    <3>2. \A x \in S : x <= i => x <= j
      BY <3>1
    <3> QED
      BY <3>2
  <2> DEFINE A == upTo(j)
             B == upTo(i)
  <2>2. Cardinality(A) <= n
    BY <1>3, <1>6
  <2> HIDE DEF A, B
  <2>3. Cardinality(B) <= Cardinality(A) /\ Cardinality(A) \in Nat /\ Cardinality(B) \in Nat
    BY <1>4, <2>1 DEF A, B
  <2>4. Cardinality(B) <= n
    BY <2>2, <2>3
  <2> QED
    BY <1>3, <2>4 DEF B
<1> HIDE DEF T
<1>7. /\ T \in SUBSET S /\ IsFiniteSet(T)
      /\ Cardinality(T) \in Nat /\ Cardinality(T) <= n
      /\ Cardinality(T) <= Cardinality(S)
      /\ \A i, j \in S : i <= j /\ j \in T => i \in T
  BY <1>1, <1>2, <1>5, <1>6
<1> QED
  BY <1>7 DEF T

(* The matches are lines of the text.                                      *)
LEMMA MatchesInside ==
  ASSUME NEW text, Len(text) \in Nat, DOMAIN text = 1..Len(text), NEW marks
  PROVE  /\ Matching(text, marks) \in SUBSET (1..Len(text))
         /\ Matching(text, marks) \in SUBSET Int /\ IsFiniteSet(Matching(text, marks))
<1>1. IsFiniteSet(1..Len(text))
  BY FS_Interval
<1> QED
  BY <1>1, FS_Subset DEF Matching

(* grep_lines shows nothing but lines of the text, whichever they are.     *)
LEMMA GrepInside ==
  ASSUME NEW lines, IsFiniteSet(lines), NEW marks, NEW max \in Nat
  PROVE  Range(GrepLines(Text(lines), marks, Context, max).hits) \subseteq 1..Cardinality(lines)
<1> DEFINE text == Text(lines)
           L == Len(text)
<1>1. L \in Nat /\ L = Cardinality(lines) /\ DOMAIN text = 1..L
  BY TextLength
<1> HIDE DEF text
<1> DEFINE found == Matching(text, marks)
<1>2. found \in SUBSET (1..L) /\ found \in SUBSET Int /\ IsFiniteSet(found)
  BY <1>1, MatchesInside
<1> HIDE DEF found
<1> DEFINE n == Cardinality(FirstOf(found, max))
           at(k) == Ascending(found)[k]
           shown(k) == Ascending(Around(text, at(k), Context))
           s == [k \in 1..n |-> shown(k)]
<1>3. n \in Nat /\ n <= Cardinality(found) /\ Cardinality(found) \in Nat
  BY <1>2, FirstOfFew, FS_CardinalityType
<1>4. Listed(Ascending(found), found)
  BY <1>2, AscendingListed
<1>5. \A k \in 1..n : at(k) \in 1..L
  <2> HIDE DEF n
  <2>1. \A k \in 1..n : k \in 1..Cardinality(found)
    BY <1>3
  <2> QED
    BY <1>2, <1>4, <2>1 DEF Listed
<1>6. ASSUME NEW k \in 1..n PROVE shown(k) \in Seq(1..L)
  <2> DEFINE A == Around(text, at(k), Context)
  <2>1. A \in SUBSET (1..L) /\ IsFiniteSet(A)
    BY <1>1, <1>5, AroundInside
  <2> HIDE DEF A
  <2>2. Ascending(A) \in Seq(A)
    BY <2>1, AscendingListed
  <2>3. Ascending(A) \in Seq(1..L)
    BY <2>1, <2>2, WiderSeq
  <2> QED
    BY <2>3 DEF A
<1> HIDE DEF n, shown
<1>7. s \in [1..n -> Seq(1..L)]
  BY <1>6
<1> HIDE DEF s
<1>8. FlattenSeq(s) \in Seq(1..L)
  <2>1. CASE n = 0
    <3>1. Len(s) = 0 /\ s \in Seq(1..L)
      BY <1>7, <2>1
    <3> QED
      BY <3>1 DEF FlattenSeq
  <2>2. CASE n # 0
    BY <1>3, <1>7, <2>2, FlatEntries
  <2> QED
    BY <2>1, <2>2
<1>9. Range(FlattenSeq(s)) \subseteq 1..L
  BY <1>8 DEF Range
<1>10. GrepLines(text, marks, Context, max).hits = FlattenSeq(s)
  BY Zenon DEF GrepLines, s, n, shown, at, found
<1> QED
  BY <1>1, <1>9, <1>10 DEF text

(* One step of the fold in scan_markers, and the function it is a step of. *)
Emitted(text, hits, i) ==
  LET last == IF hits = <<>> THEN 0 ELSE Last(hits)
  IN hits \o Ascending({l \in Around(text, i, Context) : l > last})
Scanning(f, text, s, T) ==
  IF T = {} THEN <<>> ELSE Emitted(text, f[T \ {Max(T)}], s[Max(T)])
IsScan(f, text, s, S) == f = [T \in SUBSET S |-> Scanning(f, text, s, T)]

(* That function exists.                                                   *)
LEMMA ScanExists ==
  ASSUME NEW text, NEW s, NEW S \in SUBSET Int, IsFiniteSet(S)
  PROVE  \E f : IsScan(f, text, s, S)
<1> DEFINE n == Cardinality(S) + 1
           K == {k \in 1..n : \E f : f = [T \in UpToSize(S, k) |-> Scanning(f, text, s, T)]}
<1>1. n \in Nat /\ 1 \in 1..n /\ n \in 1..n
  BY FS_CardinalityType
<1>2. \A T \in SUBSET S : IsFiniteSet(T) /\ Cardinality(T) \in Nat /\ Cardinality(T) < n
  <2> SUFFICES ASSUME NEW T \in SUBSET S
               PROVE  IsFiniteSet(T) /\ Cardinality(T) \in Nat /\ Cardinality(T) < n
    OBVIOUS
  <2>1. IsFiniteSet(T) /\ Cardinality(T) <= Cardinality(S)
    BY FS_Subset
  <2>2. Cardinality(T) \in Nat /\ Cardinality(S) \in Nat
    BY <2>1, FS_CardinalityType
  <2> QED
    BY <2>1, <2>2
<1>3. 1 \in K
  <2> DEFINE f == [T \in UpToSize(S, 1) |-> <<>>]
  <2>1. \A T \in UpToSize(S, 1) : T = {}
    BY <1>2, FS_EmptySet DEF UpToSize
  <2>2. \A T \in UpToSize(S, 1) : Scanning(f, text, s, T) = <<>>
    BY <2>1 DEF Scanning
  <2>3. f = [T \in UpToSize(S, 1) |-> Scanning(f, text, s, T)]
    <3> HIDE DEF n
    <3> QED
      BY <2>2, Zenon
  <2> HIDE DEF f, n
  <2> QED
    BY <1>1, <2>3, Zenon
<1>4. ASSUME NEW k \in 1..(n - 1), k \in K PROVE k + 1 \in K
  <2>1. PICK f : f = [T \in UpToSize(S, k) |-> Scanning(f, text, s, T)]
    BY <1>4
  <2> DEFINE g == [T \in UpToSize(S, k + 1) |-> Scanning(f, text, s, T)]
  <2>2. ASSUME NEW T \in UpToSize(S, k + 1)
        PROVE  Scanning(g, text, s, T) = Scanning(f, text, s, T)
    <3> DEFINE rest == T \ {Max(T)}
    <3>1. CASE T = {}
      BY <3>1 DEF Scanning
    <3>2. CASE T # {}
      <4>1. T \in SUBSET S /\ Cardinality(T) < k + 1 /\ Cardinality(T) \in Nat /\ IsFiniteSet(T)
        BY <1>2 DEF UpToSize
      <4>2. Max(T) \in T
        BY <3>2, <4>1, Extremes
      <4>3. rest \in SUBSET S /\ Cardinality(rest) = Cardinality(T) - 1
        BY <4>1, <4>2, FS_RemoveElement
      <4>4. k \in Nat
        BY <1>1
      <4>5. rest \in UpToSize(S, k) /\ rest \in UpToSize(S, k + 1)
        BY <4>1, <4>3, <4>4 DEF UpToSize
      <4>6. g[rest] = Scanning(f, text, s, rest)
        BY <4>5
      <4>7. f[rest] = Scanning(f, text, s, rest)
        BY <2>1, <4>5
      <4> QED
        BY <4>6, <4>7 DEF Scanning
    <3> QED
      BY <3>1, <3>2
  <2>3. g = [T \in UpToSize(S, k + 1) |-> Scanning(g, text, s, T)]
    BY <2>2, Zenon
  <2>4. k + 1 \in 1..n
    BY <1>1
  <2> HIDE DEF g, n
  <2> QED
    BY <2>3, <2>4, Zenon
<1>5. n \in K
  <2> HIDE DEF K, n
  <2> QED
    BY <1>1, <1>3, <1>4, UpTo
<1>6. UpToSize(S, n) = SUBSET S
  BY <1>2 DEF UpToSize
<1>7. \E f : f = [T \in UpToSize(S, n) |-> Scanning(f, text, s, T)]
  BY <1>5
<1> HIDE DEF n
<1> QED
  BY <1>6, <1>7, Zenon DEF IsScan

(* The hits that scan_markers returns, by how it came to them: f[1..k] is  *)
(* what it has after k matches.                                            *)
ScanHits(text, s) == FoldLeft(LAMBDA hits, i : Emitted(text, hits, i), <<>>, s)
ScanSteps(f, text, s, n) ==
  /\ ScanHits(text, s) = f[1..n]
  /\ f[{}] = <<>>
  /\ \A k \in 1..n : f[1..k] = Emitted(text, f[1..(k - 1)], s[k])

(* Such an f exists: the fold of scan_markers is one emission per hit.     *)
LEMMA ScanFolded ==
  ASSUME NEW text, NEW s, NEW n \in Nat, s \in [1..n -> Int]
  PROVE  \E f : ScanSteps(f, text, s, n)
<1> DEFINE F == CHOOSE f : IsScan(f, text, s, DOMAIN s)
<1>1. DOMAIN s = 1..n /\ IsFiniteSet(1..n) /\ 1..n \in SUBSET Int
  BY FS_Interval
<1>2. IsScan(F, text, s, DOMAIN s)
  BY <1>1, ScanExists
<1>3. ScanHits(text, s) = F[DOMAIN s]
  BY DEF ScanHits, FoldLeft, MapThenFoldSet, IsScan, Scanning
<1> HIDE DEF F
<1>4. \A T \in SUBSET (1..n) : F[T] = Scanning(F, text, s, T)
  BY <1>1, <1>2, Zenon DEF IsScan
<1>5. F[{}] = <<>>
  BY <1>4 DEF Scanning
<1>6. ASSUME NEW k \in 1..n PROVE F[1..k] = Emitted(text, F[1..(k - 1)], s[k])
  <2>1. 1..k \in SUBSET (1..n) /\ 1..k # {} /\ 1..k \in SUBSET Int /\ k \in 1..k
    OBVIOUS
  <2>6. (1..k) \ {k} = 1..(k - 1)
    <3>1. \A x : x \in (1..k) \ {k} <=> x \in 1..(k - 1)
      OBVIOUS
    <3> QED
      BY <3>1
  <2>2. IsFiniteSet(1..k)
    BY <1>1, <2>1, FS_Subset
  <2>3. Max(1..k) \in 1..k /\ k <= Max(1..k)
    BY <2>1, <2>2, Extremes
  <2>4. Max(1..k) = k
    BY <2>3
  <2>5. F[1..k] = Emitted(text, F[(1..k) \ {k}], s[k])
    BY <1>4, <2>1, <2>4 DEF Scanning
  <2> QED
    BY <2>5, <2>6
<1>7. ScanSteps(F, text, s, n)
  BY <1>1, <1>3, <1>5, <1>6 DEF ScanSteps
<1> QED
  BY <1>7

(* After k matches the hits rise, are the surroundings of those matches,   *)
(* and are at most three a match.                                          *)
Covers(text, s, h, k) ==
  /\ h \in Seq(1..Len(text))
  /\ \A i, j \in 1..Len(h) : i < j => h[i] < h[j]
  /\ \A l : (\E i \in 1..Len(h) : h[i] = l) <=> (\E j \in 1..k : l \in Around(text, s[j], Context))
  /\ Len(h) <= 3 * k

(* The next match keeps that, though its surroundings may overlap the last *)
(* one's: of those, what is left out was emitted before.                   *)
LEMMA EmittedCovers ==
  ASSUME NEW text, Len(text) \in Nat, NEW n \in Nat, NEW s \in [1..n -> 1..Len(text)],
         \A i, j \in 1..n : i < j => s[i] < s[j],
         NEW k \in 1..n, NEW h, Covers(text, s, h, k - 1)
  PROVE  Covers(text, s, Emitted(text, h, s[k]), k)
<1> DEFINE L == Len(text)
           last == IF h = <<>> THEN 0 ELSE Last(h)
           A == Around(text, s[k], Context)
           fresh == {l \in A : l > last}
           a == Ascending(fresh)
           e == h \o a
<1>1. /\ h \in Seq(1..L) /\ Len(h) \in Nat
      /\ \A i, j \in 1..Len(h) : i < j => h[i] < h[j]
      /\ \A l : (\E i \in 1..Len(h) : h[i] = l) <=> (\E j \in 1..(k - 1) : l \in Around(text, s[j], Context))
      /\ Len(h) <= 3 * (k - 1)
  BY DEF Covers
<1>2. \A j \in 1..n : /\ Around(text, s[j], Context) = {l \in 1..L : s[j] - 1 <= l /\ l <= s[j] + 1}
                      /\ IsFiniteSet(Around(text, s[j], Context)) /\ s[j] \in 1..L
  BY AroundInside
<1>3. fresh \in SUBSET (1..L) /\ IsFiniteSet(fresh) /\ fresh \in SUBSET Int
      /\ fresh \in SUBSET ((s[k] - 1)..(s[k] + 1))
  BY <1>2, FS_Subset
<1>4. Cardinality(fresh) \in Nat /\ Cardinality(fresh) <= 3
  <2>1. IsFiniteSet((s[k] - 1)..(s[k] + 1)) /\ Cardinality((s[k] - 1)..(s[k] + 1)) = 3
    <3>1. s[k] - 1 \in Int /\ s[k] + 1 \in Int /\ ~(s[k] - 1 > s[k] + 1) /\ (s[k] + 1) - (s[k] - 1) + 1 = 3
      OBVIOUS
    <3> QED
      BY <3>1, FS_Interval
  <2> HIDE DEF fresh
  <2> QED
    BY <1>3, <2>1, FS_Subset, FS_CardinalityType
<1>5. Listed(a, fresh) /\ a \in Seq(fresh) /\ Len(a) = Cardinality(fresh)
  BY <1>3, AscendingListed
<1>6. \A i \in 1..Len(h) : h[i] <= last /\ h[i] \in 1..L
  <2> SUFFICES ASSUME NEW i \in 1..Len(h) PROVE h[i] <= last /\ h[i] \in 1..L
    OBVIOUS
  <2>1. h # <<>> /\ Len(h) \in 1..Len(h) /\ (i = Len(h) \/ i < Len(h))
    BY <1>1
  <2>2. last = h[Len(h)]
    BY <2>1 DEF Last
  <2>3. h[i] \in 1..L /\ h[Len(h)] \in 1..L
    BY <1>1, <2>1
  <2>4. i = Len(h) \/ h[i] < h[Len(h)]
    BY <1>1, <2>1
  <2> QED
    BY <2>2, <2>3, <2>4
<1>7. last \in Int /\ (last = 0 \/ \E i \in 1..Len(h) : h[i] = last)
  <2>1. CASE h = <<>>
    BY <2>1
  <2>2. CASE h # <<>>
    <3>1. Len(h) \in 1..Len(h) /\ last = h[Len(h)]
      BY <1>1, <2>2 DEF Last
    <3> QED
      BY <1>6, <3>1
  <2> QED
    BY <2>1, <2>2
<1>8. ASSUME NEW l \in A, ~(l > last) PROVE \E j \in 1..(k - 1) : l \in Around(text, s[j], Context)
  <2>1. l \in 1..L /\ s[k] - 1 <= l
    BY <1>2
  <2>2. last # 0 /\ last \in Int
    BY <1>7, <1>8, <2>1
  <2>3. PICK j \in 1..(k - 1) : last \in Around(text, s[j], Context)
    BY <1>1, <1>7, <2>2
  <2>4. j \in 1..n /\ j < k
    OBVIOUS
  <2>5. s[j] < s[k] /\ s[j] \in Int /\ s[k] \in Int
    BY <2>4
  <2>6. last <= s[j] + 1
    BY <1>2, <2>3, <2>4
  <2>7. s[j] - 1 <= l /\ l <= s[j] + 1
    BY <1>8, <2>1, <2>2, <2>5, <2>6
  <2>8. l \in Around(text, s[j], Context)
    BY <1>2, <2>1, <2>4, <2>7
  <2> QED
    BY <2>8
<1> HIDE DEF last, A
<1>9. fresh \in SUBSET A /\ \A l \in A : l \in fresh <=> l > last
  OBVIOUS
<1> DEFINE m == Len(h)
           c == Cardinality(fresh)
<1>10. /\ \A i \in 1..c : a[i] \in fresh /\ a[i] > last /\ a[i] \in 1..L
       /\ \A i, j \in 1..c : i < j => a[i] < a[j]
       /\ \A x \in fresh : \E i \in 1..c : a[i] = x
  BY <1>3, <1>5 DEF Listed
<1> HIDE DEF fresh
<1>11. a \in Seq(1..L) /\ Len(a) = c
  BY <1>3, <1>5, WiderSeq
<1> HIDE DEF a
<1>12. /\ e \in Seq(1..L) /\ Len(e) = m + c
       /\ \A i \in 1..m : e[i] = h[i]
       /\ \A i \in (m + 1)..(m + c) : e[i] = a[i - m]
  <2>1. m \in Nat /\ c \in Nat
    BY <1>1, <1>4
  <2>2. /\ e \in Seq(1..L) /\ Len(e) = m + c
        /\ \A i \in 1..(m + c) : e[i] = IF i <= m THEN h[i] ELSE a[i - m]
    BY <1>1, <1>11, ConcatProperties
  <2> HIDE DEF e, c, m
  <2>3. \A i \in 1..m : i \in 1..(m + c) /\ i <= m
    BY <2>1
  <2>4. \A i \in (m + 1)..(m + c) : i \in 1..(m + c) /\ ~(i <= m)
    BY <2>1
  <2> QED
    BY <2>2, <2>3, <2>4
<1> HIDE DEF e, c, m
<1>13. m \in Nat /\ c \in Nat /\ c <= 3 /\ m <= 3 * (k - 1)
  BY <1>1, <1>4 DEF c, m
<1>14. \A i \in 1..(m + c) : i \in 1..m \/ (i \in (m + 1)..(m + c) /\ i - m \in 1..c)
  BY <1>13
<1>15. \A i, j \in 1..Len(e) : i < j => e[i] < e[j]
  <2> SUFFICES ASSUME NEW i \in 1..(m + c), NEW j \in 1..(m + c), i < j PROVE e[i] < e[j]
    BY <1>12
  <2>1. CASE i \in 1..m /\ j \in 1..m
    BY <1>1, <1>12, <2>1 DEF m
  <2>2. CASE i \in 1..m /\ j \notin 1..m
    <3>1. j \in (m + 1)..(m + c) /\ j - m \in 1..c
      BY <1>14, <2>2
    <3>4. e[j] = a[j - m] /\ e[i] = h[i]
      BY <1>12, <2>2, <3>1
    <3>5. a[j - m] > last /\ a[j - m] \in Int
      BY <1>10, <3>1
    <3>6. h[i] <= last /\ h[i] \in Int
      BY <1>6, <2>2 DEF m
    <3>2. e[j] > last /\ e[j] \in Int
      BY <3>4, <3>5
    <3>3. e[i] <= last /\ e[i] \in Int
      BY <3>4, <3>6
    <3> QED
      BY <1>7, <3>2, <3>3
  <2>3. CASE i \notin 1..m
    <3>1. i \in (m + 1)..(m + c) /\ i - m \in 1..c
      BY <1>14, <2>3
    <3>2. j \in (m + 1)..(m + c) /\ j - m \in 1..c /\ i - m < j - m
      BY <1>13, <3>1
    <3> QED
      BY <1>10, <1>12, <3>1, <3>2
  <2> QED
    BY <2>1, <2>2, <2>3
<1>16. ASSUME NEW i \in 1..Len(e) PROVE \E j \in 1..k : e[i] \in Around(text, s[j], Context)
  <2>1. CASE i \in 1..m
    <3>1. e[i] = h[i]
      BY <1>12, <2>1
    <3>2. \E j \in 1..(k - 1) : h[i] \in Around(text, s[j], Context)
      BY <1>1, <2>1 DEF m
    <3> QED
      BY <3>1, <3>2
  <2>2. CASE i \notin 1..m
    <3>1. i \in (m + 1)..(m + c) /\ i - m \in 1..c
      BY <1>12, <1>14, <2>2
    <3>2. e[i] \in A
      BY <1>9, <1>10, <1>12, <3>1
    <3> QED
      BY <3>2 DEF A
  <2> QED
    BY <2>1, <2>2
<1>17. ASSUME NEW j \in 1..k, NEW l \in Around(text, s[j], Context) PROVE \E i \in 1..Len(e) : e[i] = l
  <2>1. CASE \E x \in 1..(k - 1) : l \in Around(text, s[x], Context)
    <3>1. PICK i \in 1..m : h[i] = l
      BY <1>1, <2>1 DEF m
    <3>2. i \in 1..(m + c) /\ e[i] = l
      BY <1>12, <1>13, <3>1
    <3> QED
      BY <1>12, <3>2
  <2>2. CASE ~\E x \in 1..(k - 1) : l \in Around(text, s[x], Context)
    <3>1. l \in A
      <4>1. j = k
        BY <2>2
      <4> QED
        BY <4>1 DEF A
    <3>2. l \in fresh
      BY <1>8, <1>9, <2>2, <3>1
    <3>3. PICK i \in 1..c : a[i] = l
      BY <1>10, <3>2
    <3>4. i + m \in (m + 1)..(m + c) /\ i + m \in 1..(m + c) /\ (i + m) - m = i
      BY <1>13
    <3>5. e[i + m] = l
      BY <1>12, <3>3, <3>4
    <3> QED
      BY <1>12, <3>4, <3>5
  <2> QED
    BY <2>1, <2>2
<1>18. Len(e) <= 3 * k
  BY <1>12, <1>13
<1>20. \A l : (\E i \in 1..Len(e) : e[i] = l) <=> (\E j \in 1..k : l \in Around(text, s[j], Context))
  BY <1>16, <1>17
<1>21. e \in Seq(1..L)
  BY <1>12
<1> HIDE DEF L
<1>19. Covers(text, s, e, k)
  BY <1>15, <1>18, <1>20, <1>21 DEF Covers, L
<1> QED
  BY <1>19 DEF e, a, fresh, last, A, Emitted

(* What the hits of the first matches are.                                 *)
Exactly(hits, text, marks, max) ==
  /\ \A i \in 1..Len(hits) - 1 : hits[i] < hits[i + 1]
  /\ Range(hits) = UNION {Around(text, i, Context) : i \in FirstOf(Matching(text, marks), max)}
  /\ Len(hits) \in Nat /\ Len(hits) <= 3 * max

(* scan_markers neither repeats a line nor misses one.                     *)
LEMMA ScanExact ==
  ASSUME NEW text, Len(text) \in Nat, DOMAIN text = 1..Len(text), NEW marks, NEW max \in Nat
  PROVE  Exactly(ScanMarkers(text, marks, Context, max).hits, text, marks, max)
<1> DEFINE L == Len(text)
           found == Matching(text, marks)
           first == FirstOf(found, max)
           s == Ascending(first)
           n == Cardinality(first)
           hits == ScanMarkers(text, marks, Context, max).hits
<1>1. found \in SUBSET (1..L) /\ found \in SUBSET Int /\ IsFiniteSet(found)
  BY MatchesInside
<1> HIDE DEF found
<1>2. first \in SUBSET found /\ IsFiniteSet(first) /\ n \in Nat /\ n <= max
  BY <1>1, FirstOfFew
<1>3. first \in SUBSET (1..L) /\ first \in SUBSET Int
  BY <1>1, <1>2
<1> HIDE DEF first
<1>4. Listed(s, first)
  BY <1>2, <1>3, AscendingListed
<1>5. hits = ScanHits(text, s)
  BY DEF ScanMarkers, ScanHits, Emitted, s, first, found
<1> HIDE DEF s, n, hits
<1>6. /\ s \in [1..n -> first] /\ s \in [1..n -> 1..L] /\ s \in [1..n -> Int]
      /\ \A i, j \in 1..n : i < j => s[i] < s[j]
      /\ \A x \in first : \E k \in 1..n : s[k] = x
  <2>1. /\ s \in [1..n -> first]
        /\ \A i, j \in 1..n : i < j => s[i] < s[j]
        /\ \A x \in first : \E k \in 1..n : s[k] = x
    BY <1>4 DEF Listed, n
  <2> QED
    BY <1>3, <2>1
<1>16. PICK f : ScanSteps(f, text, s, n)
  BY <1>2, <1>6, ScanFolded
<1>7. /\ ScanHits(text, s) = f[1..n]
      /\ f[{}] = <<>>
      /\ \A k \in 1..n : f[1..k] = Emitted(text, f[1..(k - 1)], s[k])
  BY <1>16 DEF ScanSteps
<1>8. Covers(text, s, f[1..0], 0)
  <2>1. f[1..0] = <<>>
    <3>1. 1..0 = {}
      OBVIOUS
    <3> QED
      BY <1>7, <3>1
  <2> QED
    BY <2>1 DEF Covers
<1>9. Covers(text, s, f[1..n], n)
  <2> DEFINE K == {k \in Int : Covers(text, s, f[1..(k - 1)], k - 1)}
  <2>1. 1 \in K
    BY <1>8
  <2>2. ASSUME NEW k \in 1..n, k \in K PROVE k + 1 \in K
    <3>1. Covers(text, s, f[1..(k - 1)], k - 1)
      BY <2>2
    <3> DEFINE h == f[1..(k - 1)]
    <3>2. f[1..k] = Emitted(text, h, s[k])
      BY <1>7
    <3> HIDE DEF h
    <3>3. Covers(text, s, Emitted(text, h, s[k]), k)
      BY <1>2, <1>6, <3>1, EmittedCovers DEF h
    <3>4. Covers(text, s, f[1..k], k)
      BY <3>2, <3>3
    <3>5. k + 1 \in Int /\ (k + 1) - 1 = k
      OBVIOUS
    <3> QED
      BY <3>4, <3>5
  <2>3. n + 1 \in Nat /\ n + 1 \in 1..(n + 1) /\ (n + 1) - 1 = n
    BY <1>2
  <2> HIDE DEF K
  <2>4. n + 1 \in K
    BY <2>1, <2>2, <2>3, UpTo
  <2> QED
    BY <2>3, <2>4 DEF K
<1>10. hits = f[1..n]
  BY <1>5, <1>7
<1>11. Covers(text, s, hits, n)
  BY <1>9, <1>10
<1>12. /\ hits \in Seq(1..L) /\ Len(hits) \in Nat
       /\ \A i, j \in 1..Len(hits) : i < j => hits[i] < hits[j]
       /\ \A l : (\E i \in 1..Len(hits) : hits[i] = l) <=> (\E j \in 1..n : l \in Around(text, s[j], Context))
       /\ Len(hits) <= 3 * n
  BY <1>11 DEF Covers
<1>13. \A i \in 1..Len(hits) - 1 : hits[i] < hits[i + 1]
  <2>1. \A i \in 1..Len(hits) - 1 : i \in 1..Len(hits) /\ i + 1 \in 1..Len(hits) /\ i < i + 1
    BY <1>12
  <2> QED
    BY <1>12, <2>1
<1>14. Range(hits) = UNION {Around(text, i, Context) : i \in first}
  <2>1. \A l : l \in Range(hits) <=> \E i \in 1..Len(hits) : hits[i] = l
    BY <1>12 DEF Range
  <2>2. \A l : (\E j \in 1..n : l \in Around(text, s[j], Context))
                 <=> \E i \in first : l \in Around(text, i, Context)
    BY <1>6
  <2>3. \A l : l \in UNION {Around(text, i, Context) : i \in first}
                 <=> \E i \in first : l \in Around(text, i, Context)
    OBVIOUS
  <2> QED
    BY <1>12, <2>1, <2>2, <2>3
<1>15. Len(hits) <= 3 * max
  BY <1>2, <1>12
<1> QED
  BY <1>12, <1>13, <1>14, <1>15 DEF Exactly, hits, first, found

(* The tail is so many lines at most, in their order.                      *)
LEMMA TailExact ==
  ASSUME NEW text, Len(text) \in Nat, NEW n \in Nat
  PROVE  LET hits == TailHits(text, n).hits
         IN  /\ \A i \in 1..Len(hits) - 1 : hits[i] < hits[i + 1]
             /\ Len(hits) \in Nat /\ Len(hits) <= n
<1> DEFINE L == Len(text)
           S == LastLines(1, L, n)
           hits == TailHits(text, n).hits
           low == Greatest(1, L + 1 - Least(n, L + 1))
<1>1. S = low..L /\ low \in Nat /\ L - low + 1 <= n /\ L - low + 1 \in Nat
  <2> DEFINE cut == Least(n, L + 1)
  <2>1. cut \in Nat /\ cut <= n /\ cut <= L + 1
    BY DEF Least
  <2> HIDE DEF cut
  <2>2. low = Greatest(1, L + 1 - cut)
    BY DEF cut
  <2>3. low \in Nat /\ ((L - low + 1 <= cut /\ L - low + 1 \in Nat) \/ (low = 1 /\ L = 0))
    BY <2>1, <2>2 DEF Greatest
  <2>4. L = 0 /\ low = 1 => L - low + 1 = 0
    OBVIOUS
  <2>5. S = low..L
    BY DEF LastLines
  <2> HIDE DEF low, S
  <2> QED
    BY <2>1, <2>3, <2>4, <2>5
<1>2. IsFiniteSet(S) /\ S \in SUBSET Int /\ Cardinality(S) <= n /\ Cardinality(S) \in Nat
  <2> HIDE DEF low
  <2>1. low \in Int /\ L \in Int
    BY <1>1
  <2>2. IsFiniteSet(low..L) /\ Cardinality(low..L) = IF low > L THEN 0 ELSE L - low + 1
    BY <2>1, FS_Interval
  <2> HIDE DEF S, L
  <2> QED
    BY <1>1, <2>1, <2>2
<1>3. hits = Ascending(S)
  BY DEF TailHits
<1> HIDE DEF S, hits
<1>4. Listed(hits, S) /\ Len(hits) = Cardinality(S)
  BY <1>2, <1>3, AscendingListed
<1>5. \A i \in 1..Len(hits) - 1 : i \in 1..Cardinality(S) /\ i + 1 \in 1..Cardinality(S) /\ i < i + 1
  BY <1>2, <1>4
<1>6. \A i \in 1..Len(hits) - 1 : hits[i] < hits[i + 1]
  BY <1>4, <1>5 DEF Listed
<1> QED
  BY <1>2, <1>4, <1>6 DEF hits

(* Behind the trace that follows the hit, no line of the stack is one that *)
(* os-autoinst stamped.                                                    *)
LEMMA StackUnstamped ==
  ASSUME NEW text, Len(text) \in Nat, NEW hit \in Nat \ {0}, NEW frames \in Nat
  PROVE  \A f \in DiedContext(text, hit, frames).stack : text[f] \notin Timestamped
<1> DEFINE L == Len(text)
           traces == {i \in hit..L : text[i] = "trace"}
           t == Min(traces)
           next == {j \in t + 1..L : text[j] \in Timestamped} \cup {L + 1}
           stack == DiedContext(text, hit, frames).stack
<1>1. stack = IF traces = {} THEN {} ELSE t + 1..Least(Min(next) - 1, t + frames)
  BY DEF DiedContext
<1>2. CASE traces = {}
  BY <1>1, <1>2
<1>3. CASE traces # {}
  <2>1. IsFiniteSet(hit..L) /\ traces \in SUBSET (hit..L) /\ traces \in SUBSET Int
    BY FS_Interval
  <2>2. t \in traces
    BY <1>3, <2>1, FS_Subset, Extremes
  <2>3. t \in 1..L
    BY <2>2
  <2> HIDE DEF t
  <2>4. next \in SUBSET (1..(L + 1)) /\ next # {}
    BY <2>3
  <2>5. IsFiniteSet(1..(L + 1)) /\ next \in SUBSET Int
    BY <2>4, FS_Interval
  <2>6. IsFiniteSet(next)
    BY <2>4, <2>5, FS_Subset
  <2> DEFINE nearest == Min(next)
  <2>7. nearest \in next /\ \A y \in next : nearest <= y
    BY <2>4, <2>5, <2>6, Extremes
  <2>8. nearest \in 1..(L + 1)
    BY <2>4, <2>7
  <2> HIDE DEF nearest
  <2>9. ASSUME NEW f \in stack PROVE text[f] \notin Timestamped
    <3>1. f \in t + 1..Least(nearest - 1, t + frames)
      BY <1>1, <1>3 DEF nearest
    <3>2. f \in Int /\ t + 1 <= f /\ f <= nearest - 1
      BY <2>3, <2>8, <3>1 DEF Least
    <3>3. f \in t + 1..L /\ ~(nearest <= f)
      BY <2>3, <2>8, <3>2
    <3> QED
      BY <2>7, <3>3
  <2> QED
    BY <2>9
<1> QED
  BY <1>2, <1>3

(* The lines of a part of the log are an interval of line numbers.         *)
LEMMA LineCount ==
  ASSUME job \in Jobs, NEW p \in Int
  PROVE  /\ LineAt(p) \in Nat \ {0}
         /\ \A q \in Int : p <= q => LineAt(p) <= LineAt(q)
         /\ p \in job.ends => LineAt(p + 1) = LineAt(p) + 1
<1> DEFINE upTo(q) == {r \in job.ends : r < q}
<1>1. job.ends \in SUBSET Int /\ IsFiniteSet(job.ends)
  <2>1. job.ends \in SUBSET (1..MaxSize) /\ MaxSize \in Int
    BY JobAssumption, LimitAssumption
  <2>2. IsFiniteSet(1..MaxSize)
    BY <2>1, FS_Interval
  <2> QED
    BY <2>1, <2>2, FS_Subset
<1>2. \A q \in Int : IsFiniteSet(upTo(q)) /\ Cardinality(upTo(q)) \in Nat
  <2> SUFFICES ASSUME NEW q \in Int PROVE IsFiniteSet(upTo(q)) /\ Cardinality(upTo(q)) \in Nat
    OBVIOUS
  <2>1. IsFiniteSet(upTo(q))
    BY <1>1, FS_Subset
  <2> QED
    BY <2>1, FS_CardinalityType
<1>3. \A q \in Int : LineAt(q) = 1 + Cardinality(upTo(q))
  BY DEF LineAt
<1>4. ASSUME NEW q \in Int, p <= q PROVE LineAt(p) <= LineAt(q)
  <2>1. upTo(p) \in SUBSET upTo(q)
    BY <1>1, <1>4
  <2> DEFINE P == upTo(p)
             Q == upTo(q)
  <2>2. IsFiniteSet(Q) /\ Cardinality(P) \in Nat /\ Cardinality(Q) \in Nat
    BY <1>2
  <2>3. LineAt(p) = 1 + Cardinality(P) /\ LineAt(q) = 1 + Cardinality(Q)
    BY <1>3
  <2> HIDE DEF P, Q
  <2>4. Cardinality(P) <= Cardinality(Q)
    BY <2>1, <2>2, FS_Subset DEF P, Q
  <2> QED
    BY <2>2, <2>3, <2>4
<1>5. ASSUME p \in job.ends PROVE LineAt(p + 1) = LineAt(p) + 1
  <2> DEFINE P == upTo(p)
             Q == upTo(p + 1)
  <2>1. Q = P \cup {p} /\ p \notin P
    BY <1>1, <1>5
  <2>2. IsFiniteSet(P) /\ Cardinality(P) \in Nat
    BY <1>2
  <2>3. LineAt(p) = 1 + Cardinality(P) /\ LineAt(p + 1) = 1 + Cardinality(Q)
    BY <1>3
  <2> HIDE DEF P, Q
  <2>4. Cardinality(Q) = Cardinality(P) + 1
    BY <2>1, <2>2, FS_AddElement
  <2> QED
    BY <2>2, <2>3, <2>4
<1>6. LineAt(p) \in Nat \ {0}
  <2> DEFINE c == Cardinality(upTo(p))
  <2>1. c \in Nat /\ LineAt(p) = 1 + c
    BY <1>2, <1>3
  <2> HIDE DEF c
  <2> QED
    BY <2>1
<1> QED
  BY <1>4, <1>5, <1>6

(* A finite set of line numbers, or none.                                  *)
Numbers(lines) == lines \in SUBSET Int /\ IsFiniteSet(lines)

(* The lines of a part of the log, whole or without its first, are such.   *)
LEMMA LinesNumbers ==
  ASSUME job \in Jobs, NEW from \in Int, NEW to \in Int
  PROVE  Numbers(Lines(from, to)) /\ Numbers(DropPartialFirstLine(from, to))
<1>1. \A a, b \in Int : Numbers(a..b)
  BY FS_Interval DEF Numbers
<1>2. Numbers({})
  BY FS_EmptySet DEF Numbers
<1>3. ASSUME NEW a \in Int PROVE Numbers(Lines(a, to))
  <2>1. LineAt(a + 1) \in Int /\ LineAt(to) \in Int
    BY LineCount
  <2> QED
    BY <1>1, <1>2, <2>1 DEF Lines
<1>4. Numbers(DropPartialFirstLine(from, to))
  <2> DEFINE ends == {q \in job.ends : from < q /\ q <= to}
  <2>1. ends \in SUBSET (1..MaxSize) /\ MaxSize \in Int
    BY JobAssumption, LimitAssumption
  <2>5. IsFiniteSet(1..MaxSize) /\ 1..MaxSize \in SUBSET Int
    BY <2>1, FS_Interval
  <2>2. IsFiniteSet(ends) /\ ends \in SUBSET Int
    <3> HIDE DEF ends
    <3> QED
      BY <2>1, <2>5, FS_Subset
  <2>3. CASE ends = {}
    BY <1>2, <2>3 DEF DropPartialFirstLine
  <2>4. CASE ends # {}
    <3> DEFINE m == Min(ends)
    <3> HIDE DEF ends
    <3>1. m \in Int
      BY <2>2, <2>4, Extremes
    <3> HIDE DEF m
    <3>2. DropPartialFirstLine(from, to) = Lines(m, to)
      BY <2>4 DEF DropPartialFirstLine, ends, m
    <3> QED
      BY <1>3, <3>1, <3>2
  <2> QED
    BY <2>3, <2>4
<1> QED
  BY <1>3, <1>4

(* slice keeps a number of the lines, at most.                             *)
Kept(lines) ==
  IF ask.tail = All \/ lines = {} THEN lines
  ELSE LastLines(Min(lines), Max(lines), ask.tail)

(* What is kept is again a finite set of line numbers.                     *)
LEMMA KeptNumbers ==
  ASSUME ask \in Asks, NEW lines, Numbers(lines)
  PROVE  Numbers(Kept(lines))
<1>1. CASE ask.tail = All \/ lines = {}
  BY <1>1 DEF Kept
<1>2. CASE ~(ask.tail = All \/ lines = {})
  <2>1. ask.tail \in Int
    BY <1>2, AskAssumption
  <2>2. Min(lines) \in Int /\ Max(lines) \in Int
    BY <1>2, Extremes DEF Numbers
  <2> DEFINE low == Greatest(Min(lines), Max(lines) + 1 - Least(ask.tail, Max(lines) + 1))
  <2>3. low \in Int
    BY <2>1, <2>2 DEF Greatest, Least
  <2>4. Kept(lines) = low..Max(lines)
    BY <1>2 DEF Kept, LastLines
  <2> HIDE DEF low
  <2> QED
    BY <2>2, <2>3, <2>4, FS_Interval DEF Numbers
<1> QED
  BY <1>1, <1>2

(* The needles of the step that a call asks about: the matched ones, then  *)
(* the others by falling score.                                            *)
LEMMA NeedlesFall ==
  ASSUME job \in Jobs, ask \in Asks, HasScreenshot
  PROVE  /\ Len(StepNeedles) \in Nat /\ DOMAIN StepNeedles = 1..Len(StepNeedles)
         /\ \A i, j \in DOMAIN StepNeedles : i < j =>
              \/ StepNeedles[i].matched
              \/ ~StepNeedles[j].matched /\ StepNeedles[i].score >= StepNeedles[j].score
<1> DEFINE step == StepOf[1]
           others == Others(step)
           R == Better(others)
           rest == ArrangedBy(R, others)
           n == Cardinality(others)
           matched == Candidates(job.details, step.matched, TRUE)
           unmatched == Candidates(job.details, rest, FALSE)
<1>1. step \in Range(StepOf)
  <2>1. PICK i \in DOMAIN StepOf : TRUE
    BY DEF HasScreenshot, Range
  <2>2. 1 \in DOMAIN StepOf
    <3> DEFINE steps == IF SelectSeq(job.details.modules, LAMBDA m : m.name = ask.module) = <<>> THEN <<>>
                        ELSE SelectSeq(Head(SelectSeq(job.details.modules, LAMBDA m : m.name = ask.module)).steps,
                                       LAMBDA s : s.num = ask.step)
               last == IF steps = <<>> THEN 0 ELSE 1
    <3>1. StepOf = SubSeq(steps, 1, last)
      BY DEF StepOf, FindStep
    <3> HIDE DEF steps
    <3>2. DOMAIN StepOf = 1..last
      BY <3>1
    <3> QED
      BY <2>1, <3>2
  <2> QED
    BY <2>2 DEF Range
<1>2. /\ step.matched \in Seq(Range(step.matched)) /\ step.needles \in Seq(Range(step.needles))
      /\ \A x \in Range(step.needles) : x.score \in Int /\ x.rank \in Int
      /\ \A x, y \in Range(step.needles) : x.score = y.score /\ x.rank = y.rank => x = y
  BY <1>1, NeedleAssumption DEF StepOf
<1> HIDE DEF step
<1>3. others \in SUBSET Range(step.needles) /\ IsFiniteSet(others)
  <2>1. IsFiniteSet(Range(step.needles))
    <3>1. Len(step.needles) \in Nat /\ DOMAIN step.needles = 1..Len(step.needles)
      BY <1>2
    <3>2. IsFiniteSet(DOMAIN step.needles)
      BY <3>1, FS_Interval
    <3>3. step.needles \in Surjection(DOMAIN step.needles, Range(step.needles))
      BY <1>2 DEF Surjection, Range
    <3> QED
      BY <3>2, <3>3, FS_Surjection
  <2> QED
    BY <2>1, FS_Subset DEF Others
<1> HIDE DEF others
<1>4. \A x, y \in others : <<x, y>> \in R <=> x.score > y.score \/ (x.score = y.score /\ x.rank < y.rank)
  BY DEF Better
<1>5. Strict(R, others)
  <2>1. \A x \in others : x.score \in Int /\ x.rank \in Int
    BY <1>2, <1>3
  <2>2. \A x, y \in others : x # y => x.score # y.score \/ x.rank # y.rank
    BY <1>2, <1>3
  <2> HIDE DEF R
  <2>3. \A x, y, z \in others : <<x, y>> \in R /\ <<y, z>> \in R => <<x, z>> \in R
    BY <1>4, <2>1
  <2>4. \A x, y \in others : x # y => <<x, y>> \in R \/ <<y, x>> \in R
    BY <1>4, <2>1, <2>2
  <2>5. \A x \in others : <<x, x>> \notin R
    BY <1>4, <2>1
  <2> QED
    BY <2>3, <2>4, <2>5 DEF Strict
<1>6. InTurn(rest, R, others)
  BY <1>3, <1>5, ArrangedInTurn
<1>7. n \in Nat
  BY <1>3, FS_CardinalityType
<1> HIDE DEF R, rest, n
<1>8. /\ rest \in [1..n -> others]
      /\ \A i, j \in 1..n : i < j => <<rest[i], rest[j]>> \in R
  BY <1>6 DEF InTurn, n
<1>9. \A i, j \in 1..n : i < j => rest[i].score >= rest[j].score
  <2> SUFFICES ASSUME NEW i \in 1..n, NEW j \in 1..n, i < j PROVE rest[i].score >= rest[j].score
    OBVIOUS
  <2>1. rest[i] \in others /\ rest[j] \in others /\ <<rest[i], rest[j]>> \in R
    BY <1>8
  <2>2. rest[i].score \in Int /\ rest[j].score \in Int
    BY <1>2, <1>3, <2>1
  <2>3. rest[i].score > rest[j].score \/ rest[i].score = rest[j].score
    BY <1>4, <2>1
  <2> QED
    BY <2>2, <2>3
<1> DEFINE m == Len(step.matched)
<1>10. m \in Nat /\ DOMAIN step.matched = 1..m
  BY <1>2
<1>11. Len(matched) = m /\ DOMAIN matched = 1..m /\ \A i \in 1..m : matched[i].matched = TRUE
  BY <1>10 DEF Candidates, Candidate
<1>12. Len(unmatched) = n /\ DOMAIN unmatched = 1..n
       /\ \A i \in 1..n : unmatched[i].matched = FALSE /\ unmatched[i].score = rest[i].score
  BY <1>7, <1>8 DEF Candidates, Candidate
<1>13. StepNeedles = matched \o unmatched
  BY DEF StepNeedles, NeedleStep, step, others, R, rest
<1> DEFINE T == Range(matched) \cup Range(unmatched)
<1>17. matched \in Seq(T) /\ unmatched \in Seq(T)
  <2>1. matched = [i \in 1..m |-> matched[i]] /\ unmatched = [i \in 1..n |-> unmatched[i]]
    BY <1>7, <1>8, <1>10 DEF Candidates
  <2> HIDE DEF matched, unmatched, m
  <2>2. \A i \in 1..m : matched[i] \in T
    BY <1>11 DEF Range
  <2>3. \A i \in 1..n : unmatched[i] \in T
    BY <1>12 DEF Range
  <2> HIDE DEF T
  <2>4. matched \in [1..m -> T] /\ unmatched \in [1..n -> T]
    BY <2>1, <2>2, <2>3
  <2>5. m \in Nat /\ n \in Nat
    BY <1>7, <1>10 DEF m
  <2> QED
    BY <2>4, <2>5
<1> HIDE DEF matched, unmatched, m, T
<1>14. /\ Len(StepNeedles) = m + n /\ DOMAIN StepNeedles = 1..(m + n)
       /\ \A i \in 1..(m + n) : StepNeedles[i] = IF i <= m THEN matched[i] ELSE unmatched[i - m]
  <2>1. /\ StepNeedles \in Seq(T) /\ Len(StepNeedles) = m + n
        /\ \A i \in 1..(m + n) : StepNeedles[i] = IF i <= m THEN matched[i] ELSE unmatched[i - m]
    <3>1. /\ matched \o unmatched \in Seq(T)
          /\ Len(matched \o unmatched) = Len(matched) + Len(unmatched)
          /\ \A i \in 1..Len(matched) + Len(unmatched) : (matched \o unmatched)[i] =
               IF i <= Len(matched) THEN matched[i] ELSE unmatched[i - Len(matched)]
      BY <1>17, ConcatProperties
    <3> QED
      BY <1>11, <1>12, <1>13, <3>1
  <2> QED
    BY <2>1
<1>15. ASSUME NEW i \in 1..(m + n), NEW j \in 1..(m + n), i < j
       PROVE  \/ StepNeedles[i].matched
              \/ ~StepNeedles[j].matched /\ StepNeedles[i].score >= StepNeedles[j].score
  <2>1. CASE i <= m
    <3>1. i \in 1..m
      BY <1>10, <2>1
    <3> QED
      BY <1>11, <1>14, <2>1, <3>1
  <2>2. CASE ~(i <= m)
    <3>1. ~(j <= m) /\ i - m \in 1..n /\ j - m \in 1..n /\ i - m < j - m
      BY <1>7, <1>10, <1>15, <2>2
    <3>2. StepNeedles[i] = unmatched[i - m] /\ StepNeedles[j] = unmatched[j - m]
      BY <1>14, <2>2, <3>1
    <3>3. rest[i - m].score >= rest[j - m].score
      BY <1>9, <3>1
    <3> QED
      BY <1>12, <3>1, <3>2, <3>3
  <2> QED
    BY <2>1, <2>2
<1>16. m + n \in Nat
  BY <1>7, <1>10
<1> QED
  BY <1>14, <1>15, <1>16

(* Of a page's links, the first one with each name, and whether it stands  *)
(* below the heading.                                                      *)
FirstLinks(page) ==
  {i \in DOMAIN page : /\ i \notin {l \in DOMAIN page : page[l] = "Uploaded logs"}
                       /\ page[i] # "another job's"
                       /\ \A j \in 1..i - 1 : page[j] # page[i]}
Below(page, i) == \E h \in {l \in DOMAIN page : page[l] = "Uploaded logs"} : i > h
FileOf(page, i) == [name |-> page[i], kind |-> IF Below(page, i) THEN "ulog" ELSE "result"]

(* parse_downloads tells the first links, each once.                       *)
LEMMA PageFiles ==
  ASSUME NEW page, page \in Seq(Range(page))
  PROVE  \A r : r \in Range(ParseDownloads(page)) <=> \E i \in FirstLinks(page) : r = FileOf(page, i)
<1> DEFINE S == FirstLinks(page)
           s == Ascending(S)
           n == Cardinality(S)
           files == ParseDownloads(page)
<1>1. DOMAIN page = 1..Len(page) /\ Len(page) \in Nat
  OBVIOUS
<1>2. S \in SUBSET (1..Len(page)) /\ S \in SUBSET Int /\ IsFiniteSet(S)
  <2>1. S \in SUBSET (1..Len(page))
    BY <1>1 DEF FirstLinks
  <2>2. IsFiniteSet(1..Len(page))
    BY <1>1, FS_Interval
  <2>3. 1..Len(page) \in SUBSET Int
    BY <1>1
  <2> HIDE DEF S
  <2>4. S \in SUBSET Int
    BY <2>1, <2>3
  <2> QED
    BY <2>1, <2>2, <2>4, FS_Subset
<1>3. files = [k \in DOMAIN s |-> FileOf(page, s[k])]
  BY DEF ParseDownloads, FileOf, Below, FirstLinks
<1> HIDE DEF files, s, n, S
<1>4. Listed(s, S)
  BY <1>2, AscendingListed DEF s
<1>5. DOMAIN s = 1..n /\ (\A k \in 1..n : s[k] \in S) /\ \A x \in S : \E k \in 1..n : s[k] = x
  BY <1>4 DEF Listed, n
<1>6. \A r : r \in Range(files) <=> \E k \in 1..n : r = FileOf(page, s[k])
  BY <1>3, <1>5 DEF Range
<1>7. \A r : r \in Range(files) <=> \E i \in S : r = FileOf(page, i)
  BY <1>5, <1>6
<1> QED
  BY <1>7 DEF files, S

(* details_logs tells both lists.                                          *)
LEMMA DetailsFiles ==
  ASSUME NEW details, details.logs \in Seq(Range(details.logs)),
         details.ulogs \in Seq(Range(details.ulogs))
  PROVE  \A r : r \in Range(DetailsLogs(details)) <=>
           \/ \E x \in Range(details.logs) : r = [name |-> x, kind |-> "result"]
           \/ \E x \in Range(details.ulogs) : r = [name |-> x, kind |-> "ulog"]
<1> DEFINE logs == details.logs
           ulogs == details.ulogs
           a == [i \in DOMAIN logs |-> [name |-> logs[i], kind |-> "result"]]
           b == [i \in DOMAIN ulogs |-> [name |-> ulogs[i], kind |-> "ulog"]]
           m == Len(logs)
           n == Len(ulogs)
           T == Range(a) \cup Range(b)
           c == DetailsLogs(details)
<1>1. m \in Nat /\ n \in Nat /\ DOMAIN logs = 1..m /\ DOMAIN ulogs = 1..n
  OBVIOUS
<1>2. c = a \o b
  BY DEF DetailsLogs
<1>3. a \in [1..m -> T] /\ b \in [1..n -> T]
  BY <1>1 DEF Range
<1>4. /\ \A i \in 1..m : a[i] = [name |-> logs[i], kind |-> "result"]
      /\ \A i \in 1..n : b[i] = [name |-> ulogs[i], kind |-> "ulog"]
  BY <1>1
<1> HIDE DEF a, b, T, m, n, c
<1>5. a \in Seq(T) /\ b \in Seq(T) /\ Len(a) = m /\ Len(b) = n
  BY <1>1, <1>3
<1>6. /\ a \o b \in Seq(T) /\ Len(a \o b) = m + n
      /\ \A i \in 1..m + n : (a \o b)[i] = IF i <= m THEN a[i] ELSE b[i - m]
  <2>1. /\ a \o b \in Seq(T) /\ Len(a \o b) = Len(a) + Len(b)
        /\ \A i \in 1..Len(a) + Len(b) : (a \o b)[i] = IF i <= Len(a) THEN a[i] ELSE b[i - Len(a)]
    BY <1>5, ConcatProperties
  <2> QED
    BY <1>5, <2>1
<1>7. /\ DOMAIN c = 1..(m + n)
      /\ \A i \in 1..(m + n) : c[i] = IF i <= m THEN a[i] ELSE b[i - m]
  BY <1>2, <1>6
<1>8. ASSUME NEW r \in Range(c)
      PROVE  \/ \E x \in Range(logs) : r = [name |-> x, kind |-> "result"]
             \/ \E x \in Range(ulogs) : r = [name |-> x, kind |-> "ulog"]
  <2>1. PICK i \in 1..(m + n) : r = c[i]
    BY <1>7 DEF Range
  <2>2. CASE i <= m
    <3>1. i \in 1..m /\ r = a[i]
      BY <1>1, <1>7, <2>1, <2>2
    <3> QED
      BY <1>1, <1>4, <3>1 DEF Range
  <2>3. CASE ~(i <= m)
    <3>1. i - m \in 1..n /\ r = b[i - m]
      BY <1>1, <1>7, <2>1, <2>3
    <3> QED
      BY <1>1, <1>4, <3>1 DEF Range
  <2> QED
    BY <2>2, <2>3
<1>9. ASSUME NEW x \in Range(logs) PROVE [name |-> x, kind |-> "result"] \in Range(c)
  <2>1. PICK i \in 1..m : x = logs[i]
    BY <1>1 DEF Range
  <2>2. i \in 1..(m + n) /\ i <= m
    BY <1>1
  <2>3. c[i] = [name |-> x, kind |-> "result"]
    BY <1>4, <1>7, <2>1, <2>2
  <2> QED
    BY <1>7, <2>2, <2>3 DEF Range
<1>10. ASSUME NEW x \in Range(ulogs) PROVE [name |-> x, kind |-> "ulog"] \in Range(c)
  <2>1. PICK i \in 1..n : x = ulogs[i]
    BY <1>1 DEF Range
  <2>2. i + m \in 1..(m + n) /\ ~(i + m <= m) /\ (i + m) - m = i
    BY <1>1
  <2>3. c[i + m] = [name |-> x, kind |-> "ulog"]
    BY <1>4, <1>7, <2>1, <2>2
  <2> QED
    BY <1>7, <2>2, <2>3 DEF Range
<1> QED
  BY <1>8, <1>9, <1>10 DEF c

(* A page that shows a file shows the files of /details.                   *)
LEMMA FilesAgree ==
  ASSUME job \in Jobs, ParseDownloads(job.page) # <<>>
  PROVE  Range(ParseDownloads(job.page)) = Range(DetailsLogs(job.details))
<1> DEFINE page == job.page
           n == Len(page)
           logs == Range(job.details.logs)
           ulogs == Range(job.details.ulogs)
           result == Shown(page, FALSE)
           ulog == Shown(page, TRUE)
           link(x) == x # "Uploaded logs" /\ x # "another job's"
           below(i) == Below(page, i)
           first == FirstLinks(page)
<1>1. page \in Seq(Range(page))
  BY PageAssumption
<1>2. /\ job.details.logs \in Seq(Range(job.details.logs))
      /\ job.details.ulogs \in Seq(Range(job.details.ulogs))
      /\ logs \cap ulogs = {}
      /\ ulog \cup result # {} => result = logs /\ ulog = ulogs
  BY PageAssumption
<1> HIDE DEF page
<1>3. DOMAIN page = 1..n /\ n \in Nat
  BY <1>1
<1> HIDE DEF n
<1>4. \A i \in 1..n : below(i) <=> \E h \in 1..i - 1 : page[h] = "Uploaded logs"
  <2> SUFFICES ASSUME NEW i \in 1..n
               PROVE  below(i) <=> \E h \in 1..i - 1 : page[h] = "Uploaded logs"
    OBVIOUS
  <2>1. below(i) <=> \E h \in 1..n : page[h] = "Uploaded logs" /\ i > h
    BY <1>3 DEF Below
  <2>2. \A h : h \in 1..i - 1 <=> h \in 1..n /\ i > h
    BY <1>3
  <2> QED
    BY <2>1, <2>2
<1>5. \A x : x \in result <=> \E i \in 1..n : x = page[i] /\ link(x) /\ ~below(i)
  BY <1>3, <1>4 DEF Shown
<1>6. \A x : x \in ulog <=> \E i \in 1..n : x = page[i] /\ link(x) /\ below(i)
  BY <1>3, <1>4 DEF Shown
<1>7. \A i \in first : i \in 1..n /\ link(page[i])
  BY <1>3 DEF FirstLinks
<1>8. \A i, j \in 1..n : i <= j /\ below(i) => below(j)
  <2> SUFFICES ASSUME NEW i \in 1..n, NEW j \in 1..n, i <= j, below(i) PROVE below(j)
    OBVIOUS
  <2>1. PICK h \in 1..i - 1 : page[h] = "Uploaded logs"
    BY <1>4
  <2>2. h \in 1..j - 1
    OBVIOUS
  <2> QED
    BY <1>4, <2>1, <2>2
<1>9. ASSUME NEW l \in 1..n, link(page[l])
      PROVE  \E i \in first : page[i] = page[l] /\ i <= l
  <2> DEFINE same == {i \in 1..n : page[i] = page[l]}
  <2>1. same \in SUBSET Nat /\ l \in same
    OBVIOUS
  <2>2. PICK i \in same : \A j \in same : i <= j
    <3> HIDE DEF same
    <3> QED
      BY <2>1, LeastElement
  <2>3. i \in 1..n /\ page[i] = page[l] /\ i <= l
    BY <2>1, <2>2
  <2>4. \A j \in 1..i - 1 : page[j] # page[i]
    <3> SUFFICES ASSUME NEW j \in 1..i - 1, page[j] = page[i] PROVE FALSE
      OBVIOUS
    <3>1. j \in 1..n /\ ~(i <= j)
      BY <1>3, <2>3
    <3>2. j \in same
      BY <2>3, <3>1
    <3> QED
      BY <2>2, <3>1, <3>2
  <2>5. i \in first
    BY <1>3, <1>9, <2>3, <2>4 DEF FirstLinks
  <2> QED
    BY <2>3, <2>5
<1> HIDE DEF below, link, first, result, ulog, logs, ulogs
<1>10. \A r : r \in Range(ParseDownloads(page)) <=> \E i \in first : r = FileOf(page, i)
  BY <1>1, PageFiles DEF first
<1>11. \A r : r \in Range(DetailsLogs(job.details)) <=>
         \/ \E x \in logs : r = [name |-> x, kind |-> "result"]
         \/ \E x \in ulogs : r = [name |-> x, kind |-> "ulog"]
  BY <1>2, DetailsFiles DEF logs, ulogs
<1>12. \E i \in first : TRUE
  <2>1. CASE first = {}
    <3>1. Range(ParseDownloads(page)) = {}
      BY <1>10, <2>1
    <3>2. FirstLinks(page) = {}
      BY <2>1 DEF first
    <3>3. Ascending({}) = <<>>
      <4>1. Ascending({}) \in Seq({}) /\ Len(Ascending({})) = 0
        BY AscendingListed, FS_EmptySet
      <4> QED
        BY <4>1
    <3>4. ParseDownloads(page) = [k \in DOMAIN Ascending({}) |-> FileOf(page, Ascending({})[k])]
      BY <3>2 DEF ParseDownloads, FileOf, Below, FirstLinks
    <3>5. DOMAIN Ascending({}) = {}
      BY <3>3
    <3> DEFINE e == Ascending({})
               at(k) == FileOf(page, e[k])
    <3>6. ParseDownloads(page) = [k \in {} |-> at(k)]
      BY <3>4, <3>5
    <3> HIDE DEF at
    <3>7. [k \in {} |-> at(k)] = <<>>
      OBVIOUS
    <3> QED
      BY <3>6, <3>7 DEF page
  <2> QED
    BY <2>1
<1>13. result = logs /\ ulog = ulogs
  <2>1. PICK i \in first : TRUE
    BY <1>12
  <2>2. page[i] \in result \/ page[i] \in ulog
    BY <1>5, <1>6, <1>7
  <2> QED
    BY <1>2, <2>2
<1>14. ASSUME NEW i \in first
       PROVE  /\ below(i) => page[i] \in ulogs /\ FileOf(page, i) = [name |-> page[i], kind |-> "ulog"]
              /\ ~below(i) => page[i] \in logs /\ FileOf(page, i) = [name |-> page[i], kind |-> "result"]
  BY <1>5, <1>6, <1>7, <1>13 DEF FileOf, below
<1>15. ASSUME NEW x \in logs PROVE \E i \in first : FileOf(page, i) = [name |-> x, kind |-> "result"]
  <2>1. PICK l \in 1..n : x = page[l] /\ link(x) /\ ~below(l)
    BY <1>5, <1>13
  <2>2. PICK i \in first : page[i] = page[l] /\ i <= l
    BY <1>9, <2>1
  <2>3. ~below(i)
    BY <1>7, <1>8, <2>1, <2>2
  <2> QED
    BY <1>14, <2>1, <2>2, <2>3
<1>16. ASSUME NEW x \in ulogs PROVE \E i \in first : FileOf(page, i) = [name |-> x, kind |-> "ulog"]
  <2>1. PICK l \in 1..n : x = page[l] /\ link(x)
    BY <1>6, <1>13
  <2>2. PICK i \in first : page[i] = page[l] /\ i <= l
    BY <1>9, <2>1
  <2>3. below(i)
    BY <1>2, <1>14, <2>1, <2>2
  <2> QED
    BY <1>14, <2>1, <2>2, <2>3
<1>17. \A r : r \in Range(ParseDownloads(page)) <=> r \in Range(DetailsLogs(job.details))
  BY <1>10, <1>11, <1>14, <1>15, <1>16
<1>18. Range(ParseDownloads(page)) = Range(DetailsLogs(job.details))
  BY <1>17
<1> QED
  BY <1>18 DEF page

(* The lines that start behind the first byte of a part of the log: what   *)
(* drop_partial_first_line leaves of it.                                   *)
WholeLines(from) == {l \in Lines(0, size) : LineStart(l) > from + 1}

(* drop_partial_first_line leaves every whole line, unless there is none.  *)
LEMMA DropLeavesWhole ==
  ASSUME job \in Jobs, size \in Nat, NEW from \in Nat, from < size
  PROVE  /\ DropPartialFirstLine(from, size) = WholeLines(from)
         /\ \/ WholeLines(from) = {}
            \/ \E a \in Nat \ {0} : a <= LineAt(size) /\ WholeLines(from) = a..LineAt(size)
<1> DEFINE ends == {q \in job.ends : from < q /\ q <= size}
           b == LineAt(size)
           D == DropPartialFirstLine(from, size)
           whole == WholeLines(from)
<1>1. job.ends \in SUBSET (1..MaxSize) /\ MaxSize \in Nat /\ IsFiniteSet(1..MaxSize)
  <2>1. job.ends \in SUBSET (1..MaxSize) /\ MaxSize \in Nat
    BY JobAssumption, LimitAssumption
  <2>2. 1 \in Int /\ MaxSize \in Int
    BY <2>1
  <2>3. IsFiniteSet(1..MaxSize)
    BY <2>2, FS_Interval
  <2> QED
    BY <2>1, <2>3
<1>2. job.ends \in SUBSET Nat /\ IsFiniteSet(job.ends)
  BY <1>1, FS_Subset
<1>3. size \in Int /\ size # 0 /\ b \in Nat \ {0}
  BY LineCount
<1>4. LineAt(1) = 1
  <2>1. {q \in job.ends : q < 1} = {}
    BY <1>1
  <2> QED
    BY <2>1, FS_EmptySet DEF LineAt
<1>5. Lines(0, size) = 1..b
  BY <1>3, <1>4 DEF Lines
<1>6. ASSUME NEW l \in 1..b
      PROVE  LineStart(l) > from + 1 <=> \E q \in job.ends : LineAt(q) < l /\ from < q
  <2> DEFINE S == {0} \cup {q \in job.ends : LineAt(q) < l}
  <2>1. S \in SUBSET Int /\ S # {} /\ IsFiniteSet(S)
    <3>1. {q \in job.ends : LineAt(q) < l} \in SUBSET job.ends
      OBVIOUS
    <3>2. IsFiniteSet({q \in job.ends : LineAt(q) < l})
      BY <1>2, <3>1, FS_Subset
    <3>3. IsFiniteSet({0})
      BY FS_Singleton
    <3>4. IsFiniteSet(S)
      BY <3>2, <3>3, FS_Union
    <3> QED
      BY <1>2, <3>4
  <2> DEFINE x == Max(S)
  <2>2. x \in S /\ \A y \in S : y <= x
    BY <2>1, Extremes
  <2>3. LineStart(l) = 1 + x
    BY DEF LineStart
  <2> HIDE DEF x
  <2>4. x \in Int /\ (LineStart(l) > from + 1 <=> from < x)
    BY <2>1, <2>2, <2>3
  <2>5. ASSUME from < x PROVE \E q \in job.ends : LineAt(q) < l /\ from < q
    <3>1. x # 0
      BY <2>4, <2>5
    <3> QED
      BY <2>2, <2>5, <3>1
  <2>6. ASSUME NEW q \in job.ends, LineAt(q) < l, from < q PROVE from < x
    <3>1. q <= x /\ q \in Int
      BY <1>2, <2>2, <2>6
    <3> QED
      BY <2>4, <2>6, <3>1
  <2> QED
    BY <2>4, <2>5, <2>6
<1>7. \A q \in job.ends : q \in Int /\ LineAt(q) \in Nat /\ (size <= q => b <= LineAt(q))
  BY <1>2, <1>3, LineCount
<1>8. \A l : l \in whole <=> l \in 1..b /\ \E q \in ends : LineAt(q) < l
  <2>1. \A l : l \in whole <=> l \in 1..b /\ \E q \in job.ends : LineAt(q) < l /\ from < q
    BY <1>5, <1>6 DEF WholeLines
  <2>2. ASSUME NEW l \in 1..b, NEW q \in job.ends, LineAt(q) < l, from < q PROVE q \in ends
    <3>1. ~(size <= q)
      BY <1>3, <1>7, <2>2
    <3> QED
      BY <1>3, <1>7, <2>2, <3>1
  <2> HIDE DEF whole, b
  <2> QED
    BY <2>1, <2>2
<1>9. CASE ends = {}
  <2>1. D = {}
    BY <1>9 DEF DropPartialFirstLine
  <2>2. whole = {}
    <3> HIDE DEF ends, whole
    <3> QED
      BY <1>8, <1>9
  <2> QED
    BY <2>1, <2>2
<1>10. CASE ends # {}
  <2>1. ends \in SUBSET Int /\ IsFiniteSet(ends)
    BY <1>2, FS_Subset
  <2> DEFINE m == Min(ends)
  <2>2. m \in ends /\ \A y \in ends : m <= y
    BY <1>10, <2>1, Extremes
  <2>3. D = Lines(m, size)
    BY <1>10 DEF DropPartialFirstLine
  <2> HIDE DEF m, b, whole, D
  <2>4. m \in Int /\ m \in job.ends /\ m <= size
    BY <1>2, <2>2
  <2> HIDE DEF ends
  <2> DEFINE a == LineAt(m) + 1
  <2>5. a \in Nat \ {0} /\ a = LineAt(m + 1) /\ LineAt(m) \in Nat
    BY <2>4, LineCount
  <2>6. \A q \in ends : LineAt(m) <= LineAt(q) /\ LineAt(q) \in Nat
    <3> SUFFICES ASSUME NEW q \in ends PROVE LineAt(m) <= LineAt(q) /\ LineAt(q) \in Nat
      OBVIOUS
    <3>1. q \in Int /\ m <= q
      BY <2>1, <2>2
    <3> QED
      BY <2>4, <3>1, LineCount
  <2>7. \A l \in 1..b : (\E q \in ends : LineAt(q) < l) <=> a <= l
    BY <2>2, <2>5, <2>6
  <2>8. whole = a..b
    <3>1. \A l : l \in whole <=> l \in 1..b /\ a <= l
      BY <1>8, <2>7
    <3>2. \A l : l \in a..b <=> l \in 1..b /\ a <= l
      <4> HIDE DEF a
      <4>1. b \in Int /\ a \in Int /\ 1 <= a
        BY <1>3, <2>5 DEF b
      <4> QED
        BY <4>1
    <3> HIDE DEF a
    <3> QED
      BY <3>1, <3>2
  <2>9. CASE m = size
    <3>1. D = {} /\ a = b + 1
      BY <2>3, <2>9 DEF Lines, b
    <3> QED
      BY <1>3, <2>8, <3>1 DEF D, whole
  <2>10. CASE m # size
    <3>1. D = a..b
      BY <2>3, <2>5, <2>10 DEF Lines, b
    <3>2. a <= b
      <4>1. m + 1 \in Int /\ m + 1 <= size
        BY <1>3, <2>4, <2>10
      <4> QED
        BY <2>5, <4>1, <1>3, LineCount DEF b
    <3> QED
      BY <2>5, <2>8, <3>1, <3>2 DEF D, whole, b
  <2> QED
    BY <2>9, <2>10
<1> QED
  BY <1>9, <1>10

(* Of those, slice keeps the last so many.                                 *)
LEMMA KeptLast ==
  ASSUME NEW a \in Nat \ {0}, NEW b \in Nat \ {0}, a <= b, ask.tail \in Nat
  PROVE  LET kept == Kept(a..b)
         IN  /\ kept \in SUBSET (a..b)
             /\ kept # {} => Max(kept) = b
             /\ Cardinality(kept) = Least(ask.tail, Cardinality(a..b))
<1> DEFINE tail == ask.tail
           low == Greatest(a, b + 1 - Least(tail, b + 1))
<1>1. ASSUME NEW x \in Int, NEW y \in Int
      PROVE  /\ IsFiniteSet(x..y) /\ Cardinality(x..y) = IF x > y THEN 0 ELSE y - x + 1
             /\ x..y # {} => Min(x..y) = x /\ Max(x..y) = y
  <2>1. IsFiniteSet(x..y) /\ Cardinality(x..y) = IF x > y THEN 0 ELSE y - x + 1
    BY FS_Interval
  <2>2. ASSUME x..y # {} PROVE Min(x..y) = x /\ Max(x..y) = y
    <3>1. x \in x..y /\ y \in x..y
      BY <2>2
    <3> DEFINE S == x..y
    <3>2. S \in SUBSET Int /\ IsFiniteSet(S) /\ S # {}
      BY <2>1, <2>2
    <3> HIDE DEF S
    <3>3. /\ Min(S) \in S /\ \A z \in S : Min(S) <= z
          /\ Max(S) \in S /\ \A z \in S : z <= Max(S)
      BY <3>2, Extremes
    <3> DEFINE lo == Min(S)
               hi == Max(S)
    <3> HIDE DEF lo, hi
    <3>4. lo \in x..y /\ lo <= x /\ hi \in x..y /\ y <= hi
      BY <3>1, <3>3 DEF lo, hi, S
    <3>5. lo = x /\ hi = y
      BY <3>4
    <3> QED
      BY <3>5 DEF lo, hi, S
  <2> QED
    BY <2>1, <2>2
<1>2. a \in Int /\ b \in Int /\ a..b # {} /\ tail # All
  <2>1. a \in a..b
    OBVIOUS
  <2> QED
    BY <2>1 DEF All
<1>3. Min(a..b) = a /\ Max(a..b) = b /\ Cardinality(a..b) = b - a + 1
  <2>1. /\ Cardinality(a..b) = IF a > b THEN 0 ELSE b - a + 1
        /\ Min(a..b) = a /\ Max(a..b) = b
    BY <1>1, <1>2
  <2> QED
    BY <2>1
<1>4. Kept(a..b) = low..b
  BY <1>2, <1>3 DEF Kept, LastLines
<1>5. low \in Int /\ a <= low
      /\ (IF low > b THEN 0 ELSE b - low + 1) = Least(tail, b - a + 1)
  <2>1. CASE tail < b + 1
    <3>1. low = Greatest(a, b + 1 - tail)
      BY <2>1 DEF Least
    <3> QED
      BY <3>1 DEF Greatest, Least
  <2>2. CASE ~(tail < b + 1)
    <3>1. low = a
      BY <2>2 DEF Least, Greatest
    <3> QED
      BY <2>2, <3>1 DEF Least
  <2> QED
    BY <2>1, <2>2
<1> HIDE DEF low
<1>6. Cardinality(low..b) = Least(tail, b - a + 1) /\ (low..b # {} => Max(low..b) = b)
  BY <1>1, <1>2, <1>5
<1>7. low..b \in SUBSET (a..b)
  BY <1>5
<1> QED
  BY <1>3, <1>4, <1>6, <1>7

(* What each kind of reply holds.                                          *)
Refusals == {"invalid_params", "invalid_response", "unsupported_media", "response_too_large",
             "not_found", "connection", "unauthorized"}
MatchesReply(a) ==
  /\ a.kind = "matches" /\ Numbers(a.of)
  /\ a.grep = GrepLines(Text(a.of), NoiseMarkers, Context, MaxHits)
TailReply(a) ==
  /\ Start \in Nat /\ Start < size
  /\ a.lines = Kept(DropPartialFirstLine(Start, size)) /\ a.bytes = size - Start
  /\ a.moved \/ ~Changed
TextReply(a) ==
  /\ a.kind = "text"
  /\ probe = NoProbe \/ ask.tail = All \/ NeedsFullDecode \/ TailReply(a)
Tiered(tier, text, scan, location) ==
  LET died  == Matching(text, FatalMarkers)
      noise == Matching(text, NoiseMarkers)
      by(marks) == scan = ScanMarkers(text, marks, Context, MaxHits)
  IN /\ Len(text) \in Nat /\ DOMAIN text = 1..Len(text)
     /\ \/ tier = "tap" /\ by(TapMarkers) /\ location = Nowhere
        \/ tier = "custom" /\ by(NoiseMarkers) /\ location = Nowhere
        \/ /\ tier = "test_died" /\ by(FatalMarkers) /\ died # {}
           /\ location = DiedContext(text, Min(died), MaxFrames)
        \/ tier = "generic" /\ by(NoiseMarkers) /\ location = Nowhere /\ died = {}
        \/ /\ tier = "tail" /\ scan = TailHits(text, TailLines) /\ location = Nowhere
           /\ died = {} /\ noise = {}
ErrorsReply(a) == a.kind = "digest" /\ Tiered(a.tier, a.text, a.scan, a.location)
Looked(looked) ==
  /\ looked \in Seq({"image", "error"})
  /\ \A i \in DOMAIN looked : looked[i] = "image" => StepNeedles[i].path
NeedlesReply(a) ==
  /\ a.kind = "needles" /\ HasScreenshot /\ a.list = StepNeedles /\ Looked(a.looked)
  /\ Len(a.looked) = Least(ask.candidates, Len(StepNeedles))
FilesReply(a) == a.kind = "files" /\ Range(a.files) = Range(DetailsLogs(job.details))

Answers(a) ==
  \/ a.kind \in Refusals \cup {"members"}
  \/ MatchesReply(a) \/ TextReply(a) \/ ErrorsReply(a) \/ NeedlesReply(a) \/ FilesReply(a)

LogTools == {"get_job_log", "get_job_log_errors", "list_job_log_members"}
AnswerIInv ==
  /\ job \in Jobs /\ ask \in Asks
  /\ size \in 0..MaxSize /\ stamp \in Nat /\ stamp <= size /\ probe.size \in Nat
  /\ pc \in {"probe", "whole", "tail", "retry", "details", "serial", "screenshot", "needle",
             "downloads", "listing", "done"}
  /\ IF pc = "done" THEN Answers(answer) ELSE answer = NoAnswer
  /\ pc \in {"probe", "details", "serial"} => probe = NoProbe
  /\ pc \in {"probe", "whole"} => ask.tool \in LogTools
  /\ pc = "serial" => ask.tool = "get_job_log_errors"
  /\ pc = "whole" => ask.tool # "get_job_log" \/ NeedsFullDecode \/ ask.tail = All
  /\ pc \in {"screenshot", "needle"} => HasScreenshot
  /\ pc = "needle" => Looked(images)

(* The type invariant and each property of a reply follow from it.         *)
LEMMA AnswerTypes == AnswerIInv => TypeOK
<1> SUFFICES ASSUME AnswerIInv PROVE TypeOK
  OBVIOUS
<1>1. size \in 0..MaxSize /\ stamp \in 0..MaxSize
  <2>1. size \in 0..MaxSize /\ stamp \in Nat /\ stamp <= size /\ MaxSize \in Nat
    BY LimitAssumption DEF AnswerIInv
  <2> QED
    BY <2>1
<1>2. pc \in {"probe", "whole", "tail", "retry", "details", "serial", "screenshot", "needle",
             "downloads", "listing", "done"}
  BY DEF AnswerIInv
<1>3. (pc = "done") <=> (answer.kind # "none")
  BY DEF AnswerIInv, NoAnswer, Answers, Refusals, MatchesReply, TextReply, ErrorsReply, NeedlesReply, FilesReply
<1>4. ASSUME answer.kind = "matches" PROVE Range(answer.grep.hits) \subseteq 1..Cardinality(answer.of)
  <2>1. Answers(answer)
    BY <1>3, <1>4 DEF AnswerIInv
  <2>2. MatchesReply(answer)
    BY <1>4, <2>1 DEF Answers, Refusals, MatchesReply, TextReply, ErrorsReply, NeedlesReply, FilesReply
  <2>3. MaxHits \in Nat /\ IsFiniteSet(answer.of)
    BY <2>2, LimitAssumption DEF MatchesReply, Numbers
  <2> QED
    BY <2>2, <2>3, GrepInside DEF MatchesReply
<1> QED
  BY <1>1, <1>2, <1>3, <1>4 DEF TypeOK

(* A reply of a kind is what such a reply holds.                           *)
LEMMA OfKind ==
  ASSUME AnswerIInv
  PROVE  /\ answer.kind = "text" => TextReply(answer)
         /\ answer.kind = "digest" => ErrorsReply(answer)
         /\ answer.kind = "needles" => NeedlesReply(answer)
         /\ answer.kind = "files" => FilesReply(answer)
<1>1. answer.kind # "none" => Answers(answer)
  BY DEF AnswerIInv, NoAnswer
<1> QED
  BY <1>1 DEF Answers, Refusals, MatchesReply, TextReply, ErrorsReply, NeedlesReply, FilesReply

(* The files of a reply, whichever source it came from.                    *)
LEMMA AnswerFiles == AnswerIInv => SourcesAgree
BY OfKind DEF SourcesAgree, FilesReply

(* The candidates of a reply.                                              *)
LEMMA AnswerNeedles == AnswerIInv => NeedlesInOrder
<1> SUFFICES ASSUME AnswerIInv, answer.kind = "needles" PROVE NeedlesInOrder
  BY DEF NeedlesInOrder
<1>1. NeedlesReply(answer)
  BY OfKind
<1>2. job \in Jobs /\ ask \in Asks
  BY DEF AnswerIInv
<1>3. HasScreenshot /\ answer.list = StepNeedles /\ Looked(answer.looked)
      /\ Len(answer.looked) = Least(ask.candidates, Len(StepNeedles))
  BY <1>1 DEF NeedlesReply
<1>4. Len(StepNeedles) \in Nat /\ ask.candidates \in Nat /\ Len(answer.looked) \in Nat
      /\ DOMAIN answer.looked = 1..Len(answer.looked) /\ DOMAIN StepNeedles = 1..Len(StepNeedles)
  BY <1>2, <1>3, NeedlesFall, AskAssumption DEF Looked
<1>5. \A i, j \in DOMAIN StepNeedles : i < j =>
         \/ StepNeedles[i].matched
         \/ ~StepNeedles[j].matched /\ StepNeedles[i].score >= StepNeedles[j].score
  BY <1>2, <1>3, NeedlesFall
<1>6. \A i \in DOMAIN answer.looked : answer.looked[i] = "image" => StepNeedles[i].path
  BY <1>3 DEF Looked
<1> QED
  BY <1>3, <1>5, <1>6, Zenon DEF NeedlesInOrder

(* The digest of a reply.                                                  *)
LEMMA AnswerDigest == AnswerIInv => DigestHonest
<1> SUFFICES ASSUME AnswerIInv, answer.kind = "digest" PROVE DigestHonest
  BY DEF DigestHonest
<1> DEFINE text == answer.text
           tier == answer.tier
           hits == answer.scan.hits
           found(marks) == Matching(text, marks)
           stack == answer.location.stack
           rises == \A i \in 1..Len(hits) - 1 : hits[i] < hits[i + 1]
           covers(marks) == /\ Range(hits) = UNION {Around(text, i, Context) : i \in FirstOf(found(marks), MaxHits)}
                            /\ answer.scan.count = Cardinality(found(marks))
           budget == Len(hits) <= Greatest(TailLines, (2 * Context + 1) * MaxHits)
           frames == \A f \in stack : text[f] \notin Timestamped
<1>1. Tiered(tier, text, answer.scan, answer.location)
  BY OfKind DEF ErrorsReply
<1>2. MaxHits \in Nat /\ TailLines \in Nat /\ MaxFrames \in Nat
  BY LimitAssumption
<1>3. Len(text) \in Nat /\ DOMAIN text = 1..Len(text)
  BY <1>1 DEF Tiered
<1>4. ASSUME NEW marks, answer.scan = ScanMarkers(text, marks, Context, MaxHits)
      PROVE  rises /\ covers(marks) /\ budget
  <2>1. Exactly(hits, text, marks, MaxHits)
    BY <1>2, <1>3, <1>4, ScanExact
  <2>2. answer.scan.count = Cardinality(found(marks))
    <3>1. ScanMarkers(text, marks, Context, MaxHits).count = Cardinality(found(marks))
      BY DEF ScanMarkers
    <3> QED
      BY <1>4, <3>1
  <2>3. Len(hits) \in Nat /\ Len(hits) <= 3 * MaxHits
    BY <2>1 DEF Exactly
  <2>4. budget
    <3> DEFINE n == Len(hits)
    <3> HIDE DEF n
    <3> QED
      BY <1>2, <2>3 DEF Greatest, Context, n
  <2> QED
    BY <2>1, <2>2, <2>4 DEF Exactly
<1>5. ASSUME answer.scan = TailHits(text, TailLines) PROVE rises /\ budget
  <2>1. rises /\ Len(hits) \in Nat /\ Len(hits) <= TailLines
    BY <1>2, <1>3, <1>5, TailExact
  <2>2. budget
    <3> DEFINE n == Len(hits)
    <3> HIDE DEF n
    <3> QED
      BY <1>2, <2>1 DEF Greatest, Context, n
  <2> QED
    BY <2>1, <2>2
<1>6. answer.location = Nowhere => frames
  BY DEF Nowhere
<1>7. ASSUME found(FatalMarkers) # {}, answer.location = DiedContext(text, Min(found(FatalMarkers)), MaxFrames)
      PROVE  frames
  <2>1. found(FatalMarkers) \in SUBSET (1..Len(text)) /\ found(FatalMarkers) \in SUBSET Int
        /\ IsFiniteSet(found(FatalMarkers))
    BY <1>3, MatchesInside
  <2>2. Min(found(FatalMarkers)) \in Nat \ {0}
    <3>1. Min(found(FatalMarkers)) \in found(FatalMarkers)
      BY <1>7, <2>1, Extremes
    <3>2. 1..Len(text) \in SUBSET (Nat \ {0})
      BY <1>3
    <3> HIDE DEF found
    <3> QED
      BY <2>1, <3>1, <3>2
  <2> QED
    BY <1>2, <1>3, <1>7, <2>2, StackUnstamped
<1> HIDE DEF rises, covers, budget, frames, found
<1>8. \/ tier = "tap" /\ rises /\ covers(TapMarkers) /\ budget /\ frames
      \/ tier = "custom" /\ rises /\ covers(NoiseMarkers) /\ budget /\ frames
      \/ tier = "test_died" /\ rises /\ covers(FatalMarkers) /\ budget /\ frames
      \/ tier = "generic" /\ rises /\ covers(NoiseMarkers) /\ budget /\ frames /\ found(FatalMarkers) = {}
      \/ tier = "tail" /\ rises /\ budget /\ frames /\ found(FatalMarkers) = {} /\ found(NoiseMarkers) = {}
  BY <1>1, <1>4, <1>5, <1>6, <1>7 DEF Tiered, found
<1>9. rises /\ budget /\ frames
  BY <1>8
<1>10. tier # "tail" => covers(Marks(tier))
  BY <1>8 DEF Marks
<1>11. (tier \in {"generic", "tail"} => found(FatalMarkers) = {}) /\ (tier = "tail" => found(NoiseMarkers) = {})
  BY <1>8
<1> QED
  BY <1>9, <1>10, <1>11, Zenon DEF DigestHonest, rises, covers, budget, frames, found

(* The tail of a reply.                                                    *)
LEMMA AnswerTail == AnswerIInv => TailIsCurrent
<1> SUFFICES ASSUME AnswerIInv, answer.kind = "text", probe # NoProbe, ask.tail # All, ~NeedsFullDecode
             PROVE  TailIsCurrent
  BY DEF TailIsCurrent
<1>1. TailReply(answer)
  BY OfKind DEF TextReply
<1>2. job \in Jobs /\ ask \in Asks /\ size \in Nat /\ ask.tail \in Nat
  BY AskAssumption, LimitAssumption DEF AnswerIInv
<1>3. Start \in Nat /\ Start < size /\ answer.bytes = size - Start
      /\ answer.lines = Kept(DropPartialFirstLine(Start, size)) /\ (answer.moved \/ ~Changed)
  BY <1>1 DEF TailReply
<1> DEFINE from == size - answer.bytes
           whole == WholeLines(Start)
           kept == answer.lines
           b == LineAt(size)
<1>4. from = Start
  BY <1>2, <1>3
<1>5. DropPartialFirstLine(Start, size) = whole
      /\ (whole = {} \/ \E a \in Nat \ {0} : a <= b /\ whole = a..b)
  BY <1>2, <1>3, DropLeavesWhole
<1>6. b \in Nat \ {0}
  BY <1>2, LineCount
<1> HIDE DEF whole, b
<1>7. /\ kept \in SUBSET whole /\ (kept # {} => Max(kept) = b)
      /\ Cardinality(kept) = Least(ask.tail, Cardinality(whole))
  <2>1. CASE whole = {}
    <3>1. kept = {}
      BY <1>3, <1>5, <2>1 DEF Kept
    <3>2. Cardinality({}) = 0
      BY FS_EmptySet
    <3> QED
      BY <1>2, <2>1, <3>1, <3>2 DEF Least
  <2>2. CASE whole # {}
    <3>1. PICK a \in Nat \ {0} : a <= b /\ whole = a..b
      BY <1>5, <2>2
    <3>2. kept = Kept(a..b)
      BY <1>3, <1>5, <3>1
    <3> QED
      BY <1>2, <1>6, <3>1, <3>2, KeptLast
  <2> QED
    BY <2>1, <2>2
<1>8. probe.at # size => answer.moved \/ ~job.stamped \/ stamp = probe.stamp
  BY <1>3 DEF Changed
<1>9. whole = {l \in Lines(0, size) : LineStart(l) > from + 1}
  BY <1>4 DEF whole, WholeLines
<1> HIDE DEF from, kept
<1> QED
  BY <1>7, <1>8, <1>9, Zenon DEF TailIsCurrent, b, from, kept

(* The end of a request that answers the call.                             *)
Ends == pc' = "done" /\ probe' = probe /\ Answers(answer')

(* A refusal answers.                                                      *)
LEMMA BailEnds == ASSUME NEW kind \in Refusals, Bail(kind) PROVE Ends
BY DEF Bail, Reply, Ends, Answers

(* slice, of a whole file or of a tail.                                    *)
Sliceable(lines, bytes, moved) ==
  /\ Numbers(lines)
  /\ \/ probe = NoProbe \/ ask.tail = All \/ NeedsFullDecode
     \/ /\ Start \in Nat /\ Start < size
        /\ lines = DropPartialFirstLine(Start, size) /\ bytes = size - Start
        /\ moved \/ ~Changed
(* slice answers with the text, its matches or a refusal.                  *)
LEMMA SliceEnds ==
  ASSUME ask \in Asks, NEW lines, NEW bytes, NEW total, NEW moved, Sliceable(lines, bytes, moved),
         Slice(lines, bytes, total, moved)
  PROVE  Ends
<1>1. ask.grep \in {"none", "invalid", "noise"} /\ Numbers(Kept(lines))
  BY AskAssumption, KeptNumbers DEF Sliceable
<1>2. CASE ask.grep = "none"
  <2> DEFINE a == [kind |-> "text", lines |-> Kept(lines), bytes |-> bytes, size |-> total, moved |-> moved]
  <2>1. pc' = "done" /\ probe' = probe /\ answer' = a
    BY <1>2 DEF Slice, Reply, Kept
  <2>2. /\ a.kind = "text" /\ a.lines = Kept(lines) /\ a.bytes = bytes /\ a.moved = moved
    OBVIOUS
  <2> HIDE DEF a
  <2>3. TextReply(a)
    BY <2>2 DEF TextReply, TailReply, Sliceable
  <2> QED
    BY <2>1, <2>3 DEF Ends, Answers
<1>3. CASE ask.grep = "invalid"
  <2>1. Bail("invalid_params")
    BY <1>3 DEF Slice
  <2> QED
    BY <2>1, BailEnds DEF Refusals
<1>4. CASE ask.grep = "noise"
  <2> DEFINE k == Kept(lines)
             a == [kind |-> "matches", of |-> k, grep |-> GrepLines(Text(k), NoiseMarkers, Context, MaxHits)]
  <2>1. pc' = "done" /\ probe' = probe /\ answer' = a
    BY <1>4 DEF Slice, Reply, Kept
  <2>2. a.kind = "matches" /\ a.of = k /\ a.grep = GrepLines(Text(k), NoiseMarkers, Context, MaxHits)
    OBVIOUS
  <2> HIDE DEF a
  <2>3. MatchesReply(a)
    BY <1>1, <2>2 DEF MatchesReply
  <2> QED
    BY <2>1, <2>3 DEF Ends, Answers
<1> QED
  BY <1>1, <1>2, <1>3, <1>4

(* get_job_log_errors.                                                     *)
LEMMA TierEnds ==
  ASSUME NEW tier, NEW text, NEW scan, NEW location, Tiered(tier, text, scan, location),
         DigestReply(tier, text, scan, location)
  PROVE  Ends
<1>1. PICK a : /\ a.kind = "digest" /\ a.tier = tier /\ a.text = text /\ a.scan = scan
               /\ a.location = location /\ Reply(a)
  <2> DEFINE a == [kind |-> "digest", tier |-> tier, text |-> text, scan |-> scan, location |-> location,
                   modules |-> IF known = <<>> THEN <<>> ELSE FailedModules(known[1])]
  <2>1. Reply(a)
    BY DEF DigestReply
  <2>2. a.kind = "digest" /\ a.tier = tier /\ a.text = text /\ a.scan = scan /\ a.location = location
    OBVIOUS
  <2> HIDE DEF a
  <2> QED
    BY <2>1, <2>2
<1>2. ErrorsReply(a)
  BY <1>1 DEF ErrorsReply
<1> QED
  BY <1>1, <1>2 DEF Reply, Ends, Answers
(* The digest is of the tier that the text falls in.                       *)
LEMMA DigestEnds ==
  ASSUME NEW lines, IsFiniteSet(lines), Digest(Text(lines)) PROVE Ends
<1> DEFINE text == Text(lines)
           died == Matching(text, FatalMarkers)
           noise == Matching(text, NoiseMarkers)
           scan(marks) == ScanMarkers(text, marks, Context, MaxHits)
           at == DiedContext(text, Min(died), MaxFrames)
<1>1. Len(text) \in Nat /\ DOMAIN text = 1..Len(text)
  BY TextLength
<1>2. Digest(text)
  OBVIOUS
<1> HIDE DEF text
<1>3. scan(FatalMarkers).count = Cardinality(died) /\ scan(NoiseMarkers).count = Cardinality(noise)
  BY DEF ScanMarkers
<1>4. \A S \in {died, noise} : IsFiniteSet(S) /\ Cardinality(S) \in Nat /\ (S = {} <=> Cardinality(S) = 0)
  BY <1>1, MatchesInside, FS_EmptySet, FS_CardinalityType
<1> HIDE DEF scan, died, noise, at
<1>5. CASE ask.markers
  <2>1. DigestReply("custom", text, scan(NoiseMarkers), Nowhere)
    BY <1>2, <1>5 DEF Digest, scan
  <2>2. Tiered("custom", text, scan(NoiseMarkers), Nowhere)
    BY <1>1 DEF Tiered, scan
  <2> QED
    BY <2>1, <2>2, TierEnds
<1>6. CASE ~ask.markers /\ scan(FatalMarkers).count > 0
  <2>1. DigestReply("test_died", text, scan(FatalMarkers), at)
    BY <1>2, <1>6 DEF Digest, scan, at, died
  <2>2. died # {}
    BY <1>3, <1>4, <1>6
  <2>3. Tiered("test_died", text, scan(FatalMarkers), at)
    BY <1>1, <2>2 DEF Tiered, scan, at, died
  <2> QED
    BY <2>1, <2>3, TierEnds
<1>7. CASE ~ask.markers /\ scan(FatalMarkers).count = 0 /\ scan(NoiseMarkers).count > 0
  <2>1. DigestReply("generic", text, scan(NoiseMarkers), Nowhere)
    BY <1>2, <1>7 DEF Digest, scan
  <2>2. died = {}
    BY <1>3, <1>4, <1>7
  <2>3. Tiered("generic", text, scan(NoiseMarkers), Nowhere)
    BY <1>1, <2>2 DEF Tiered, scan, died
  <2> QED
    BY <2>1, <2>3, TierEnds
<1>8. CASE ~ask.markers /\ ~(scan(FatalMarkers).count > 0)
           /\ ~(scan(FatalMarkers).count = 0 /\ scan(NoiseMarkers).count > 0)
  <2>1. DigestReply("tail", text, TailHits(text, TailLines), Nowhere)
    BY <1>2, <1>8 DEF Digest, scan
  <2>2. died = {} /\ noise = {}
    BY <1>3, <1>4, <1>8
  <2>3. Tiered("tail", text, TailHits(text, TailLines), Nowhere)
    BY <1>1, <2>2 DEF Tiered, died, noise
  <2> QED
    BY <2>1, <2>3, TierEnds
<1> QED
  BY <1>5, <1>6, <1>7, <1>8

(* A tool that has the whole file.                                         *)
Whole == /\ job \in Jobs /\ ask \in Asks /\ size \in Int /\ ask.tool \in LogTools
         /\ ask.tool = "get_job_log" => probe = NoProbe \/ ask.tail = All \/ NeedsFullDecode
(* What slice is given of a whole file.                                    *)
LEMMA WholeSlice ==
  ASSUME Whole, ask.tool = "get_job_log", NEW bytes PROVE Sliceable(Lines(0, size), bytes, FALSE)
<1>1. Numbers(Lines(0, size))
  BY LinesNumbers DEF Whole
<1> QED
  BY <1>1 DEF Whole, Sliceable
(* Members, digest and text of what was unpacked.                          *)
LEMMA UseWholeEnds == ASSUME Whole, NEW bytes, UseWhole(bytes) PROVE Ends
<1>1. ASSUME Members(bytes) PROVE Ends
  <2>1. CASE IsTar
    BY <1>1, <2>1 DEF Members, Reply, Ends, Answers
  <2>2. CASE ~IsTar
    BY <1>1, <2>2, BailEnds DEF Members, Refusals
  <2> QED
    BY <2>1, <2>2
<1>2. ASSUME Digest(Text(Lines(0, size))) PROVE Ends
  <2>1. IsFiniteSet(Lines(0, size))
    BY LinesNumbers DEF Whole, Numbers
  <2> QED
    BY <1>2, <2>1, DigestEnds
<1>3. ASSUME Extracted(bytes), ask.tool = "get_job_log" PROVE Ends
  <2>1. \/ \E kind \in {"invalid_response", "invalid_params", "unsupported_media"} : Bail(kind)
        \/ \E total : Slice(Lines(0, size), bytes, total, FALSE)
    BY <1>3, Zenon DEF Extracted
  <2>2. ask \in Asks /\ Sliceable(Lines(0, size), bytes, FALSE)
    BY <1>3, WholeSlice DEF Whole
  <2> QED
    BY <2>1, <2>2, BailEnds, SliceEnds DEF Refusals
<1>4. CASE ask.tool = "list_job_log_members"
  BY <1>1, <1>4 DEF UseWhole
<1>5. CASE ask.tool = "get_job_log_errors"
  <2>1. Bail("invalid_params") \/ Digest(Text(Lines(0, size)))
    BY <1>5 DEF UseWhole
  <2> QED
    BY <1>2, <2>1, BailEnds DEF Refusals
<1>6. CASE ask.tool = "get_job_log"
  BY <1>3, <1>6 DEF UseWhole
<1> QED
  BY <1>4, <1>5, <1>6 DEF Whole, LogTools
(* A whole file that came is used or refused.                              *)
LEMMA WholeFileEnds == ASSUME Whole, WholeFile PROVE Ends
<1>1. CASE size > ask.ceiling
  BY <1>1, BailEnds DEF WholeFile, Refusals
<1>2. CASE ~(size > ask.ceiling) /\ ask.tool = "get_job_log" /\ ~NeedsFullDecode
  <2>1. Slice(Lines(0, size), size, TotalSize(size), FALSE) \/ Bail("unsupported_media")
    BY <1>2 DEF WholeFile
  <2>2. ask \in Asks /\ Sliceable(Lines(0, size), size, FALSE)
    BY <1>2, WholeSlice DEF Whole
  <2> QED
    BY <2>1, <2>2, SliceEnds, BailEnds DEF Refusals
<1>3. CASE Decompress
  <2>1. \/ \E kind \in {"invalid_response", "response_too_large"} : Bail(kind)
        \/ UseWhole(Unpacked(size))
    BY <1>3 DEF Decompress
  <2> QED
    BY <2>1, BailEnds, UseWholeEnds DEF Refusals
<1> QED
  BY <1>1, <1>2, <1>3 DEF WholeFile

(* A part of the file.                                                     *)
LEMMA TailEnds ==
  ASSUME job \in Jobs, ask \in Asks, size \in Int, probe.size \in Int, NEW moved, moved \/ ~Changed,
         TailText(moved)
  PROVE  Ends
<1>1. /\ ask.ceiling \in Int /\ ask.tail \in Int /\ BytesPerLine \in Int /\ MinWindow \in Int
  BY AskAssumption, LimitAssumption DEF All
<1>2. TailWindow \in Int
  <2>1. ask.tail * BytesPerLine \in Int
    BY <1>1
  <2>2. Greatest(ask.tail * BytesPerLine, MinWindow) \in Int
    BY <1>1, <2>1 DEF Greatest
  <2> QED
    BY <1>1, <2>2 DEF TailWindow, Least
<1>3. Start \in Nat
  BY <1>2 DEF Start, Greatest
<1>4. \/ \E kind \in {"not_found", "response_too_large", "unsupported_media"} : Bail(kind)
      \/ /\ ~(Start >= size)
         /\ \E total : Slice(DropPartialFirstLine(Start, size), size - Start, total, moved)
  BY Zenon DEF TailText
<1>5. CASE \E kind \in {"not_found", "response_too_large", "unsupported_media"} : Bail(kind)
  BY <1>5, BailEnds DEF Refusals
<1>6. CASE /\ ~(Start >= size)
           /\ \E total : Slice(DropPartialFirstLine(Start, size), size - Start, total, moved)
  <2>1. Start < size /\ Start \in Int
    BY <1>3, <1>6
  <2>2. Sliceable(DropPartialFirstLine(Start, size), size - Start, moved)
    BY <1>3, <2>1, LinesNumbers DEF Sliceable
  <2> QED
    BY <1>6, <2>2, SliceEnds
<1> QED
  BY <1>4, <1>5, <1>6

(* The candidates looked at.                                               *)
LEMMA NeedleEnds ==
  ASSUME HasScreenshot, NEW looked, Looked(looked), NeedleReply(looked)
  PROVE  \/ Ends
         \/ pc' = "needle" /\ UNCHANGED <<probe, answer>>
<1>1. CASE Len(looked) = Least(ask.candidates, Len(StepNeedles))
  <2> DEFINE a == [kind |-> "needles", list |-> StepNeedles, looked |-> looked]
  <2>1. pc' = "done" /\ answer' = a /\ probe' = probe
    BY <1>1 DEF NeedleReply
  <2>2. a.kind = "needles" /\ a.list = StepNeedles /\ a.looked = looked
    OBVIOUS
  <2> HIDE DEF a
  <2>3. NeedlesReply(a)
    BY <1>1, <2>2 DEF NeedlesReply
  <2> QED
    BY <2>1, <2>3 DEF Ends, Answers
<1>2. CASE ~(Len(looked) = Least(ask.candidates, Len(StepNeedles)))
  BY <1>2 DEF NeedleReply
<1> QED
  BY <1>1, <1>2

(* A reply stays what it is while the log, the probe and the call do.      *)
LEMMA AnswersStay ==
  ASSUME UNCHANGED <<job, size, stamp, ask, probe>>, Answers(answer')
  PROVE  Answers(answer)'
<1>1. job' = job /\ size' = size /\ stamp' = stamp /\ ask' = ask /\ probe' = probe
  OBVIOUS
<1>2. TailWindow' = TailWindow
  BY <1>1 DEF TailWindow
<1>3. Start' = Start
  BY <1>1, <1>2 DEF Start
<1>4. (Changed' <=> Changed) /\ (NeedsFullDecode' <=> NeedsFullDecode)
  BY <1>1 DEF Changed, NeedsFullDecode
<1> DEFINE s == Start
<1>5. DropPartialFirstLine(Start, size)' = DropPartialFirstLine(Start, size)
  BY <1>1, <1>3, Zenon DEF DropPartialFirstLine, Lines, LineAt
<1>6. Kept(DropPartialFirstLine(Start, size))' = Kept(DropPartialFirstLine(Start, size))
  BY <1>1, <1>5, Zenon DEF Kept
<1>7. StepOf' = StepOf
  BY <1>1 DEF StepOf
<1>8. (HasScreenshot' <=> HasScreenshot) /\ StepNeedles' = StepNeedles
  BY <1>1, <1>7, Zenon DEF HasScreenshot, StepNeedles
<1>9. MatchesReply(answer') => MatchesReply(answer)'
  BY <1>1, Zenon DEF MatchesReply, Text
<1>10. TailReply(answer') => TailReply(answer)'
  BY <1>1, <1>3, <1>4, <1>6 DEF TailReply
<1>11. TextReply(answer') => TextReply(answer)'
  BY <1>1, <1>4, <1>10 DEF TextReply
<1>12. ErrorsReply(answer') => ErrorsReply(answer)'
  BY DEF ErrorsReply
<1>13. NeedlesReply(answer') => NeedlesReply(answer)'
  BY <1>1, <1>8 DEF NeedlesReply, Looked
<1>14. FilesReply(answer') => FilesReply(answer)'
  BY <1>1 DEF FilesReply
<1> QED
  BY <1>9, <1>11, <1>12, <1>13, <1>14 DEF Answers

(* No call is answered when it starts.                                     *)
LEMMA AnswerInit == Init => AnswerIInv
<1> SUFFICES ASSUME Init PROVE AnswerIInv
  OBVIOUS
<1>1. /\ job \in Jobs /\ ask \in Asks /\ size = job.size /\ stamp = 0 /\ probe = NoProbe
      /\ answer = NoAnswer
      /\ pc = CASE ask.tool = "list_job_logs" -> "downloads"
                [] ask.tool \in {"get_job_log_errors", "get_step_needles"} -> "details"
                [] OTHER -> "probe"
  BY DEF Init
<1>2. /\ ask.tool \in {"get_job_log", "get_job_log_errors", "list_job_log_members",
                       "list_job_logs", "get_step_needles"}
      /\ size \in 0..MaxSize /\ MaxSize \in Nat
  BY <1>1, JobAssumption, AskAssumption, LimitAssumption
<1>3. pc \in {"downloads", "details", "probe"} /\ (pc = "probe" => ask.tool \in LogTools)
  BY <1>1, <1>2 DEF LogTools
<1>4. stamp \in Nat /\ stamp <= size /\ probe.size \in Nat
  BY <1>1, <1>2 DEF NoProbe
<1> QED
  BY <1>1, <1>2, <1>3, <1>4 DEF AnswerIInv

(* A step that answers the call.                                           *)
LEMMA EndKeeps ==
  ASSUME AnswerIInv, UNCHANGED <<job, size, stamp, ask>>, Ends PROVE AnswerIInv'
<1>1. pc' = "done" /\ probe' = probe /\ Answers(answer')
  BY DEF Ends
<1>2. Answers(answer)'
  BY <1>1, AnswersStay
<1>3. /\ job' \in Jobs /\ ask' \in Asks
      /\ size' \in 0..MaxSize /\ stamp' \in Nat /\ stamp' <= size' /\ probe'.size \in Nat
  BY <1>1 DEF AnswerIInv
<1> QED
  BY <1>1, <1>2, <1>3 DEF AnswerIInv

(* What holds of the request that the tool is at.                          *)
Going ==
  /\ pc \in {"probe", "whole", "tail", "retry", "details", "serial", "screenshot", "needle",
             "downloads", "listing"}
  /\ pc \in {"probe", "details", "serial"} => probe = NoProbe
  /\ pc \in {"probe", "whole"} => ask.tool \in LogTools
  /\ pc = "serial" => ask.tool = "get_job_log_errors"
  /\ pc = "whole" => ask.tool # "get_job_log" \/ NeedsFullDecode \/ ask.tail = All
  /\ pc \in {"screenshot", "needle"} => HasScreenshot
  /\ pc = "needle" => Looked(images)
(* A step that goes on to another request.                                 *)
LEMMA GoingKeeps ==
  ASSUME AnswerIInv, pc # "done", UNCHANGED <<job, ask, answer>>, Going',
         size' \in 0..MaxSize, stamp' \in Nat, stamp' <= size', probe'.size \in Nat
  PROVE  AnswerIInv'
<1>1. job' \in Jobs /\ ask' \in Asks /\ answer' = NoAnswer
  BY DEF AnswerIInv
<1>2. pc' # "done"
  BY DEF Going
<1> QED
  BY <1>1, <1>2 DEF AnswerIInv, Going

(* Every request keeps the invariant.                                      *)
LEMMA AnswerNext == AnswerIInv /\ [Next]_vars => AnswerIInv'
<1> SUFFICES ASSUME AnswerIInv, [Next]_vars PROVE AnswerIInv'
  OBVIOUS
<1>0. /\ job \in Jobs /\ ask \in Asks /\ size \in Nat /\ size \in 0..MaxSize /\ MaxSize \in Nat
      /\ stamp \in Nat /\ stamp <= size /\ probe.size \in Nat /\ probe.size \in Int
  BY LimitAssumption DEF AnswerIInv
<1>1. ASSUME UNCHANGED <<job, size, stamp, ask>>,
             pc # "done", UNCHANGED <<probe, answer>>, Going' PROVE AnswerIInv'
  BY <1>0, <1>1, GoingKeeps
<1>2. ASSUME UNCHANGED <<job, size, stamp, ask>>, NEW kinds \in SUBSET Refusals,
             \E kind \in kinds : Bail(kind) PROVE AnswerIInv'
  BY <1>2, BailEnds, EndKeeps
<1>3. (HasScreenshot' <=> HasScreenshot) \/ job' # job \/ ask' # ask
  BY DEF HasScreenshot, StepOf
<1>4. ask' = ask => (NeedsFullDecode' <=> NeedsFullDecode) \/ job' # job
  BY DEF NeedsFullDecode
<1>5. ASSUME job' = job, ask' = ask PROVE StepNeedles' = StepNeedles
  BY <1>5 DEF StepNeedles, StepOf
<1>6. CASE Grow
  <2>1. PICK n \in 1..2 : size + n <= MaxSize /\ size' = size + n
    BY <1>6 DEF Grow
  <2>2. stamp' \in {stamp, stamp + 1} /\ pc # "done" /\ UNCHANGED <<job, pc, ask, probe, images, answer>>
    BY <1>6 DEF Grow
  <2>3. size' \in 0..MaxSize /\ stamp' \in Nat /\ stamp' <= size'
    BY <1>0, <2>1, <2>2
  <2>4. Looked(images)' <=> Looked(images)
    BY <1>5, <2>2 DEF Looked
  <2>5. Going'
    BY <1>3, <1>4, <2>2, <2>4 DEF Going, AnswerIInv
  <2> QED
    BY <1>0, <2>2, <2>3, <2>5, GoingKeeps
<1>7. CASE ProbeWhole \/ FetchAll
  <2>1. WholeFile /\ UNCHANGED <<job, size, stamp, ask>> /\ pc \in {"probe", "whole"}
    BY <1>7 DEF ProbeWhole, FetchAll
  <2>2. Whole
    BY <1>0, <2>1 DEF Whole, AnswerIInv
  <2> QED
    BY <2>1, <2>2, WholeFileEnds, EndKeeps
<1>8. CASE ProbeHead
  <2>1. /\ probe' = [size |-> IF job.sized THEN size ELSE 0, sized |-> job.sized, stamp |-> stamp, at |-> size]
        /\ pc' = IF ask.tool = "get_job_log" /\ ~NeedsFullDecode /\ ask.tail # All THEN "tail" ELSE "whole"
        /\ pc = "probe" /\ UNCHANGED <<job, size, stamp, ask, known, images, answer>>
    BY <1>8 DEF ProbeHead
  <2>2. probe'.size \in Nat
    BY <1>0, <2>1
  <2>3. ask.tool \in LogTools /\ pc # "done"
    BY <2>1 DEF AnswerIInv
  <2>4. Going'
    BY <1>4, <2>1, <2>3 DEF Going
  <2> QED
    BY <1>0, <2>1, <2>2, <2>3, <2>4, GoingKeeps
<1>9. CASE FetchTail
  <2>1. pc = "tail" /\ UNCHANGED <<job, size, stamp, ask>>
    BY <1>9 DEF FetchTail
  <2>2. CASE Changed
    <3>1. pc' = "retry" /\ UNCHANGED <<probe, answer>>
      BY <1>9, <2>2 DEF FetchTail
    <3>2. Going'
      BY <3>1 DEF Going
    <3> QED
      BY <1>1, <2>1, <3>1, <3>2
  <2>3. CASE ~Changed
    <3> DEFINE moved == FALSE
    <3>1. TailText(moved)
      BY <1>9, <2>3 DEF FetchTail
    <3>2. moved \/ ~Changed
      BY <2>3
    <3> HIDE DEF moved
    <3>3. Ends
      BY <1>0, <3>1, <3>2, TailEnds
    <3> QED
      BY <2>1, <3>3, EndKeeps
  <2> QED
    BY <2>2, <2>3
<1>10. CASE RetryTail
  <2>1. TailText(Changed) /\ UNCHANGED <<job, size, stamp, ask>>
    BY <1>10 DEF RetryTail
  <2>2. Changed \/ ~Changed
    OBVIOUS
  <2>3. Ends
    BY <1>0, <2>1, <2>2, TailEnds
  <2> QED
    BY <2>1, <2>3, EndKeeps
<1>11. CASE FetchFails
  BY <1>2, <1>11 DEF FetchFails, Failures, Refusals
<1>12. CASE DigestDetails
  <2>1. /\ pc = "details" /\ ask.tool = "get_job_log_errors" /\ pc' = AfterDetails(known')
        /\ UNCHANGED <<job, size, stamp, ask, probe, images, answer>>
    BY <1>12 DEF DigestDetails
  <2>2. pc' \in {"serial", "probe"}
    BY <2>1 DEF AfterDetails
  <2>3. probe = NoProbe /\ pc # "done"
    BY <2>1 DEF AnswerIInv
  <2>4. Going'
    BY <2>1, <2>2, <2>3 DEF Going, LogTools
  <2> QED
    BY <1>1, <2>1, <2>3, <2>4
<1>13. CASE Serial
  <2>1. pc = "serial" /\ UNCHANGED <<job, size, stamp, ask>>
    BY <1>13 DEF Serial
  <2>2. /\ probe = NoProbe /\ ask.tool = "get_job_log_errors" /\ pc # "done"
    BY <2>1 DEF AnswerIInv
  <2> DEFINE scan == ScanMarkers(job.serial, TapMarkers, Context, MaxHits)
  <2>3. \/ DigestReply("tap", job.serial, scan, Nowhere)
        \/ pc' = "probe" /\ UNCHANGED <<probe, answer>>
        \/ \E kind \in Failures : Bail(kind)
    BY <1>13, Zenon DEF Serial
  <2>4. CASE DigestReply("tap", job.serial, scan, Nowhere)
    <3>1. job.serial \in Seq(Classes)
      BY <1>0, JobAssumption
    <3>2. Len(job.serial) \in Nat /\ DOMAIN job.serial = 1..Len(job.serial)
      BY <3>1
    <3>3. Tiered("tap", job.serial, scan, Nowhere)
      BY <3>2 DEF Tiered
    <3> HIDE DEF scan
    <3> QED
      BY <2>1, <2>4, <3>3, TierEnds, EndKeeps
  <2>5. CASE pc' = "probe" /\ UNCHANGED <<probe, answer>>
    <3>1. Going'
      BY <2>1, <2>2, <2>5 DEF Going, LogTools
    <3> QED
      BY <1>1, <2>1, <2>2, <2>5, <3>1
  <2>6. CASE \E kind \in Failures : Bail(kind)
    BY <1>2, <2>1, <2>6 DEF Failures, Refusals
  <2> QED
    BY <2>3, <2>4, <2>5, <2>6
<1>14. CASE NeedleDetails
  <2>1. pc = "details" /\ UNCHANGED <<job, size, stamp, ask>>
    BY <1>14 DEF NeedleDetails
  <2>2. \/ \E kind \in Failures : Bail(kind)
        \/ \E kind \in {"not_found"} : Bail(kind)
        \/ HasScreenshot /\ pc' = "screenshot" /\ UNCHANGED <<probe, answer>>
    BY <1>14, Zenon DEF NeedleDetails
  <2>3. CASE HasScreenshot /\ pc' = "screenshot" /\ UNCHANGED <<probe, answer>>
    <3>1. Going'
      BY <1>3, <2>1, <2>3 DEF Going
    <3> QED
      BY <1>1, <2>1, <2>3, <3>1
  <2> QED
    BY <1>2, <2>1, <2>2, <2>3 DEF Failures, Refusals
<1>15. ASSUME UNCHANGED <<job, size, stamp, ask>>, pc # "done", HasScreenshot,
              Looked(images'), NeedleReply(images')
       PROVE  AnswerIInv'
  <2>1. CASE Ends
    BY <1>15, <2>1, EndKeeps
  <2>2. CASE pc' = "needle" /\ UNCHANGED <<probe, answer>>
    <3>1. Looked(images)'
      BY <1>5, <1>15 DEF Looked
    <3>2. Going'
      BY <1>3, <1>15, <2>2, <3>1 DEF Going
    <3> QED
      BY <1>1, <1>15, <2>2, <3>2
  <2> QED
    BY <1>15, <2>1, <2>2, NeedleEnds
<1>16. CASE Screenshot
  <2>1. pc = "screenshot" /\ HasScreenshot /\ UNCHANGED <<job, size, stamp, ask>>
    BY <1>16 DEF Screenshot, AnswerIInv
  <2>2. \/ \E kind \in Failures \cup {"unsupported_media", "response_too_large"} : Bail(kind)
        \/ images' = <<>> /\ NeedleReply(images')
    BY <1>16, Zenon DEF Screenshot
  <2>3. images' = <<>> => Looked(images')
    BY DEF Looked
  <2> QED
    BY <1>2, <1>15, <2>1, <2>2, <2>3 DEF Failures, Refusals
<1>17. CASE Needle
  <2>1. pc = "needle" /\ HasScreenshot /\ Looked(images) /\ UNCHANGED <<job, size, stamp, ask>>
    BY <1>17 DEF Needle, AnswerIInv
  <2>2. PICK found \in {"image", "error"} :
          /\ ~StepNeedles[Len(images) + 1].path => found = "error"
          /\ images' = Append(images, found)
          /\ NeedleReply(images')
    BY <1>17, Zenon DEF Needle
  <2>3. Looked(images')
    <3>1. images \in Seq({"image", "error"}) /\ images' \in Seq({"image", "error"})
      BY <2>1, <2>2 DEF Looked
    <3>2. ASSUME NEW i \in DOMAIN images', images'[i] = "image" PROVE StepNeedles[i].path
      <4>1. CASE i \in DOMAIN images
        <5>1. images'[i] = images[i]
          BY <2>2, <3>1, <4>1
        <5> QED
          BY <2>1, <3>2, <4>1, <5>1 DEF Looked
      <4>2. CASE i \notin DOMAIN images
        <5>1. i = Len(images) + 1 /\ images'[i] = found
          BY <2>2, <3>1, <4>2
        <5> QED
          BY <2>2, <3>2, <5>1
      <4> QED
        BY <4>1, <4>2
    <3> QED
      BY <3>1, <3>2 DEF Looked
  <2> QED
    BY <1>15, <2>1, <2>2, <2>3
<1>18. ASSUME NEW source, NEW files, Range(files) = Range(DetailsLogs(job.details)),
              Reply([kind |-> "files", source |-> source, files |-> files])
       PROVE  Ends
  BY <1>18 DEF Reply, Ends, Answers, FilesReply
<1>19. CASE Downloads
  <2>1. pc = "downloads" /\ UNCHANGED <<job, size, stamp, ask>>
    BY <1>19 DEF Downloads
  <2> DEFINE files == ParseDownloads(job.page)
  <2>2. \/ files # <<>> /\ Reply([kind |-> "files", source |-> "downloads_ajax", files |-> files])
        \/ pc' = "listing" /\ UNCHANGED <<probe, answer>>
    BY <1>19, Zenon DEF Downloads
  <2>3. files # <<>> => Range(files) = Range(DetailsLogs(job.details))
    BY <1>0, FilesAgree
  <2> HIDE DEF files
  <2>4. CASE files # <<>> /\ Reply([kind |-> "files", source |-> "downloads_ajax", files |-> files])
    <3>1. Ends
      BY <1>18, <2>3, <2>4
    <3> QED
      BY <2>1, <3>1, EndKeeps
  <2>5. CASE pc' = "listing" /\ UNCHANGED <<probe, answer>>
    <3>1. Going'
      BY <2>5 DEF Going
    <3> QED
      BY <1>1, <2>1, <2>5, <3>1
  <2> QED
    BY <2>2, <2>4, <2>5
<1>20. CASE Listing
  <2>1. UNCHANGED <<job, size, stamp, ask>>
    BY <1>20 DEF Listing
  <2>2. \/ Reply([kind |-> "files", source |-> "details", files |-> DetailsLogs(job.details)])
        \/ \E kind \in Failures : Bail(kind)
    BY <1>20, Zenon DEF Listing
  <2>3. CASE Reply([kind |-> "files", source |-> "details", files |-> DetailsLogs(job.details)])
    <3>1. Ends
      BY <1>18, <2>3
    <3> QED
      BY <2>1, <3>1, EndKeeps
  <2> QED
    BY <1>2, <2>1, <2>2, <2>3 DEF Failures, Refusals
<1>21. CASE UNCHANGED vars
  <2>1. UNCHANGED <<job, size, stamp, pc, ask, probe, images, answer>>
    BY <1>21 DEF vars
  <2>2. CASE pc = "done"
    <3>1. Ends
      BY <2>1, <2>2 DEF Ends, AnswerIInv
    <3> QED
      BY <2>1, <3>1, EndKeeps
  <2>3. CASE pc # "done"
    <3>1. Looked(images)' <=> Looked(images)
      BY <1>5, <2>1 DEF Looked
    <3>2. Going'
      BY <1>3, <1>4, <2>1, <2>3, <3>1 DEF Going, AnswerIInv
    <3> QED
      BY <1>1, <2>1, <2>3, <3>2
  <2> QED
    BY <2>2, <2>3
<1> QED
  BY <1>6, <1>7, <1>8, <1>9, <1>10, <1>11, <1>12, <1>13, <1>14, <1>16, <1>17, <1>19, <1>20, <1>21
     DEF Next

-----------------------------------------------------------------------------
(* Every reply has its form, and what a grep shows are lines of the text   *)
(* that it was asked to search (grep_lines).                               *)
THEOREM FilesTypeCorrect == Spec => []TypeOK
BY AnswerTypes, AnswerInit, AnswerNext, PTL DEF Spec

(* However the log grows between the requests, a tail is the last whole    *)
(* lines of the bytes that were read, ends where the log ended, and says   *)
(* that the log moved if its validators did (fetch_tail, tail_window,      *)
(* drop_partial_first_line, last_n_lines).                                 *)
THEOREM TailsAreCurrent == Spec => []TailIsCurrent
BY AnswerTail, AnswerInit, AnswerNext, PTL DEF Spec

(* For every text, a digest's hits rise, are exactly the surroundings of   *)
(* its first matches and stay in the budget; the tier is the strongest     *)
(* that matches, and no frame of the stack is a stamped line               *)
(* (scan_markers, get_job_log_errors, died_context).                       *)
THEOREM DigestsAreHonest == Spec => []DigestHonest
BY AnswerDigest, AnswerInit, AnswerNext, PTL DEF Spec

(* For every step, the matched needle precedes the others, these fall by   *)
(* score, and no image outcome moves or hides a candidate (needle_step,    *)
(* get_step_needles).                                                      *)
THEOREM NeedlesAreOrdered == Spec => []NeedlesInOrder
BY AnswerNeedles, AnswerInit, AnswerNext, PTL DEF Spec

(* The downloads page and /details name the same files of the same kinds,  *)
(* as long as openQA shows on the one what it tells in the other           *)
(* (parse_downloads, details_logs).                                        *)
THEOREM FileSourcesAgree == Spec => []SourcesAgree
BY AnswerFiles, AnswerInit, AnswerNext, PTL DEF Spec
=============================================================================
