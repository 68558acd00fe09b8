----------------------------- MODULE ReportingProofs -----------------------------
(***************************************************************************)
(* The lines of every text lie end to end, and the binary search over them *)
(* finds the line of every position without its unsigned arithmetic ever   *)
(* wrapping around, by the invariant SourceInv of module SourceText.  The  *)
(* tokens of every text lie end to end and each is the longest that starts *)
(* where it does; and what main prints of any report is the whole line it  *)
(* is on, with its number, by the invariant ReportingInv of module         *)
(* Reporting, which rests on SourceInv.                                    *)
(***************************************************************************)
EXTENDS FiniteSetTheorems, Reporting, SequenceLemmas

(***************************************************************************)
(* The lines of a text, and the search for one of them.                    *)
(***************************************************************************)
LEMMA LineBreakIsInText ==
  ASSUME SourceInv, scan < Len(text)
  PROVE  LineBreakWidth(scan) \in 0..2 /\ scan + LineBreakWidth(scan) <= Len(text)
<1>1. scan \in Nat /\ Len(text) \in Nat
  BY DEF SourceInv, SourceTypeOK
<1> QED
  BY <1>1 DEF LineBreakWidth

LEMMA SourceInitInv == SourceInit => SourceInv
<1> SUFFICES ASSUME SourceInit PROVE SourceInv
  OBVIOUS
<1>1. text \in Seq(Character)
  BY TextsAssumption DEF SourceInit
<1>2. lines = <<>> /\ Len(lines) = 0 /\ lines \in Seq(TextLine) /\ Len(text) \in Nat
  BY <1>1 DEF SourceInit
<1>3. SourceTypeOK
  BY <1>1, <1>2 DEF SourceInit, SourceTypeOK
<1>4. ScanShape /\ LinesTile /\ StartsIncrease
  BY <1>2 DEF SourceInit, ScanShape, LinesTile, StartsIncrease, ParsingLines, Parsed
<1>5. SearchInBounds /\ SearchBrackets /\ AnswerIsTheLine
  BY DEF SourceInit, SearchInBounds, SearchBrackets, AnswerIsTheLine
<1> QED
  BY <1>3, <1>4, <1>5 DEF SourceInv

(***************************************************************************)
(* What add_line does to the lines, whatever the width of the line break.  *)
(***************************************************************************)
LEMMA AddLine ==
  ASSUME SourceInv, ParsingLines, NEW width \in Nat
  PROVE  /\ WithLine(width) \in Seq(TextLine)
         /\ Len(WithLine(width)) = Len(lines) + 1
         /\ \A i \in 1..Len(lines) : WithLine(width)[i] = lines[i]
         /\ WithLine(width)[Len(lines) + 1].start = line_start
         /\ WithLine(width)[Len(lines) + 1].length = scan - line_start
         /\ WithLine(width)[Len(lines) + 1].length_including_line_break = scan - line_start + width
<1> DEFINE line == [ start |-> line_start, length |-> scan - line_start,
                     length_including_line_break |-> scan - line_start + width ]
<1>1. scan \in Nat /\ line_start \in Nat /\ line_start <= scan /\ lines \in Seq(TextLine)
  BY DEF SourceInv, SourceTypeOK, ScanShape
<1>2. scan - line_start \in Nat
  BY <1>1
<1>3. line \in TextLine
  BY <1>1, <1>2 DEF TextLine
<1>4. WithLine(width) = Append(lines, line)
  BY DEF WithLine
<1> QED
  BY <1>1, <1>3, <1>4, PushOne

\* Its effect on the shape of the lines.
LEMMA AddLineShape ==
  ASSUME SourceInv, ParsingLines, NEW width \in Nat, lines' = WithLine(width)
  PROVE  /\ lines' # <<>> /\ Len(lines') = Len(lines) + 1
         /\ lines'[1].start = 0
         /\ \A i \in 1..Len(lines') - 1 : lines'[i + 1].start = NextStart(i)'
         /\ \A i \in 1..Len(lines') - 1 : lines'[i].length < lines'[i].length_including_line_break
         /\ lines'[Len(lines')].length = scan - line_start
         /\ lines'[Len(lines')].length_including_line_break = scan - line_start + width
         /\ lines'[Len(lines')].start + lines'[Len(lines')].length_including_line_break = scan + width
         /\ StartsIncrease'
<1> DEFINE n == Len(lines)
<1>1. /\ scan \in Nat /\ line_start \in Nat /\ line_start <= scan /\ lines \in Seq(TextLine)
      /\ n \in Nat
  BY DEF SourceInv, SourceTypeOK, ScanShape
<1>2. /\ lines' \in Seq(TextLine)
      /\ Len(lines') = n + 1
      /\ \A i \in 1..n : lines'[i] = lines[i]
      /\ lines'[n + 1].start = line_start
      /\ lines'[n + 1].length = scan - line_start
      /\ lines'[n + 1].length_including_line_break = scan - line_start + width
  BY AddLine
<1>3. \A i \in 1..n : /\ lines[i].start \in Nat /\ lines[i].length \in Nat
                      /\ lines[i].length_including_line_break \in Nat
  <2>1. \A i \in 1..n : lines[i] \in TextLine
    BY <1>1
  <2> QED
    BY <2>1 DEF TextLine
<1>4. /\ lines # <<>> => lines[1].start = 0 /\ NextStart(n) = line_start
      /\ lines = <<>> => line_start = 0
      /\ \A i \in 1..n - 1 : lines[i + 1].start = NextStart(i)
      /\ \A i \in 1..n : lines[i].length < lines[i].length_including_line_break
      /\ \A i, j \in 1..n : i < j => lines[i].start < lines[j].start
  BY DEF SourceInv, ScanShape, LinesTile, StartsIncrease, ParsingLines, Parsed
<1>5. lines = <<>> <=> n = 0
  BY <1>1, EmptySeq
<1>6. \A i \in 1..n : NextStart(i)' = NextStart(i)
  BY <1>2 DEF NextStart
<1>7. \A i \in 1..n : lines[i].start < line_start
  <2> SUFFICES ASSUME NEW i \in 1..n PROVE lines[i].start < line_start
    OBVIOUS
  <2>1. n # 0 /\ n \in 1..n
    BY <1>1
  <2>2. lines[n].start < line_start
    BY <2>1, <1>3, <1>4, <1>5 DEF NextStart
  <2>3. CASE i = n
    BY <2>2, <2>3
  <2>4. CASE i # n
    <3>1. i < n
      BY <2>4, <1>1
    <3>2. lines[i].start < lines[n].start
      BY <3>1, <2>1, <1>4
    <3> QED
      BY <3>2, <2>1, <2>2, <1>1, <1>3
  <2> QED
    BY <2>3, <2>4
<1>8. lines'[1].start = 0
  BY <1>1, <1>2, <1>4, <1>5
<1>9. \A i \in 1..n : lines'[i + 1].start = NextStart(i)'
  <2> SUFFICES ASSUME NEW i \in 1..n PROVE lines'[i + 1].start = NextStart(i)
    BY <1>6
  <2>1. CASE i = n
    BY <2>1, <1>1, <1>2, <1>4, <1>5
  <2>2. CASE i # n
    <3>1. i \in 1..n - 1 /\ i + 1 \in 1..n
      BY <2>2, <1>1
    <3> QED
      BY <3>1, <1>2, <1>4
  <2> QED
    BY <2>1, <2>2
<1>10. \A i \in 1..n : lines'[i].length < lines'[i].length_including_line_break
  BY <1>2, <1>4
<1>11. lines'[n + 1].start + lines'[n + 1].length_including_line_break = scan + width
  BY <1>1, <1>2
<1>12. StartsIncrease'
  <2> SUFFICES ASSUME NEW i \in 1..n + 1, NEW j \in 1..n + 1, i < j
               PROVE  lines'[i].start < lines'[j].start
    BY <1>2 DEF StartsIncrease
  <2>1. i \in 1..n
    BY <1>1
  <2>2. CASE j = n + 1
    BY <2>1, <2>2, <1>2, <1>7
  <2>3. CASE j # n + 1
    <3>1. j \in 1..n
      BY <2>3, <1>1
    <3> QED
      BY <3>1, <2>1, <1>2, <1>4
  <2> QED
    BY <2>2, <2>3
<1>13. lines' # <<>>
  BY <1>1, <1>2, EmptySeq
<1>14. Len(lines') - 1 = n
  BY <1>1, <1>2
<1>15. lines'[Len(lines')].start + lines'[Len(lines')].length_including_line_break = scan + width
  BY <1>2, <1>11
<1>16. /\ \A i \in 1..Len(lines') - 1 : lines'[i + 1].start = NextStart(i)'
       /\ \A i \in 1..Len(lines') - 1 : lines'[i].length < lines'[i].length_including_line_break
  BY <1>9, <1>10, <1>14
<1>17. /\ lines'[Len(lines')].length = scan - line_start
       /\ lines'[Len(lines')].length_including_line_break = scan - line_start + width
  BY <1>2
<1> QED
  BY <1>2, <1>8, <1>12, <1>13, <1>15, <1>16, <1>17

(***************************************************************************)
(* One lemma for each action.                                              *)
(***************************************************************************)
LEMMA SkipCharacterInv == SourceInv /\ SkipCharacter => SourceInv'
<1> SUFFICES ASSUME SourceInv, SkipCharacter PROVE SourceInv'
  OBVIOUS
<1> USE DEF SkipCharacter, SearchUnchanged, ParsingLines
<1>1. scan \in Nat /\ line_start \in Nat /\ Len(text) \in Nat
  BY DEF SourceInv, SourceTypeOK
<1>2. SourceTypeOK'
  BY <1>1 DEF SourceInv, SourceTypeOK
<1>3. ScanShape'
  BY <1>1 DEF SourceInv, ScanShape, NextStart
<1>4. LinesTile' /\ StartsIncrease'
  BY DEF SourceInv, LinesTile, StartsIncrease, NextStart, Parsed
<1>5. SearchInBounds' /\ SearchBrackets' /\ AnswerIsTheLine'
  BY DEF SearchInBounds, SearchBrackets, AnswerIsTheLine
<1> QED
  BY <1>2, <1>3, <1>4, <1>5 DEF SourceInv

LEMMA BreakLineInv == SourceInv /\ BreakLine => SourceInv'
<1> SUFFICES ASSUME SourceInv, BreakLine PROVE SourceInv'
  OBVIOUS
<1> DEFINE width == LineBreakWidth(scan)
<1> USE DEF BreakLine, SearchUnchanged, ParsingLines
<1>1. scan \in Nat /\ line_start \in Nat /\ Len(text) \in Nat /\ lines \in Seq(TextLine)
  BY DEF SourceInv, SourceTypeOK
<1>2. width \in 1..2 /\ scan + width <= Len(text)
  BY LineBreakIsInText
<1>3. lines' = WithLine(width) /\ scan' = scan + width /\ line_start' = scan + width
  OBVIOUS
<1>4. lines' \in Seq(TextLine)
  BY <1>2, <1>3, AddLine
<1> HIDE DEF width
<1>5. /\ lines' # <<>> /\ Len(lines') \in Nat
      /\ lines'[1].start = 0
      /\ \A i \in 1..Len(lines') - 1 : lines'[i + 1].start = NextStart(i)'
      /\ \A i \in 1..Len(lines') - 1 : lines'[i].length < lines'[i].length_including_line_break
      /\ lines'[Len(lines')].length = scan - line_start
      /\ lines'[Len(lines')].length_including_line_break = scan - line_start + width
      /\ lines'[Len(lines')].start + lines'[Len(lines')].length_including_line_break = scan + width
      /\ StartsIncrease'
  BY <1>1, <1>2, <1>3, AddLineShape
<1>6. SourceTypeOK'
  BY <1>1, <1>2, <1>3, <1>4 DEF SourceInv, SourceTypeOK
<1>7. ScanShape'
  BY <1>1, <1>2, <1>3, <1>5 DEF ScanShape, NextStart
<1>8. LinesTile'
  <2>1. \A i \in 1..Len(lines') : lines'[i].length < lines'[i].length_including_line_break
    <3> SUFFICES ASSUME NEW i \in 1..Len(lines')
                 PROVE  lines'[i].length < lines'[i].length_including_line_break
      OBVIOUS
    <3>1. CASE i = Len(lines')
      <4>1. scan - line_start \in Int
        BY <1>1
      <4> QED
        BY <3>1, <4>1, <1>2, <1>5
    <3>2. CASE i # Len(lines')
      BY <3>2, <1>5
    <3> QED
      BY <3>1, <3>2
  <2>2. ~Parsed'
    BY DEF Parsed
  <2> QED
    BY <1>5, <2>1, <2>2 DEF LinesTile
<1>9. SearchInBounds' /\ SearchBrackets' /\ AnswerIsTheLine'
  BY DEF SearchInBounds, SearchBrackets, AnswerIsTheLine
<1> QED
  BY <1>5, <1>6, <1>7, <1>8, <1>9 DEF SourceInv

LEMMA LastLineInv == SourceInv /\ LastLine => SourceInv'
<1> SUFFICES ASSUME SourceInv, LastLine PROVE SourceInv'
  OBVIOUS
<1> USE DEF LastLine, SearchUnchanged, ParsingLines
<1>1. scan \in Nat /\ line_start \in Nat /\ Len(text) \in Nat /\ lines \in Seq(TextLine)
  BY DEF SourceInv, SourceTypeOK
<1>2. line_start <= scan /\ scan = Len(text)
  BY <1>1 DEF SourceInv, ScanShape
<1>3. lines' = WithLine(0)
  BY <1>1, <1>2
<1>4. lines' \in Seq(TextLine)
  BY <1>3, AddLine
<1>5. /\ lines' # <<>> /\ Len(lines') \in Nat
      /\ lines'[1].start = 0
      /\ \A i \in 1..Len(lines') - 1 : lines'[i + 1].start = NextStart(i)'
      /\ \A i \in 1..Len(lines') - 1 : lines'[i].length < lines'[i].length_including_line_break
      /\ lines'[Len(lines')].start + lines'[Len(lines')].length_including_line_break = scan + 0
      /\ StartsIncrease'
  BY <1>1, <1>3, AddLineShape
<1>6. SourceTypeOK'
  BY <1>4 DEF SourceInv, SourceTypeOK
<1>7. ScanShape'
  BY DEF SourceInv, ScanShape
<1>8. LinesTile'
  <2>1. \A i \in 1..Len(lines') : i < Len(lines') => i \in 1..Len(lines') - 1
    BY <1>5
  <2>2. NextStart(Len(lines))' = Len(text)'
    BY <1>1, <1>2, <1>5 DEF NextStart
  <2> QED
    BY <1>5, <2>1, <2>2 DEF LinesTile, Parsed
<1>9. SearchInBounds' /\ SearchBrackets' /\ AnswerIsTheLine'
  BY <1>5 DEF SearchInBounds, SearchBrackets, AnswerIsTheLine
<1> QED
  BY <1>5, <1>6, <1>7, <1>8, <1>9 DEF SourceInv

\* The actions of the search leave the lines alone.
LEMMA LinesKept ==
  ASSUME SourceInv, ~ParsingLines, ~ParsingLines', UNCHANGED << text, lines, scan, line_start >>
  PROVE  ScanShape' /\ LinesTile' /\ StartsIncrease'
BY DEF SourceInv, ScanShape, LinesTile, StartsIncrease, NextStart, Parsed, ParsingLines

LEMMA GetLineIndexInv ==
  ASSUME SourceInv, NEW asked \in 0..Len(text), GetLineIndex(asked)
  PROVE  SourceInv'
<1> USE DEF GetLineIndex
<1>1. ScanShape' /\ LinesTile' /\ StartsIncrease'
  BY LinesKept DEF ParsingLines
<1>2. lines \in Seq(TextLine) /\ Len(lines) \in Nat \ {0}
  BY EmptySeq DEF SourceInv, SourceTypeOK, SearchBrackets
<1>3. upper' = Len(lines) - 1 /\ lower' = 0 /\ query' = asked
  BY <1>2 DEF Decremented
<1>4. asked \in Nat
  BY DEF SourceInv, SourceTypeOK
<1>5. SourceTypeOK'
  BY <1>2, <1>3, <1>4 DEF SourceInv, SourceTypeOK
<1>6. SearchInBounds' /\ AnswerIsTheLine'
  BY <1>2, <1>3 DEF SearchInBounds, AnswerIsTheLine
<1>7. SearchBrackets'
  BY <1>2, <1>3 DEF SourceInv, SearchBrackets
<1> QED
  BY <1>1, <1>5, <1>6, <1>7 DEF SourceInv

LEMMA ProbeInv == SourceInv /\ Probe => SourceInv'
<1> SUFFICES ASSUME SourceInv, Probe PROVE SourceInv'
  OBVIOUS
<1> DEFINE n == Len(lines)
           index == (lower + upper) \div 2
           start == lines[index + 1].start
<1>1. /\ lower \in Nat /\ upper \in Nat /\ query \in Nat /\ answer \in Nat
      /\ lines \in Seq(TextLine) /\ n \in Nat
      /\ lower <= upper /\ upper < n
      /\ lookup = "search" /\ lookup' \in { "search", "found" }
  BY DEF SourceInv, SourceTypeOK, SearchInBounds, Probe
<1>2. index \in Nat /\ lower <= index /\ index <= upper
  BY <1>1
<1>3. UNCHANGED << text, lines, scan, line_start, query >>
  BY DEF Probe
<1>4. ScanShape' /\ LinesTile' /\ StartsIncrease'
  BY <1>1, <1>3, LinesKept DEF ParsingLines
<1>5. \A i \in 1..n : lines[i].start \in Nat
  <2>1. \A i \in 1..n : lines[i] \in TextLine
    BY <1>1
  <2> QED
    BY <2>1 DEF TextLine
<1>6. /\ \A i \in 1..lower : lines[i].start < query
      /\ \A i \in upper + 2 .. n : query < lines[i].start
      /\ \A i, j \in 1..n : i < j => lines[i].start < lines[j].start
      /\ lines # <<>> /\ lines[1].start = 0
  BY <1>1 DEF SourceInv, SearchBrackets, StartsIncrease, LinesTile
<1>7. index + 1 \in 1..n
  BY <1>1, <1>2
<1>8. CASE query = start
  <2>1. answer' = index /\ lookup' = "found" /\ UNCHANGED << lower, upper >>
    BY <1>8 DEF Probe
  <2>2. SourceTypeOK'
    BY <2>1, <1>2, <1>3 DEF SourceInv, SourceTypeOK
  <2>3. SearchInBounds' /\ SearchBrackets'
    BY <2>1, <1>3, <1>6 DEF SearchInBounds, SearchBrackets
  <2>4. AnswerIsTheLine'
    <3>1. index < n /\ lines[index + 1].start <= query
      BY <1>8, <1>1, <1>2
    <3>2. index + 1 < n => query < lines[index + 2].start
      <4> SUFFICES ASSUME index + 1 < n PROVE query < lines[index + 2].start
        OBVIOUS
      <4>1. index + 2 \in 1..n /\ index + 1 < index + 2
        BY <1>1, <1>2
      <4> HIDE DEF index
      <4>2. lines[index + 1].start < lines[index + 2].start
        BY <4>1, <1>6, <1>7
      <4> QED
        BY <4>2, <1>8
    <3> HIDE DEF index
    <3> QED
      BY <2>1, <3>1, <3>2, <1>3 DEF AnswerIsTheLine
  <2> QED
    BY <1>4, <2>2, <2>3, <2>4 DEF SourceInv
<1>9. CASE query < start
  <2>1. upper' = Decremented(index) /\ lower' = lower /\ answer' = answer /\ lookup' = "search"
    BY <1>1, <1>5, <1>7, <1>9 DEF Probe
  <2>2. index # 0
    BY <1>1, <1>6, <1>9
  <2>3. upper' = index - 1 /\ index - 1 \in Nat
    BY <2>1, <2>2, <1>2 DEF Decremented
  <2>4. \A i \in index + 1 .. n : query < lines[i].start
    <3> HIDE DEF index
    <3> SUFFICES ASSUME NEW i \in index + 1 .. n PROVE query < lines[i].start
      OBVIOUS
    <3>1. CASE i = index + 1
      BY <3>1, <1>9
    <3>2. CASE i # index + 1
      <4>1. i \in 1..n /\ index + 1 < i
        BY <3>2, <1>2
      <4>2. lines[index + 1].start < lines[i].start
        BY <4>1, <1>6, <1>7
      <4> QED
        BY <4>1, <4>2, <1>1, <1>5, <1>7, <1>9
    <3> QED
      BY <3>1, <3>2
  <2> HIDE DEF index
  <2>5. SourceTypeOK'
    BY <2>1, <2>3, <1>3 DEF SourceInv, SourceTypeOK
  <2>6. SearchInBounds' /\ AnswerIsTheLine'
    BY <2>1, <2>3, <1>1, <1>2, <1>3 DEF SearchInBounds, AnswerIsTheLine
  <2>7. SearchBrackets'
    <3>1. upper' + 2 = index + 1
      BY <2>3, <1>2
    <3> QED
      BY <2>1, <2>4, <3>1, <1>3, <1>6 DEF SearchBrackets
  <2> QED
    BY <1>4, <2>5, <2>6, <2>7 DEF SourceInv
<1>10. CASE query > start
  <2>1. lower' = index + 1 /\ upper' = upper /\ answer' = answer /\ lookup' = "search"
    BY <1>1, <1>5, <1>7, <1>10 DEF Probe
  <2> HIDE DEF index
  <2>2. \A i \in 1..index + 1 : lines[i].start < query
    <3> SUFFICES ASSUME NEW i \in 1..index + 1 PROVE lines[i].start < query
      OBVIOUS
    <3>1. CASE i = index + 1
      BY <3>1, <1>10
    <3>2. CASE i # index + 1
      <4>1. i \in 1..n /\ i < index + 1
        BY <3>2, <1>1, <1>2
      <4>2. lines[i].start < lines[index + 1].start
        BY <4>1, <1>6, <1>7
      <4> QED
        BY <4>1, <4>2, <1>1, <1>5, <1>7, <1>10
    <3> QED
      BY <3>1, <3>2
  <2>3. SourceTypeOK'
    BY <2>1, <1>2, <1>3 DEF SourceInv, SourceTypeOK
  <2>4. SearchInBounds' /\ AnswerIsTheLine'
    BY <2>1, <1>1, <1>2, <1>3 DEF SearchInBounds, AnswerIsTheLine
  <2>5. SearchBrackets'
    BY <2>1, <2>2, <1>3, <1>6 DEF SearchBrackets
  <2> QED
    BY <1>4, <2>3, <2>4, <2>5 DEF SourceInv
<1>11. query = start \/ query < start \/ query > start
  BY <1>1, <1>5, <1>7
<1> QED
  BY <1>8, <1>9, <1>10, <1>11

LEMMA SettleInv == SourceInv /\ Settle => SourceInv'
<1> SUFFICES ASSUME SourceInv, Settle PROVE SourceInv'
  OBVIOUS
<1> USE DEF Settle
<1>1. /\ lower \in Nat /\ upper \in Nat /\ query \in Nat
      /\ lines \in Seq(TextLine) /\ Len(lines) \in Nat
      /\ lower = upper + 1 /\ lower <= Len(lines)
  BY DEF SourceInv, SourceTypeOK, SearchInBounds
<1>2. ScanShape' /\ LinesTile' /\ StartsIncrease'
  BY LinesKept DEF ParsingLines
<1>3. /\ \A i \in 1..lower : lines[i].start < query
      /\ \A i \in upper + 2 .. Len(lines) : query < lines[i].start
      /\ lines # <<>>
  BY DEF SourceInv, SearchBrackets
<1>4. answer' = lower - 1 /\ lower - 1 \in Nat
  BY <1>1 DEF Decremented
<1>5. SourceTypeOK'
  BY <1>4 DEF SourceInv, SourceTypeOK
<1>6. SearchInBounds' /\ SearchBrackets'
  BY <1>3 DEF SearchInBounds, SearchBrackets
<1>7. AnswerIsTheLine'
  <2>1. \A i \in 1..Len(lines) : lines[i].start \in Nat
    <3>1. \A i \in 1..Len(lines) : lines[i] \in TextLine
      BY <1>1
    <3> QED
      BY <3>1 DEF TextLine
  <2>2. lines[lower].start <= query
    <3>1. lower \in 1..lower /\ lower \in 1..Len(lines)
      BY <1>1
    <3>2. lines[lower].start < query
      BY <3>1, <1>3
    <3> QED
      BY <2>1, <3>1, <3>2, <1>1
  <2>3. lower < Len(lines) => query < lines[lower + 1].start
    BY <1>1, <1>3
  <2>4. answer' + 1 = lower /\ answer' + 2 = lower + 1
    BY <1>1, <1>4
  <2> QED
    BY <1>1, <1>4, <2>2, <2>3, <2>4 DEF AnswerIsTheLine
<1> QED
  BY <1>2, <1>5, <1>6, <1>7 DEF SourceInv

LEMMA AnsweredInv == SourceInv /\ Answered => SourceInv'
<1> SUFFICES ASSUME SourceInv, Answered PROVE SourceInv'
  OBVIOUS
<1>1. ScanShape' /\ LinesTile' /\ StartsIncrease'
  BY LinesKept DEF Answered, ParsingLines
<1>2. SourceTypeOK'
  BY DEF Answered, SourceInv, SourceTypeOK
<1>3. SearchInBounds' /\ SearchBrackets' /\ AnswerIsTheLine'
  BY DEF Answered, SourceInv, SearchInBounds, SearchBrackets, AnswerIsTheLine
<1> QED
  BY <1>1, <1>2, <1>3 DEF SourceInv

LEMMA SourceNextInv == SourceInv /\ [SourceNext]_source_vars => SourceInv'
<1> SUFFICES ASSUME SourceInv, [SourceNext]_source_vars PROVE SourceInv'
  OBVIOUS
<1>1. CASE ParseLines
  BY <1>1, SkipCharacterInv, BreakLineInv, LastLineInv DEF ParseLines
<1>2. CASE \E asked \in 0..Len(text) : GetLineIndex(asked)
  BY <1>2, GetLineIndexInv
<1>3. CASE Search
  BY <1>3, ProbeInv, SettleInv DEF Search
<1>4. CASE Answered
  BY <1>4, AnsweredInv
<1>5. CASE UNCHANGED source_vars
  BY <1>5 DEF source_vars, SourceInv, SourceTypeOK, ScanShape, LinesTile, StartsIncrease,
              SearchInBounds, SearchBrackets, AnswerIsTheLine, NextStart, Parsed, ParsingLines
<1> QED
  BY <1>1, <1>2, <1>3, <1>4, <1>5 DEF SourceNext

(***************************************************************************)
(* Where the lines end: BreaksEndLines, which rests on SourceInv.          *)
(***************************************************************************)
LEMMA LineBreakIsWhole ==
  ASSUME SourceInv, scan < Len(text)
  PROVE  /\ LineBreakWidth(scan) = 0 <=> CharAt(scan) \notin { CR, LF }
         /\ \A p \in scan .. scan + LineBreakWidth(scan) - 1 : CharAt(p) \in { CR, LF }
         /\ LineBreakWidth(scan) # 0 =>
                ~( /\ scan + LineBreakWidth(scan) < Len(text)
                   /\ CharAt(scan + LineBreakWidth(scan) - 1) = CR
                   /\ CharAt(scan + LineBreakWidth(scan)) = LF )
<1>1. scan \in Nat /\ Len(text) \in Nat
  BY DEF SourceInv, SourceTypeOK
<1>2. CR # LF
  BY DEF CR, LF
<1>3. CASE CharAt(scan) = CR /\ scan + 1 < Len(text) /\ CharAt(scan + 1) = LF
  <2>1. LineBreakWidth(scan) = 2
    BY <1>3 DEF LineBreakWidth
  <2>2. \A p \in scan .. scan + 1 : p = scan \/ p = scan + 1
    BY <1>1
  <2>3. scan + 2 - 1 = scan + 1
    BY <1>1
  <2> QED
    BY <1>2, <1>3, <2>1, <2>2, <2>3
<1>4. CASE /\ ~(CharAt(scan) = CR /\ scan + 1 < Len(text) /\ CharAt(scan + 1) = LF)
           /\ CharAt(scan) \in { CR, LF }
  <2>1. LineBreakWidth(scan) = 1
    BY <1>4 DEF LineBreakWidth
  <2>2. scan + 1 - 1 = scan /\ \A p \in scan .. scan : p = scan
    BY <1>1
  <2>3. LineBreakWidth(scan) = 0 <=> CharAt(scan) \notin { CR, LF }
    BY <1>4, <2>1
  <2>4. \A p \in scan .. scan + 1 - 1 : CharAt(p) \in { CR, LF }
    BY <1>4, <2>2
  <2>5. ~(scan + 1 < Len(text) /\ CharAt(scan + 1 - 1) = CR /\ CharAt(scan + 1) = LF)
    BY <1>2, <1>4, <2>2
  <2> QED
    BY <2>1, <2>3, <2>4, <2>5
<1>5. CASE CharAt(scan) \notin { CR, LF }
  <2>1. LineBreakWidth(scan) = 0
    BY <1>5 DEF LineBreakWidth
  <2>2. \A p \in scan .. scan + 0 - 1 : FALSE
    BY <1>1
  <2> QED
    BY <1>5, <2>1, <2>2
<1> QED
  BY <1>3, <1>4, <1>5

LEMMA AddLineBreaks ==
  ASSUME SourceInv, BreaksEndLines, ParsingLines, NEW width \in Nat,
         \A p \in scan .. scan + width - 1 : CharAt(p) \in { CR, LF },
         ~( /\ scan + width < Len(text)
            /\ CharAt(scan + width - 1) = CR
            /\ CharAt(scan + width) = LF )
  PROVE  \A i \in 1..Len(WithLine(width)) : EndsAtBreak(WithLine(width)[i])
<1> DEFINE n == Len(lines)
           line == WithLine(width)[n + 1]
<1>1. scan \in Nat /\ line_start \in Nat /\ line_start <= scan /\ n \in Nat
  BY DEF SourceInv, SourceTypeOK, ScanShape
<1>2. /\ Len(WithLine(width)) = n + 1
      /\ \A i \in 1..n : WithLine(width)[i] = lines[i]
      /\ line.start = line_start
      /\ line.length = scan - line_start
      /\ line.length_including_line_break = scan - line_start + width
  BY AddLine
<1>3. /\ \A i \in 1..n : EndsAtBreak(lines[i])
      /\ \A p \in line_start .. scan - 1 : CharAt(p) \notin { CR, LF }
  BY DEF BreaksEndLines
<1> HIDE DEF n, line
<1>4. ASSUME NEW p \in line_start .. scan + width - 1
      PROVE  (p < scan) <=> CharAt(p) \notin { CR, LF }
  <2>1. p \in line_start .. scan - 1 \/ p \in scan .. scan + width - 1
    BY <1>1
  <2>2. p \in line_start .. scan - 1 => p < scan
    BY <1>1
  <2>3. p \in scan .. scan + width - 1 => ~(p < scan)
    BY <1>1
  <2> QED
    BY <1>3, <2>1, <2>2, <2>3
<1>5. /\ line.start + line.length_including_line_break = scan + width
      /\ LineEnd(line) = scan
  BY <1>1, <1>2 DEF LineEnd
<1>6. EndsAtBreak(line)
  <2>1. PICK next \in Nat : next = scan + width
    BY <1>1
  <2>2. line.start + line.length_including_line_break = next /\ LineEnd(line) = scan
    BY <1>5, <2>1
  <2>3. \A p \in line.start .. next - 1 : (p < scan) <=> CharAt(p) \notin { CR, LF }
    BY <1>1, <1>2, <1>4, <2>1
  <2>4. ~(next < Len(text) /\ CharAt(next - 1) = CR /\ CharAt(next) = LF)
    BY <1>1, <2>1
  <2> QED
    BY <2>2, <2>3, <2>4 DEF EndsAtBreak
<1>7. \A i \in 1..Len(WithLine(width)) : i \in 1..n \/ i = n + 1
  BY <1>1, <1>2
<1> QED
  BY <1>2, <1>3, <1>6, <1>7 DEF line

LEMMA SourceInitBreaks == SourceInit => BreaksEndLines
<1> SUFFICES ASSUME SourceInit PROVE BreaksEndLines
  OBVIOUS
<1>1. Len(lines) = 0 /\ line_start = 0 /\ scan = 0
  BY DEF SourceInit
<1> QED
  BY <1>1 DEF BreaksEndLines, SourceInit, Parsed

LEMMA SourceNextBreaks ==
  ASSUME SourceInv, BreaksEndLines, [SourceNext]_source_vars
  PROVE  BreaksEndLines'
<1>1. scan \in Nat /\ line_start \in Nat /\ line_start <= scan /\ scan <= Len(text) /\ Len(text) \in Nat
  BY DEF SourceInv, SourceTypeOK, ScanShape
<1>2. CASE SkipCharacter
  <2> USE <1>2 DEF SkipCharacter, SearchUnchanged
  <2>1. CharAt(scan) \notin { CR, LF }
    BY LineBreakIsWhole
  <2>2. /\ \A i \in 1..Len(lines) : EndsAtBreak(lines[i])
        /\ \A p \in line_start .. scan - 1 : CharAt(p) \notin { CR, LF }
    BY DEF BreaksEndLines
  <2>3. ASSUME NEW p \in line_start .. scan + 1 - 1 PROVE text[p + 1] \notin { CR, LF }
    <3>1. p = scan \/ p \in line_start .. scan - 1
      BY <1>1
    <3> QED
      BY <2>1, <2>2, <3>1 DEF CharAt
  <2>4. UNCHANGED << text, lines, line_start >> /\ scan' = scan + 1
    OBVIOUS
  <2>5. (\A p \in line_start .. scan - 1 : CharAt(p) \notin { CR, LF })'
    BY <1>1, <2>3, <2>4 DEF CharAt
  <2>6. (\A i \in 1..Len(lines) : EndsAtBreak(lines[i]))'
    BY <2>2, <2>4 DEF EndsAtBreak, LineEnd, CharAt
  <2>7. ~Parsed'
    BY DEF Parsed, ParsingLines
  <2> QED
    BY <2>5, <2>6, <2>7 DEF BreaksEndLines
<1>3. CASE BreakLine
  <2> DEFINE width == LineBreakWidth(scan)
  <2> USE <1>3 DEF BreakLine, SearchUnchanged
  <2>1. width \in Nat /\ lines' = WithLine(width) /\ UNCHANGED text
    BY LineBreakIsInText
  <2>2. /\ \A p \in scan .. scan + width - 1 : CharAt(p) \in { CR, LF }
        /\ ~( /\ scan + width < Len(text)
              /\ CharAt(scan + width - 1) = CR
              /\ CharAt(scan + width) = LF )
    BY LineBreakIsWhole
  <2>3. line_start' = scan + width /\ scan' = scan + width
    OBVIOUS
  <2> HIDE DEF width
  <2>4. (\A p \in line_start .. scan - 1 : CharAt(p) \notin { CR, LF })'
    BY <1>1, <2>1, <2>3
  <2>5. \A i \in 1..Len(WithLine(width)) : EndsAtBreak(WithLine(width)[i])
    BY <2>1, <2>2, AddLineBreaks
  <2>6. (\A i \in 1..Len(lines) : EndsAtBreak(lines[i]))'
    BY <2>1, <2>5 DEF EndsAtBreak, LineEnd, CharAt
  <2>7. ~Parsed'
    BY DEF Parsed, ParsingLines
  <2> QED
    BY <2>4, <2>6, <2>7 DEF BreaksEndLines
<1>4. CASE LastLine
  <2> USE <1>4 DEF LastLine, SearchUnchanged
  <2>1. lines' = WithLine(0) /\ scan = Len(text) /\ UNCHANGED text
    BY <1>1
  <2>2. \A p \in scan .. scan + 0 - 1 : CharAt(p) \in { CR, LF }
    BY <1>1
  <2>3. ~(scan + 0 < Len(text))
    BY <1>1, <2>1
  <2>4. ~ParsingLines'
    BY DEF ParsingLines
  <2>5. \A i \in 1..Len(WithLine(0)) : EndsAtBreak(WithLine(0)[i])
    BY <2>2, <2>3, AddLineBreaks
  <2>6. (\A i \in 1..Len(lines) : EndsAtBreak(lines[i]))'
    BY <2>1, <2>5 DEF EndsAtBreak, LineEnd, CharAt
  <2>7. LineEnd(lines[Len(lines)])' = Len(text)'
    <3>1. PICK line : line = WithLine(0)[Len(lines) + 1]
      OBVIOUS
    <3>2. line.start = line_start /\ line.length = scan - line_start /\ Len(WithLine(0)) = Len(lines) + 1
      BY <3>1, AddLine DEF ParsingLines
    <3>3. line.start + line.length = Len(text)
      BY <1>1, <2>1, <3>2
    <3> QED
      BY <2>1, <3>1, <3>2, <3>3 DEF LineEnd
  <2> QED
    BY <2>4, <2>6, <2>7 DEF BreaksEndLines
<1>5. CASE UNCHANGED << text, lines, line_start, scan >> /\ (ParsingLines' <=> ParsingLines)
  <2>1. (\A i \in 1..Len(lines) : EndsAtBreak(lines[i]))'
    BY <1>5 DEF BreaksEndLines, EndsAtBreak, LineEnd, CharAt
  <2>2. ParsingLines' => (\A p \in line_start .. scan - 1 : CharAt(p) \notin { CR, LF })'
    BY <1>5 DEF BreaksEndLines, CharAt
  <2>3. Parsed' => (LineEnd(lines[Len(lines)]) = Len(text))'
    BY <1>5 DEF BreaksEndLines, LineEnd, Parsed, ParsingLines
  <2> QED
    BY <2>1, <2>2, <2>3 DEF BreaksEndLines
<1>6. CASE \E asked \in 0..Len(text) : GetLineIndex(asked)
  BY <1>5, <1>6 DEF GetLineIndex, ParsingLines
<1>7. CASE Search
  BY <1>5, <1>7 DEF Search, Probe, Settle, ParsingLines
<1>8. CASE Answered
  BY <1>5, <1>8 DEF Answered, ParsingLines
<1>9. CASE UNCHANGED source_vars
  BY <1>5, <1>9 DEF source_vars, ParsingLines
<1> QED
  BY <1>2, <1>3, <1>4, <1>6, <1>7, <1>8, <1>9 DEF SourceNext, ParseLines

LEMMA BreaksEndLinesSuffices == SourceInv /\ BreaksEndLines => LinesHoldNoBreak
<1> SUFFICES ASSUME SourceInv, BreaksEndLines, Parsed PROVE LinesHoldNoBreak
  BY DEF LinesHoldNoBreak
<1>1. Len(lines) \in Nat
  BY DEF SourceInv, SourceTypeOK
<1>2. \A i \in 1..Len(lines) - 1 : i \in 1..Len(lines)
  BY <1>1
<1>3. \A i \in 1..Len(lines) :
         /\ \A p \in lines[i].start .. NextStart(i) - 1 :
               (p < LineEnd(lines[i])) <=> CharAt(p) \notin { CR, LF }
         /\ ~(NextStart(i) < Len(text) /\ CharAt(NextStart(i) - 1) = CR /\ CharAt(NextStart(i)) = LF)
  BY DEF BreaksEndLines, EndsAtBreak, NextStart
<1> QED
  BY <1>2, <1>3 DEF LinesHoldNoBreak

--------------------------------------------------------------------------------

\* Everything source_text.c relies on holds at every step, for every text: the
\* lines it makes, and the bounds of its search.
THEOREM SourceTextInvariant == SourceSpec => []SourceInv
<1>1. SourceInit => SourceInv
  BY SourceInitInv
<1>2. SourceInv /\ [SourceNext]_source_vars => SourceInv'
  BY SourceNextInv
<1> QED
  BY <1>1, <1>2, PTL DEF SourceSpec

\* parse_lines leaves no character of a text without a line, and none in two lines.
THEOREM LinesTileEveryText == SourceSpec => []LinesTile
<1>1. SourceInv => LinesTile
  BY DEF SourceInv
<1> QED
  BY <1>1, SourceTextInvariant, PTL

\* parse_lines ends each line of every text before its line break and after the last
\* character before it, and takes a "\r\n" for one line break.
THEOREM LinesOfEveryTextHoldNoBreak == SourceSpec => []LinesHoldNoBreak
<1>1. SourceInit => BreaksEndLines
  BY SourceInitBreaks
<1>2. SourceInv /\ BreaksEndLines /\ [SourceNext]_source_vars => BreaksEndLines'
  BY SourceNextBreaks
<1>3. SourceInv /\ BreaksEndLines => LinesHoldNoBreak
  BY BreaksEndLinesSuffices
<1> QED
  BY <1>1, <1>2, <1>3, SourceTextInvariant, PTL DEF SourceSpec

\* index - 1 and lower - 1 of source_text_get_line_index never wrap around and
\* lines.ptr[index] is always a line, for every text and every position in it.
THEOREM SearchStaysInBounds == SourceSpec => []SearchInBounds
<1>1. SourceInv => SearchInBounds
  BY DEF SourceInv
<1> QED
  BY <1>1, SourceTextInvariant, PTL

\* source_text_get_line_index answers with the line that holds the position.
THEOREM SearchFindsTheLine == SourceSpec => []AnswerIsTheLine
<1>1. SourceInv => AnswerIsTheLine
  BY DEF SourceInv
<1> QED
  BY <1>1, SourceTextInvariant, PTL

(***************************************************************************)
(* The characters and the kinds of tokens they make.                       *)
(***************************************************************************)
LEMMA DigitsAre == Digit = { "0", "1", "2", "3", "4", "5", "6", "7", "8", "9" }
<1>1. DOMAIN DigitSpellings = 1..10
  BY DEF DigitSpellings
<1>2. \A i \in 1..10 : i = 1 \/ i = 2 \/ i = 3 \/ i = 4 \/ i = 5 \/ i = 6 \/ i = 7 \/ i = 8 \/ i = 9 \/ i = 10
  OBVIOUS
<1> QED
  BY <1>1, <1>2 DEF Digit, Seqs!ToSet, DigitSpellings

LEMMA ClassesAreDisjoint ==
  /\ Digit \cap Space = {} /\ Digit \cap Letter = {} /\ Space \cap Letter = {}
  /\ (DOMAIN Single) \cap (Digit \cup Space \cup Letter) = {}
  /\ (DOMAIN Paired) \cap (Digit \cup Space \cup Letter) = {}
  /\ (DOMAIN Single) \cap (DOMAIN Paired) = {}
  /\ { CR, LF } \subseteq Space
<1> DEFINE D == { "0", "1", "2", "3", "4", "5", "6", "7", "8", "9" }
<1>1. DOMAIN Single = { "+", "-", "*", "/", "(", ")" } /\ DOMAIN Paired = { "!", "=", "&", "|" }
  BY DEF Single, Paired
<1>2. D \cap Space = {} /\ D \cap Letter = {} /\ Space \cap Letter = {}
  BY DEF Space, Letter, CR, LF
<1>3. { "+", "-", "*", "/", "(", ")" } \cap (D \cup Space \cup Letter) = {}
  BY DEF Space, Letter, CR, LF
<1>4. { "!", "=", "&", "|" } \cap (D \cup Space \cup Letter) = {}
  BY DEF Space, Letter, CR, LF
<1> QED
  BY <1>1, <1>2, <1>3, <1>4, DigitsAre DEF Space

LEMMA SingleKinds == \A c \in DOMAIN Single : Single[c] \in OperatorKinds \cup ParenthesisKinds
<1>1. DOMAIN Single = { "+", "-", "*", "/", "(", ")" }
  BY DEF Single
<1>2. /\ Single["+"] = "PLUS_TOKEN" /\ Single["-"] = "MINUS_TOKEN"
      /\ Single["*"] = "STAR_TOKEN" /\ Single["/"] = "SLASH_TOKEN"
      /\ Single["("] = "OPEN_PARENTHESIS_TOKEN" /\ Single[")"] = "CLOSE_PARENTHESIS_TOKEN"
  BY DEF Single
<1> QED
  BY <1>1, <1>2 DEF OperatorKinds, ParenthesisKinds

LEMMA PairedKinds ==
  \A c \in DOMAIN Paired :
     /\ Paired[c].both \in OperatorKinds
     /\ Paired[c].alone \in OperatorKinds \cup { "BAD_TOKEN" }
     /\ Paired[c].second \in { "=", "&", "|" }
<1>1. DOMAIN Paired = { "!", "=", "&", "|" }
  BY DEF Paired
<1>2. /\ Paired["!"] = Pair("=", "BANG_EQUALS_TOKEN", "BANG_TOKEN")
      /\ Paired["="] = Pair("=", "EQUALS_EQUALS_TOKEN", "EQUALS_TOKEN")
      /\ Paired["&"] = Pair("&", "AMPERSAND_AMPERSAND_TOKEN", "BAD_TOKEN")
      /\ Paired["|"] = Pair("|", "PIPE_PIPE_TOKEN", "BAD_TOKEN")
  BY DEF Paired
<1> QED
  BY <1>1, <1>2 DEF Pair, OperatorKinds

LEMMA WordKinds == \A word : KeywordKind(word) \in KeywordKinds \cup { "IDENTIFIER_TOKEN" }
BY DEF KeywordKind, KeywordKinds

(***************************************************************************)
(* The end of a run of characters of a class.                              *)
(***************************************************************************)
LEMMA RunEndFacts ==
  ASSUME text \in Seq(Character), NEW p \in 0..Len(text), NEW class
  PROVE  /\ RunEnd(p, class) \in p..Len(text)
         /\ RunEnd(p, class) < Len(text) => CharAt(RunEnd(p, class)) \notin class
         /\ \A r \in p..RunEnd(p, class) - 1 : CharAt(r) \in class
         /\ p < Len(text) /\ CharAt(p) \in class => p < RunEnd(p, class)
<1> DEFINE T == { q \in p..Len(text) : q < Len(text) => CharAt(q) \notin class }
           Stops(q) == /\ q < Len(text) => CharAt(q) \notin class
                       /\ \A r \in p..q - 1 : CharAt(r) \in class
<1>1. Len(text) \in Nat
  OBVIOUS
<1>2. Len(text) \in T /\ T \subseteq Nat
  BY <1>1
<1>3. PICK q \in T : \A r \in T : q <= r
  BY <1>2, LeastElement
<1>4. ASSUME NEW r \in p..q - 1 PROVE CharAt(r) \in class
  <2>1. r \in p..Len(text) /\ r < Len(text) /\ ~(q <= r)
    BY <1>1, <1>3
  <2> QED
    BY <2>1, <1>3
<1>5. \E e \in p..Len(text) : Stops(e)
  BY <1>3, <1>4
<1> DEFINE end == CHOOSE e \in p..Len(text) : Stops(e)
<1>6. end \in p..Len(text) /\ Stops(end)
  <2> HIDE DEF Stops
  <2> QED
    BY <1>5
<1>7. RunEnd(p, class) = end
  BY DEF RunEnd
<1> HIDE DEF end
<1>8. p < Len(text) /\ CharAt(p) \in class => p < end
  <2> SUFFICES ASSUME p < Len(text), CharAt(p) \in class, ~(p < end) PROVE FALSE
    OBVIOUS
  <2>1. end = p
    BY <1>1, <1>6
  <2> QED
    BY <2>1, <1>6
<1> QED
  BY <1>6, <1>7, <1>8

(***************************************************************************)
(* What characters spell: it shows in the first and the last of them.      *)
(***************************************************************************)
LEMMA SpelledCharacters ==
  ASSUME NEW s \in Seq(Character), NEW kind, Spells(s, kind), NEW i \in 1..Len(s)
  PROVE  \/ \A j \in 1..Len(s) : s[j] \in Digit
         \/ \A j \in 1..Len(s) : s[j] \in Space
         \/ \A j \in 1..Len(s) : s[j] \in Letter
         \/ /\ Len(s) = 1 /\ s[1] \in DOMAIN Single
         \/ /\ Len(s) = 1 /\ s[1] \in DOMAIN Paired
            /\ Paired[s[1]].alone \in OperatorKinds \cup ParenthesisKinds
         \/ /\ Len(s) = 2 /\ s[1] \in DOMAIN Paired /\ s[2] = Paired[s[1]].second
<1>1. \A class : Seqs!ToSet(s) \subseteq class => \A j \in 1..Len(s) : s[j] \in class
  BY LenProperties DEF Seqs!ToSet
<1> QED
  BY <1>1 DEF Spells

LEMMA RunSpellsNoMore ==
  ASSUME NEW class \in { Digit, Space, Letter }, NEW s \in Seq(Character),
         Len(s) >= 2, s[1] \in class, s[Len(s)] \notin class
  PROVE  ~IsSpelling(s)
<1> SUFFICES ASSUME NEW kind, Spells(s, kind) PROVE FALSE
  BY DEF IsSpelling
<1>1. 1 \in 1..Len(s) /\ Len(s) \in 1..Len(s) /\ Len(s) # 1
  OBVIOUS
<1>2. s[1] \in Digit \cup Space \cup Letter
  OBVIOUS
<1>3. s[1] \notin DOMAIN Single /\ s[1] \notin DOMAIN Paired
  BY <1>2, ClassesAreDisjoint
<1>4. \/ \A j \in 1..Len(s) : s[j] \in Digit
      \/ \A j \in 1..Len(s) : s[j] \in Space
      \/ \A j \in 1..Len(s) : s[j] \in Letter
  BY <1>1, <1>3, SpelledCharacters
<1>5. ~(\A j \in 1..Len(s) : s[j] \in class)
  BY <1>1
<1>6. \/ class # Digit /\ s[1] \in Digit
      \/ class # Space /\ s[1] \in Space
      \/ class # Letter /\ s[1] \in Letter
  BY <1>1, <1>4, <1>5
<1> QED
  BY <1>6, ClassesAreDisjoint

LEMMA OperatorSpellsNoMore ==
  ASSUME NEW s \in Seq(Character), Len(s) >= 2,
         s[1] \in DOMAIN Single \/ s[1] \in DOMAIN Paired,
         Len(s) = 2 /\ s[1] \in DOMAIN Paired => s[2] # Paired[s[1]].second
  PROVE  ~IsSpelling(s)
<1> SUFFICES ASSUME NEW kind, Spells(s, kind) PROVE FALSE
  BY DEF IsSpelling
<1>1. 1 \in 1..Len(s) /\ Len(s) # 1
  OBVIOUS
<1>2. s[1] \notin Digit \cup Space \cup Letter
  BY ClassesAreDisjoint
<1> QED
  BY <1>1, <1>2, SpelledCharacters

LEMMA BadSpellsNothing ==
  ASSUME NEW s \in Seq(Character), Len(s) >= 1,
         s[1] \notin DOMAIN Single \cup DOMAIN Paired \cup Digit \cup Space \cup Letter
  PROVE  ~IsSpelling(s)
<1> SUFFICES ASSUME NEW kind, Spells(s, kind) PROVE FALSE
  BY DEF IsSpelling
<1>1. 1 \in 1..Len(s)
  OBVIOUS
<1> QED
  BY <1>1, SpelledCharacters

LEMMA HalfAPairSpellsNothing ==
  ASSUME NEW s \in Seq(Character), Len(s) = 1, s[1] \in DOMAIN Paired,
         Paired[s[1]].alone = "BAD_TOKEN"
  PROVE  ~IsSpelling(s)
<1> SUFFICES ASSUME NEW kind, Spells(s, kind) PROVE FALSE
  BY DEF IsSpelling
<1>1. 1 \in 1..Len(s)
  OBVIOUS
<1>2. s[1] \notin Digit \cup Space \cup Letter /\ s[1] \notin DOMAIN Single
  BY ClassesAreDisjoint
<1>3. "BAD_TOKEN" \notin OperatorKinds \cup ParenthesisKinds
  BY DEF OperatorKinds, ParenthesisKinds
<1> QED
  BY <1>1, <1>2, <1>3, SpelledCharacters

(***************************************************************************)
(* What every action of the lexer does: one more token, from position to   *)
(* end, and perhaps a report of the same span.                             *)
(***************************************************************************)
LEMMA ReadToken ==
  ASSUME SourceInv, LexerInv, LexingNow,
         NEW kind \in TokenKinds \cup TriviaKinds, NEW end \in position..Len(text), NEW value,
         NEW token, token = [ kind |-> kind, start |-> position, length |-> end - position, value |-> value ],
         Return(kind, end, value),
         end = position <=> kind = "END_OF_FILE_TOKEN",
         kind = "END_OF_FILE_TOKEN" => position = Len(text),
         IsLongest(token),
         kind \notin TriviaKinds => WithinLine(token),
         reports' = reports \/ (Report(end - position) /\ WithinLine(token))
  PROVE  LexerInv'
<1>1. PICK n \in Nat : n = Len(tokens)
  BY LenProperties DEF LexerInv, LexerTypeOK
<1>2. position \in Nat /\ Len(text) \in Nat /\ position <= Len(text) /\ end \in Nat /\ end - position \in Nat
  BY DEF SourceInv, SourceTypeOK, LexerInv, LexerTypeOK
<1>3. /\ tokens' \in Seq({ tokens'[i] : i \in 1..Len(tokens') })
      /\ Len(tokens') = n + 1
      /\ \A i \in 1..n : tokens'[i] = tokens[i]
      /\ tokens'[n + 1] = token
  <2>1. tokens \in Seq({ tokens[i] : i \in 1..Len(tokens) })
    BY DEF LexerInv, LexerTypeOK
  <2>2. tokens' = Append(tokens, token)
    BY DEF Return
  <2> QED
    BY <1>1, <2>1, <2>2, PushAny
<1>4. /\ token.kind = kind /\ token.start = position /\ token.length = end - position
      /\ TokenEnd(token) = end
  BY <1>2 DEF TokenEnd
<1>5. position' = end /\ text' = text
  BY DEF Return, source_vars
<1>6. \A i \in 1..n + 1 : i \in 1..n \/ i = n + 1
  OBVIOUS
<1>7. \A i \in 1..n : tokens[i].kind # "END_OF_FILE_TOKEN"
  BY <1>1 DEF LexingNow
<1>8. LexerTypeOK'
  <2>1. \A i \in 1..n : /\ tokens[i].kind \in TokenKinds \cup TriviaKinds
                        /\ tokens[i].start \in Nat /\ tokens[i].length \in Nat
                        /\ TokenEnd(tokens[i]) \in Nat /\ TokenEnd(tokens[i]) <= position
    <3>1. \A i \in 1..n : /\ tokens[i].kind \in TokenKinds \cup TriviaKinds
                          /\ tokens[i].start \in Nat /\ tokens[i].length \in Nat
                          /\ TokenEnd(tokens[i]) <= position
      BY <1>1 DEF LexerInv, LexerTypeOK
    <3> QED
      BY <3>1 DEF TokenEnd
  <2>2. \A i \in 1..n + 1 : /\ tokens'[i].kind \in TokenKinds \cup TriviaKinds
                            /\ tokens'[i].start \in Nat /\ tokens'[i].length \in Nat
                            /\ TokenEnd(tokens'[i]) <= end
    <3> SUFFICES ASSUME NEW i \in 1..n + 1
                 PROVE  /\ tokens'[i].kind \in TokenKinds \cup TriviaKinds
                        /\ tokens'[i].start \in Nat /\ tokens'[i].length \in Nat
                        /\ TokenEnd(tokens'[i]) <= end
      OBVIOUS
    <3>1. CASE i \in 1..n
      <4>1. tokens'[i] = tokens[i]
        BY <1>3, <3>1
      <4>2. TokenEnd(tokens[i]) \in Nat /\ TokenEnd(tokens[i]) <= position
        BY <2>1, <3>1
      <4>3. TokenEnd(tokens[i]) <= end
        BY <1>2, <4>2
      <4> QED
        BY <2>1, <3>1, <4>1, <4>3
    <3>2. CASE i = n + 1
      BY <1>2, <1>3, <1>4, <3>2
    <3> QED
      BY <1>6, <3>1, <3>2
  <2>3. reports' \in Seq([ start : Nat, length : Nat ])
    <3>1. reports \in Seq([ start : Nat, length : Nat ])
      BY DEF LexerInv, LexerTypeOK
    <3>2. [ start |-> position, length |-> end - position ] \in [ start : Nat, length : Nat ]
      BY <1>2
    <3>3. CASE reports' = reports
      BY <3>1, <3>3
    <3>4. CASE Report(end - position)
      BY <3>1, <3>2, <3>4, PushOne DEF Report
    <3> QED
      BY <3>3, <3>4
  <2>4. end \in 0..Len(text)
    BY <1>2
  <2> QED
    BY <1>3, <1>5, <2>2, <2>3, <2>4 DEF LexerTypeOK, TokenEnd
<1>9. TokensTileText'
  <2>1. /\ position = IF tokens = <<>> THEN 0 ELSE TokenEnd(tokens[n])
        /\ \A i \in 1..n :
              /\ tokens[i].start = IF i = 1 THEN 0 ELSE TokenEnd(tokens[i - 1])
              /\ (tokens[i].length = 0) <=> (tokens[i].kind = "END_OF_FILE_TOKEN")
    BY <1>1 DEF LexerInv, TokensTileText
  <2>2. tokens' # <<>>
    BY <1>3
  <2>3. tokens = <<>> <=> n = 0
    BY <1>1, EmptySeq DEF LexerInv, LexerTypeOK
  <2>4. ASSUME NEW i \in 1..n + 1
        PROVE  /\ tokens'[i].start = IF i = 1 THEN 0 ELSE TokenEnd(tokens'[i - 1])
               /\ (tokens'[i].length = 0) <=> (tokens'[i].kind = "END_OF_FILE_TOKEN")
               /\ tokens'[i].kind = "END_OF_FILE_TOKEN" => i = n + 1 /\ end = Len(text)
    <3>1. CASE i \in 1..n
      <4>1. tokens'[i] = tokens[i] /\ (i # 1 => tokens'[i - 1] = tokens[i - 1])
        BY <1>3, <3>1
      <4> QED
        BY <2>1, <3>1, <4>1, <1>7
    <3>2. CASE i = n + 1
      <4>1. tokens'[i].start = IF i = 1 THEN 0 ELSE TokenEnd(tokens'[i - 1])
        <5>1. CASE n = 0
          BY <1>3, <1>4, <2>1, <2>3, <3>2, <5>1
        <5>2. CASE n # 0
          <6>1. i - 1 = n /\ n \in 1..n /\ i # 1
            BY <3>2, <5>2
          <6> QED
            BY <1>3, <1>4, <2>1, <2>3, <3>2, <5>2, <6>1
        <5> QED
          BY <5>1, <5>2
      <4>2. (tokens'[i].length = 0) <=> (tokens'[i].kind = "END_OF_FILE_TOKEN")
        BY <1>2, <1>3, <1>4, <3>2
      <4>3. tokens'[i].kind = "END_OF_FILE_TOKEN" => end = Len(text)
        BY <1>3, <1>4, <3>2
      <4> QED
        BY <3>2, <4>1, <4>2, <4>3
    <3> QED
      BY <1>6, <3>1, <3>2
  <2>5. position' = TokenEnd(tokens'[n + 1])
    BY <1>3, <1>4, <1>5
  <2> QED
    BY <1>3, <1>5, <2>2, <2>4, <2>5 DEF TokensTileText, TokenEnd
<1>10. TokensAreLongest'
  <2>1. \A i \in 1..n : IsLongest(tokens[i])
    BY <1>1 DEF LexerInv, TokensAreLongest
  <2>2. (\A i \in 1..Len(tokens) : IsLongest(tokens[i]))'
    BY <1>3, <1>5, <1>6, <2>1 DEF IsLongest, Slice, TokenEnd
  <2> QED
    BY <2>2 DEF TokensAreLongest
<1>11. SpansHoldNoBreak'
  <2>1. /\ \A i \in 1..n : tokens[i].kind \notin TriviaKinds => WithinLine(tokens[i])
        /\ \A i \in 1..Len(reports) : WithinLine(reports[i])
    BY <1>1 DEF LexerInv, SpansHoldNoBreak
  <2>2. (\A i \in 1..Len(tokens) : tokens[i].kind \notin TriviaKinds => WithinLine(tokens[i]))'
    BY <1>3, <1>4, <1>5, <1>6, <2>1 DEF WithinLine, CharAt
  <2>3. (\A i \in 1..Len(reports) : WithinLine(reports[i]))'
    <3>1. CASE reports' = reports
      BY <1>5, <2>1, <3>1 DEF WithinLine, CharAt
    <3>2. CASE Report(end - position) /\ WithinLine(token)
      <4> DEFINE s == [ start |-> position, length |-> end - position ]
      <4>1. s \in [ start : Nat, length : Nat ]
        BY <1>2
      <4>2. WithinLine(s)
        BY <1>4, <3>2 DEF WithinLine
      <4>3. reports \in Seq([ start : Nat, length : Nat ]) /\ Len(reports) \in Nat
        BY DEF LexerInv, LexerTypeOK
      <4>4. /\ reports' = Append(reports, s)
            /\ Len(Append(reports, s)) = Len(reports) + 1
            /\ \A i \in 1..Len(reports) : Append(reports, s)[i] = reports[i]
            /\ Append(reports, s)[Len(reports) + 1] = s
        BY <3>2, <4>1, <4>3, PushOne DEF Report
      <4> HIDE DEF s
      <4>5. \A i \in 1..Len(Append(reports, s)) : WithinLine(Append(reports, s)[i])
        <5>1. \A i \in 1..Len(Append(reports, s)) : i \in 1..Len(reports) \/ i = Len(reports) + 1
          BY <4>3, <4>4
        <5> QED
          BY <2>1, <4>2, <4>4, <5>1
      <4> QED
        BY <1>5, <4>4, <4>5 DEF WithinLine, CharAt
    <3> QED
      BY <3>1, <3>2
  <2> QED
    BY <2>2, <2>3 DEF SpansHoldNoBreak
<1> QED
  BY <1>8, <1>9, <1>10, <1>11 DEF LexerInv

(***************************************************************************)
(* One lemma for each action.                                              *)
(***************************************************************************)
LEMMA SliceCharacters ==
  ASSUME text \in Seq(Character), NEW from \in Nat, NEW to \in Nat, from <= to, to <= Len(text)
  PROVE  /\ Slice(from, to) \in Seq(Character)
         /\ Len(Slice(from, to)) = to - from
         /\ \A i \in 1..to - from : Slice(from, to)[i] = CharAt(from + i - 1)
<1>1. \A i \in 1..to - from : from + i - 1 + 1 = from + i
  OBVIOUS
<1> QED
  BY <1>1, Slicing DEF Slice, CharAt

\* Where the lexer is.
LEMMA LexerIsInText ==
  ASSUME SourceInv, LexerInv
  PROVE  /\ text \in Seq(Character) /\ Len(text) \in Nat
         /\ position \in Nat /\ position <= Len(text)
         /\ ~AtEnd <=> position < Len(text)
         /\ AtEnd <=> position = Len(text)
BY DEF SourceInv, SourceTypeOK, LexerInv, LexerTypeOK, AtEnd

LEMMA ReadRun ==
  ASSUME SourceInv, LexerInv, NEW class \in { Digit, Space, Letter }, At(class),
         NEW end, end = RunEnd(position, class)
  PROVE  /\ end \in position + 1 .. Len(text)
         /\ \A p \in position .. end - 1 : CharAt(p) \in class
         /\ Seqs!ToSet(Slice(position, end)) \subseteq class
         /\ end < Len(text) => ~IsSpelling(Slice(position, end + 1))
<1>1. /\ text \in Seq(Character) /\ Len(text) \in Nat /\ position \in Nat
      /\ position < Len(text) /\ CharAt(position) \in class /\ position \in 0..Len(text)
  BY LexerIsInText DEF At
<1>2. /\ end \in position..Len(text) /\ position < end
      /\ end < Len(text) => CharAt(end) \notin class
      /\ \A p \in position .. end - 1 : CharAt(p) \in class
  BY <1>1, RunEndFacts
<1>3. end \in position + 1 .. Len(text) /\ end \in Nat
  BY <1>1, <1>2
<1>4. Seqs!ToSet(Slice(position, end)) \subseteq class
  <2> DEFINE own == Slice(position, end)
  <2>1. /\ own \in Seq(Character) /\ Len(own) = end - position
        /\ \A i \in 1..end - position : own[i] = CharAt(position + i - 1)
    <3>1. position <= end /\ end <= Len(text)
      BY <1>1, <1>3
    <3> QED
      BY <1>1, <1>3, <3>1, SliceCharacters
  <2> HIDE DEF own
  <2>2. \A i \in 1..end - position : position + i - 1 \in position .. end - 1
    BY <1>1, <1>3
  <2>3. \A i \in 1..Len(own) : own[i] \in class
    BY <1>2, <2>1, <2>2
  <2> QED
    BY <2>1, <2>3, LenProperties DEF own, Seqs!ToSet
<1>5. ASSUME end < Len(text) PROVE ~IsSpelling(Slice(position, end + 1))
  <2> DEFINE more == Slice(position, end + 1)
  <2>1. end + 1 \in Nat /\ position <= end + 1 /\ end + 1 <= Len(text)
    BY <1>1, <1>3, <1>5
  <2>2. /\ more \in Seq(Character) /\ Len(more) = end + 1 - position
        /\ \A i \in 1..end + 1 - position : more[i] = CharAt(position + i - 1)
    <3>1. PICK to \in Nat : to = end + 1
      BY <1>3
    <3>2. /\ Slice(position, to) \in Seq(Character) /\ Len(Slice(position, to)) = to - position
          /\ \A i \in 1..to - position : Slice(position, to)[i] = CharAt(position + i - 1)
      BY <1>1, <2>1, <3>1, SliceCharacters
    <3> QED
      BY <1>1, <1>3, <3>1, <3>2
  <2> HIDE DEF more
  <2>3. /\ 1 \in 1..end + 1 - position /\ position + 1 - 1 = position
        /\ end + 1 - position \in 1..end + 1 - position
        /\ position + (end + 1 - position) - 1 = end
        /\ end + 1 - position >= 2
    BY <1>1, <1>3
  <2>4. more[1] = CharAt(position) /\ more[Len(more)] = CharAt(end) /\ Len(more) >= 2
    BY <2>2, <2>3
  <2>5. more[1] \in class /\ more[Len(more)] \notin class
    BY <1>1, <1>2, <1>5, <2>4
  <2> QED
    BY <2>2, <2>4, <2>5, RunSpellsNoMore DEF more
<1> QED
  BY <1>2, <1>3, <1>4, <1>5

\* A token that is a run of characters of a class, none of them a line break unless
\* it is trivia.
LEMMA ReadRunToken ==
  ASSUME SourceInv, LexerInv, NEW class \in { Digit, Space, Letter }, At(class),
         NEW end, end = RunEnd(position, class), NEW value,
         NEW kind \in TokenKinds \cup TriviaKinds, Spells(Slice(position, end), kind),
         kind \notin { "END_OF_FILE_TOKEN", "BAD_TOKEN" },
         kind \notin TriviaKinds => class # Space,
         Return(kind, end, value),
         reports' = reports \/ (Report(end - position) /\ class # Space)
  PROVE  LexerInv'
<1> DEFINE token == [ kind |-> kind, start |-> position, length |-> end - position, value |-> value ]
<1>1. position \in Nat /\ Len(text) \in Nat /\ position <= Len(text) /\ LexingNow
  BY LexerIsInText DEF At
<1>2. /\ end \in position + 1 .. Len(text)
      /\ \A p \in position .. end - 1 : CharAt(p) \in class
      /\ end < Len(text) => ~IsSpelling(Slice(position, end + 1))
  BY ReadRun
<1>3. end \in position..Len(text) /\ end # position /\ position + (end - position) = end
  BY <1>1, <1>2
<1>4. token.kind = kind /\ token.start = position /\ token.length = end - position
  OBVIOUS
<1> HIDE DEF token
<1>5. TokenEnd(token) = end
  BY <1>3, <1>4 DEF TokenEnd
<1>6. IsLongest(token)
  BY <1>2, <1>4, <1>5 DEF IsLongest
<1>7. class # Space => WithinLine(token)
  <2> SUFFICES ASSUME class # Space PROVE WithinLine(token)
    OBVIOUS
  <2>1. \A p \in position .. end - 1 : CharAt(p) \notin { CR, LF }
    BY <1>2, ClassesAreDisjoint
  <2>2. position \in position .. end - 1 /\ end <= Len(text)
    BY <1>1, <1>2
  <2>3. token.start + token.length = end /\ token.start = position
    BY <1>3, <1>4
  <2> QED
    BY <1>1, <1>2, <1>4, <2>1, <2>2, <2>3 DEF WithinLine
<1> QED
  BY <1>1, <1>3, <1>6, <1>7, ReadToken DEF token

LEMMA LexNumberInv == SourceInv /\ LexerInv /\ LexNumber => LexerInv'
<1> SUFFICES ASSUME SourceInv, LexerInv, LexNumber PROVE LexerInv'
  OBVIOUS
<1> DEFINE end   == RunEnd(position, Digit)
           value == Str2I64(Slice(position, end))
<1>1. At(Digit) /\ Return("NUMBER_TOKEN", end, value) /\ (reports' = reports \/ Report(end - position))
  BY DEF LexNumber
<1>2. Seqs!ToSet(Slice(position, end)) \subseteq Digit
  BY <1>1, ReadRun
<1> HIDE DEF end, value
<1>3. Spells(Slice(position, end), "NUMBER_TOKEN")
  BY <1>2 DEF Spells
<1>4. "NUMBER_TOKEN" \in TokenKinds /\ "NUMBER_TOKEN" \notin TriviaKinds
  BY DEF TokenKinds, TriviaKinds
<1>5. Digit # Space
  BY <1>1, ClassesAreDisjoint DEF At
<1> QED
  BY <1>1, <1>3, <1>4, <1>5, ReadRunToken DEF end

LEMMA LexWhitespaceInv == SourceInv /\ LexerInv /\ LexWhitespace => LexerInv'
<1> SUFFICES ASSUME SourceInv, LexerInv, LexWhitespace PROVE LexerInv'
  OBVIOUS
<1> DEFINE end == RunEnd(position, Space)
<1>1. At(Space) /\ Return("WHITESPACE_TOKEN", end, NullObject) /\ reports' = reports
  BY DEF LexWhitespace
<1>2. Seqs!ToSet(Slice(position, end)) \subseteq Space
  BY <1>1, ReadRun
<1> HIDE DEF end
<1>3. Spells(Slice(position, end), "WHITESPACE_TOKEN")
  BY <1>2 DEF Spells
<1>4. "WHITESPACE_TOKEN" \in TriviaKinds
  BY DEF TriviaKinds
<1> QED
  BY <1>1, <1>3, <1>4, ReadRunToken DEF end

LEMMA LexWordInv == SourceInv /\ LexerInv /\ LexWord => LexerInv'
<1> SUFFICES ASSUME SourceInv, LexerInv, LexWord PROVE LexerInv'
  OBVIOUS
<1> DEFINE end  == RunEnd(position, Letter)
           kind == KeywordKind(Slice(position, end))
<1>1. At(Letter) /\ Return(kind, end, NullObject) /\ reports' = reports
  BY DEF LexWord
<1>2. Seqs!ToSet(Slice(position, end)) \subseteq Letter
  BY <1>1, ReadRun
<1>3. kind \in KeywordKinds \cup { "IDENTIFIER_TOKEN" }
  BY WordKinds
<1>4. Spells(Slice(position, end), kind)
  BY <1>2, <1>3 DEF Spells
<1> HIDE DEF end, kind
<1>5. /\ kind \in TokenKinds \cup TriviaKinds
      /\ kind \notin { "END_OF_FILE_TOKEN", "BAD_TOKEN" }
  BY <1>3 DEF TokenKinds, FixedTextKinds, KeywordKinds
<1>6. Letter # Space
  BY <1>1, ClassesAreDisjoint DEF At
<1> QED
  BY <1>1, <1>4, <1>5, <1>6, ReadRunToken DEF end

\* The slices a token of one or two characters is about.
LEMMA ShortSlice ==
  ASSUME SourceInv, LexerInv, ~AtEnd, NEW width \in 1..3, position + width <= Len(text)
  PROVE  /\ Slice(position, position + width) \in Seq(Character)
         /\ Len(Slice(position, position + width)) = width
         /\ Slice(position, position + width)[1] = CharAt(position)
         /\ width >= 2 => Slice(position, position + width)[2] = CharAt(position + 1)
<1>1. /\ text \in Seq(Character) /\ Len(text) \in Nat /\ position \in Nat
  BY LexerIsInText
<1>2. PICK to \in Nat : to = position + width
  BY <1>1
<1>3. position <= to /\ to <= Len(text) /\ to - position = width
  BY <1>1, <1>2
<1>4. /\ Slice(position, to) \in Seq(Character) /\ Len(Slice(position, to)) = to - position
      /\ \A i \in 1..to - position : Slice(position, to)[i] = CharAt(position + i - 1)
  BY <1>1, <1>3, SliceCharacters
<1>5. position + 1 - 1 = position /\ position + 2 - 1 = position + 1 /\ 1 \in 1..width
  BY <1>1
<1>6. width >= 2 => 2 \in 1..width
  OBVIOUS
<1> QED
  BY <1>2, <1>3, <1>4, <1>5, <1>6

\* A token of so many characters, the first of which is no line break and the others
\* of which neither.
LEMMA ReadShortToken ==
  ASSUME SourceInv, LexerInv, LexingNow, ~AtEnd,
         NEW width \in 1..2, position + width <= Len(text),
         NEW kind \in TokenKinds \cup TriviaKinds, kind # "END_OF_FILE_TOKEN",
         IF kind = "BAD_TOKEN" THEN ~IsSpelling(Slice(position, position + width))
                               ELSE Spells(Slice(position, position + width), kind),
         position + width < Len(text) => ~IsSpelling(Slice(position, position + width + 1)),
         CharAt(position) \notin { CR, LF },
         width = 2 => CharAt(position + 1) \notin { CR, LF },
         Return(kind, position + width, NullObject),
         reports' = reports \/ Report(width)
  PROVE  LexerInv'
<1> DEFINE token(end) == [ kind |-> kind, start |-> position, length |-> end - position, value |-> NullObject ]
<1>1. position \in Nat /\ Len(text) \in Nat /\ position < Len(text)
  BY LexerIsInText
<1>2. PICK end \in Nat : end = position + width
  BY <1>1
<1>3. end \in position..Len(text) /\ end # position /\ end - position = width
  BY <1>1, <1>2
<1>4. /\ token(end).kind = kind /\ token(end).start = position /\ token(end).length = width
      /\ position + width = end
  BY <1>2, <1>3
<1>5. TokenEnd(token(end)) = end
  BY <1>4 DEF TokenEnd
<1>6. IsLongest(token(end))
  BY <1>2, <1>4, <1>5 DEF IsLongest
<1>7. WithinLine(token(end))
  <2>1. ASSUME NEW p \in position .. end - 1 PROVE CharAt(p) \notin { CR, LF }
    <3>1. p = position \/ (width = 2 /\ p = position + 1)
      BY <1>1, <1>2
    <3> QED
      BY <3>1
  <2>2. position + width - 1 = end - 1 /\ end <= Len(text)
    BY <1>1, <1>2
  <2> QED
    BY <1>1, <1>4, <2>1, <2>2 DEF WithinLine
<1>8. PICK t : t = token(end)
  OBVIOUS
<1>9. reports' = reports \/ (Report(end - position) /\ WithinLine(t))
  BY <1>3, <1>7, <1>8
<1>10. Return(kind, end, NullObject)
  BY <1>2
<1> QED
  BY <1>3, <1>6, <1>7, <1>8, <1>9, <1>10, ReadToken

LEMMA LexSingleInv == SourceInv /\ LexerInv /\ LexSingle => LexerInv'
<1> SUFFICES ASSUME SourceInv, LexerInv, LexSingle PROVE LexerInv'
  OBVIOUS
<1> DEFINE kind == Single[CharAt(position)]
<1>1. /\ LexingNow /\ ~AtEnd /\ CharAt(position) \in DOMAIN Single
      /\ Return(kind, position + 1, NullObject) /\ reports' = reports
  BY DEF LexSingle, At
<1>2. position \in Nat /\ Len(text) \in Nat /\ position + 1 <= Len(text) /\ position + 1 + 1 = position + 2
  BY <1>1, LexerIsInText
<1>3. kind \in OperatorKinds \cup ParenthesisKinds
  BY <1>1, SingleKinds
<1>4. CharAt(position) \notin { CR, LF }
  BY <1>1, ClassesAreDisjoint
<1>5. Spells(Slice(position, position + 1), kind)
  <2>1. /\ Len(Slice(position, position + 1)) = 1
        /\ Slice(position, position + 1)[1] = CharAt(position)
    BY <1>1, <1>2, ShortSlice
  <2> QED
    BY <1>1, <1>3, <2>1 DEF Spells
<1>6. position + 1 < Len(text) => ~IsSpelling(Slice(position, position + 1 + 1))
  <2> SUFFICES ASSUME position + 1 < Len(text) PROVE ~IsSpelling(Slice(position, position + 2))
    BY <1>2
  <2>1. position + 2 <= Len(text)
    BY <1>2
  <2>2. /\ Slice(position, position + 2) \in Seq(Character)
        /\ Len(Slice(position, position + 2)) = 2
        /\ Slice(position, position + 2)[1] = CharAt(position)
    BY <1>1, <2>1, ShortSlice
  <2>3. CharAt(position) \notin DOMAIN Paired
    BY <1>1, ClassesAreDisjoint
  <2> QED
    BY <1>1, <2>2, <2>3, OperatorSpellsNoMore
<1> HIDE DEF kind
<1>7. kind \in TokenKinds \cup TriviaKinds /\ kind # "END_OF_FILE_TOKEN" /\ kind # "BAD_TOKEN"
  BY <1>3 DEF TokenKinds, FixedTextKinds, OperatorKinds, ParenthesisKinds
<1> QED
  BY <1>1, <1>2, <1>4, <1>5, <1>6, <1>7, ReadShortToken

LEMMA LexPairedInv == SourceInv /\ LexerInv /\ LexPaired => LexerInv'
<1> SUFFICES ASSUME SourceInv, LexerInv, LexPaired PROVE LexerInv'
  OBVIOUS
<1> DEFINE c     == CharAt(position)
           taken == position + 1 < Len(text) /\ CharAt(position + 1) = Paired[c].second
           kind  == IF taken THEN Paired[c].both ELSE Paired[c].alone
           width == IF taken THEN 2 ELSE 1
<1>1. /\ LexingNow /\ ~AtEnd /\ c \in DOMAIN Paired
      /\ Return(kind, position + width, NullObject)
      /\ reports' = reports \/ (kind = "BAD_TOKEN" /\ Report(1))
  BY DEF LexPaired, At
<1>2. position \in Nat /\ Len(text) \in Nat /\ position + 1 <= Len(text)
  BY <1>1, LexerIsInText
<1>3. /\ Paired[c].both \in OperatorKinds
      /\ Paired[c].alone \in OperatorKinds \cup { "BAD_TOKEN" }
      /\ Paired[c].second \in { "=", "&", "|" }
  BY <1>1, PairedKinds
<1>4. c \notin { CR, LF } /\ Paired[c].second \notin { CR, LF }
  BY <1>1, <1>3, ClassesAreDisjoint DEF CR, LF
<1>5. OperatorKinds \subseteq TokenKinds /\ "BAD_TOKEN" \in TriviaKinds /\ "BAD_TOKEN" \notin OperatorKinds
      /\ "END_OF_FILE_TOKEN" \notin OperatorKinds
  BY DEF TokenKinds, FixedTextKinds, OperatorKinds, TriviaKinds
<1> HIDE DEF c
<1>6. CASE taken
  <2>1. kind = Paired[c].both /\ width = 2 /\ position + 1 < Len(text) /\ CharAt(position + 1) = Paired[c].second
    BY <1>6
  <2> HIDE DEF kind, width, taken
  <2>2. position + 2 <= Len(text)
    BY <1>2, <2>1
  <2>3. /\ Len(Slice(position, position + 2)) = 2
        /\ Slice(position, position + 2)[1] = c
        /\ Slice(position, position + 2)[2] = CharAt(position + 1)
    BY <1>1, <2>2, ShortSlice DEF c
  <2>4. Spells(Slice(position, position + 2), kind)
    BY <1>1, <1>3, <2>1, <2>3 DEF Spells
  <2>5. ASSUME position + 2 < Len(text) PROVE ~IsSpelling(Slice(position, position + 2 + 1))
    <3>1. position + 3 <= Len(text) /\ position + 2 + 1 = position + 3
      BY <1>2, <2>5
    <3>2. /\ Slice(position, position + 3) \in Seq(Character)
          /\ Len(Slice(position, position + 3)) = 3
          /\ Slice(position, position + 3)[1] = c
      BY <1>1, <3>1, ShortSlice DEF c
    <3>3. ~IsSpelling(Slice(position, position + 3))
      <4>1. PICK s \in Seq(Character) : s = Slice(position, position + 3)
        BY <3>2
      <4>2. Len(s) = 3 /\ s[1] = c
        BY <3>2, <4>1
      <4>3. Len(s) >= 2 /\ Len(s) # 2 /\ s[1] \in DOMAIN Paired
        BY <1>1, <4>2
      <4>4. ~IsSpelling(s)
        BY <4>3, OperatorSpellsNoMore
      <4> QED
        BY <4>1, <4>4
    <3> QED
      BY <3>1, <3>3
  <2>6. kind \in TokenKinds \cup TriviaKinds /\ kind # "END_OF_FILE_TOKEN" /\ kind # "BAD_TOKEN"
    BY <1>3, <1>5, <2>1
  <2>7. CharAt(position) \notin { CR, LF } /\ CharAt(position + 1) \notin { CR, LF }
    BY <1>4, <2>1 DEF c
  <2>8. Return(kind, position + 2, NullObject) /\ reports' = reports
    BY <1>1, <2>1, <2>6
  <2> QED
    BY <1>1, <2>2, <2>4, <2>5, <2>6, <2>7, <2>8, ReadShortToken
<1>7. CASE ~taken
  <2>1. kind = Paired[c].alone /\ width = 1
    BY <1>7
  <2>2. position + 1 < Len(text) => CharAt(position + 1) # Paired[c].second
    BY <1>7
  <2> HIDE DEF kind, width, taken
  <2>3. /\ Slice(position, position + 1) \in Seq(Character)
        /\ Len(Slice(position, position + 1)) = 1
        /\ Slice(position, position + 1)[1] = c
    BY <1>1, <1>2, ShortSlice DEF c
  <2>4. kind # "BAD_TOKEN" => Spells(Slice(position, position + 1), kind)
    BY <1>1, <1>3, <2>1, <2>3 DEF Spells
  <2>5. kind = "BAD_TOKEN" => ~IsSpelling(Slice(position, position + 1))
    BY <1>1, <2>1, <2>3, HalfAPairSpellsNothing
  <2>6. ASSUME position + 1 < Len(text) PROVE ~IsSpelling(Slice(position, position + 1 + 1))
    <3>1. position + 2 <= Len(text) /\ position + 1 + 1 = position + 2
      BY <1>2, <2>6
    <3>2. /\ Slice(position, position + 2) \in Seq(Character)
          /\ Len(Slice(position, position + 2)) = 2
          /\ Slice(position, position + 2)[1] = c
          /\ Slice(position, position + 2)[2] = CharAt(position + 1)
      BY <1>1, <3>1, ShortSlice DEF c
    <3>3. ~IsSpelling(Slice(position, position + 2))
      BY <1>1, <2>2, <2>6, <3>2, OperatorSpellsNoMore
    <3> QED
      BY <3>1, <3>3
  <2>7. kind \in TokenKinds \cup TriviaKinds /\ kind # "END_OF_FILE_TOKEN"
    BY <1>3, <1>5, <2>1
  <2>8. CharAt(position) \notin { CR, LF }
    BY <1>4 DEF c
  <2>9. Return(kind, position + 1, NullObject) /\ (reports' = reports \/ Report(1))
    BY <1>1, <2>1
  <2> QED
    BY <1>1, <1>2, <2>4, <2>5, <2>6, <2>7, <2>8, <2>9, ReadShortToken
<1> QED
  BY <1>6, <1>7

LEMMA LexBadCharacterInv == SourceInv /\ LexerInv /\ LexBadCharacter => LexerInv'
<1> SUFFICES ASSUME SourceInv, LexerInv, LexBadCharacter PROVE LexerInv'
  OBVIOUS
<1>1. /\ LexingNow /\ ~AtEnd
      /\ CharAt(position) \notin DOMAIN Single \cup DOMAIN Paired \cup Digit \cup Space \cup Letter
      /\ Return("BAD_TOKEN", position + 1, NullObject) /\ Report(1)
  BY DEF LexBadCharacter
<1>2. position \in Nat /\ Len(text) \in Nat /\ position + 1 <= Len(text) /\ position + 1 + 1 = position + 2
  BY <1>1, LexerIsInText
<1>3. CharAt(position) \notin { CR, LF }
  BY <1>1, ClassesAreDisjoint
<1>4. ~IsSpelling(Slice(position, position + 1))
  <2>1. /\ Slice(position, position + 1) \in Seq(Character)
        /\ Len(Slice(position, position + 1)) = 1
        /\ Slice(position, position + 1)[1] = CharAt(position)
    BY <1>1, <1>2, ShortSlice
  <2> QED
    BY <1>1, <2>1, BadSpellsNothing
<1>5. position + 1 < Len(text) => ~IsSpelling(Slice(position, position + 1 + 1))
  <2> SUFFICES ASSUME position + 1 < Len(text) PROVE ~IsSpelling(Slice(position, position + 2))
    BY <1>2
  <2>1. position + 2 <= Len(text)
    BY <1>2
  <2>2. /\ Slice(position, position + 2) \in Seq(Character)
        /\ Len(Slice(position, position + 2)) = 2
        /\ Slice(position, position + 2)[1] = CharAt(position)
    BY <1>1, <2>1, ShortSlice
  <2> QED
    BY <1>1, <2>2, BadSpellsNothing
<1>6. "BAD_TOKEN" \in TriviaKinds
  BY DEF TriviaKinds
<1> QED
  BY <1>1, <1>2, <1>3, <1>4, <1>5, <1>6, ReadShortToken

LEMMA LexEndOfFileInv == SourceInv /\ LexerInv /\ LexEndOfFile => LexerInv'
<1> SUFFICES ASSUME SourceInv, LexerInv, LexEndOfFile PROVE LexerInv'
  OBVIOUS
<1> DEFINE token == [ kind |-> "END_OF_FILE_TOKEN", start |-> position, length |-> position - position,
                      value |-> NullObject ]
<1>1. /\ LexingNow /\ AtEnd /\ Return("END_OF_FILE_TOKEN", position, NullObject) /\ reports' = reports
  BY DEF LexEndOfFile
<1>2. position \in Nat /\ Len(text) \in Nat /\ position = Len(text) /\ position - position = 0
  BY <1>1, LexerIsInText
<1>3. token.kind = "END_OF_FILE_TOKEN" /\ token.start = position /\ token.length = 0
  BY <1>2
<1> HIDE DEF token
<1>4. IsLongest(token)
  BY <1>3 DEF IsLongest
<1>5. WithinLine(token)
  <2>1. position + 0 = position /\ \A p \in position .. position + 0 - 1 : FALSE
    BY <1>2
  <2> QED
    BY <1>2, <1>3, <2>1 DEF WithinLine
<1>6. "END_OF_FILE_TOKEN" \in TokenKinds /\ position \in position..Len(text)
  BY <1>2 DEF TokenKinds
<1> QED
  BY <1>1, <1>2, <1>4, <1>5, <1>6, ReadToken DEF token

LEMMA LexerNextInv == SourceInv /\ LexerInv /\ LexerNext => LexerInv'
BY LexSingleInv, LexPairedInv, LexEndOfFileInv, LexNumberInv, LexWhitespaceInv, LexWordInv,
   LexBadCharacterInv DEF LexerNext

LEMMA LexerInitInv == SourceInit /\ LexerInit => LexerInv
<1> SUFFICES ASSUME SourceInit, LexerInit PROVE LexerInv
  OBVIOUS
<1>1. Len(tokens) = 0 /\ Len(reports) = 0 /\ tokens = <<>> /\ reports = <<>> /\ position = 0
  BY DEF LexerInit
<1>2. text \in Seq(Character)
  BY TextsAssumption DEF SourceInit
<1>3. LexerTypeOK
  BY <1>1, <1>2, EmptySeq DEF LexerTypeOK
<1>4. TokensTileText /\ TokensAreLongest /\ SpansHoldNoBreak
  BY <1>1 DEF TokensTileText, TokensAreLongest, SpansHoldNoBreak
<1> QED
  BY <1>3, <1>4 DEF LexerInv

(***************************************************************************)
(* What str2i64 makes of digits.                                           *)
(***************************************************************************)

\* A function on 0..n may be given by its first value and how to go on.
Follows(f, S, start, step, n) ==
    f \in [ 0..n -> S ] /\ f[0] = start /\ \A k \in 1..n : f[k] = step[k][f[k - 1]]

LEMMA Recursion ==
  ASSUME NEW S, NEW start \in S, NEW n \in Nat, NEW step \in [ 1..n -> [ S -> S ] ]
  PROVE  \E f : Follows(f, S, start, step, n)
<1> DEFINE Upto(m) == \E f : Follows(f, S, start, step, m)
           T == { m \in 0..n : ~Upto(m) }
<1>1. T = {}
  <2> SUFFICES ASSUME T # {} PROVE FALSE
    OBVIOUS
  <2>1. PICK m \in T : \A other \in T : m <= other
    <3>1. T \subseteq Nat
      OBVIOUS
    <3> QED
      BY <3>1, LeastElement
  <2> HIDE DEF T
  <2>2. m \in 0..n /\ ~Upto(m)
    BY <2>1 DEF T
  <2>3. CASE m = 0
    <3>1. PICK f : f = [ k \in 0..0 |-> start ]
      OBVIOUS
    <3>2. f \in [ 0..0 -> S ] /\ f[0] = start
      BY <3>1
    <3>3. Upto(0)
      BY <3>2 DEF Follows
    <3> QED
      BY <2>2, <2>3, <3>3
  <2>4. CASE m # 0
    <3>1. PICK l \in 0..n : m = l + 1
      BY <2>2, <2>4
    <3>2. l \notin T
      BY <2>1, <3>1
    <3>3. PICK f : Follows(f, S, start, step, l)
      BY <3>1, <3>2 DEF T
    <3>4. PICK g : g = [ k \in 0..m |-> IF k = m THEN step[m][f[l]] ELSE f[k] ]
      OBVIOUS
    <3>5. f[l] \in S /\ m \in 1..n
      BY <2>2, <2>4, <3>1, <3>3 DEF Follows
    <3>6. step[m][f[l]] \in S
      BY <3>5
    <3>7. \A k \in 0..l : k \in 0..m /\ k # m
      BY <3>1
    <3>8. \A k \in 0..l : g[k] = f[k]
      BY <3>4, <3>7
    <3>9. \A k \in 0..m : k = m \/ k \in 0..l
      BY <3>1
    <3>10. g \in [ 0..m -> S ]
      BY <3>3, <3>4, <3>6, <3>9 DEF Follows
    <3>11. ASSUME NEW k \in 1..m PROVE g[k] = step[k][g[k - 1]]
      <4>1. CASE k = m
        <5>1. k - 1 = l /\ l \in 0..l /\ m \in 0..m
          BY <3>1, <4>1
        <5> QED
          BY <3>4, <3>8, <4>1, <5>1
      <4>2. CASE k # m
        <5>1. k \in 1..l /\ k \in 0..l /\ k - 1 \in 0..l
          BY <3>1, <4>2
        <5> QED
          BY <3>3, <3>8, <5>1 DEF Follows
      <4> QED
        BY <4>1, <4>2
    <3>12. g[0] = start
      <4>1. 0 \in 0..l
        BY <3>1
      <4> QED
        BY <3>3, <3>8, <4>1 DEF Follows
    <3> QED
      BY <2>2, <3>10, <3>11, <3>12 DEF Follows
  <2> QED
    BY <2>3, <2>4
<1>2. n \in 0..n
  OBVIOUS
<1>3. Upto(n)
  BY <1>1, <1>2
<1> QED
  BY <1>3

\* 2 ^ IntWidth is more than MaxInt: it is the number of the sets of IntWidth things.
LEMMA Powers == 2 ^ IntWidth \in Nat /\ MaxInt \in Nat /\ MaxInt < 2 ^ IntWidth
<1>1. PICK w \in Nat : IntWidth = w + 1
  BY IntWidthAssumption
<1>2. IntWidth \in Nat /\ IntWidth - 1 = w
  BY <1>1
<1>3. ASSUME NEW m \in Nat
      PROVE  /\ IsFiniteSet(SUBSET (1..m)) /\ 2 ^ m = Cardinality(SUBSET (1..m))
             /\ 2 ^ m \in Nat
  <2>1. IsFiniteSet(1..m) /\ Cardinality(1..m) = m
    BY FS_Interval
  <2>2. IsFiniteSet(SUBSET (1..m)) /\ Cardinality(SUBSET (1..m)) = 2 ^ m
    BY <2>1, FS_SUBSET
  <2> QED
    BY <2>2, FS_CardinalityType
<1>4. 2 ^ w <= 2 ^ IntWidth
  <2>1. SUBSET (1..w) \in SUBSET (SUBSET (1..IntWidth))
    <3>1. 1..w \subseteq 1..IntWidth
      BY <1>1
    <3> QED
      BY <3>1
  <2>2. Cardinality(SUBSET (1..w)) <= Cardinality(SUBSET (1..IntWidth))
    BY <1>2, <1>3, <2>1, FS_Subset
  <2> QED
    BY <1>2, <1>3, <2>2
<1>5. 2 ^ w # 0
  <2>1. SUBSET (1..w) # {}
    OBVIOUS
  <2>2. Cardinality(SUBSET (1..w)) # 0
    BY <1>3, <2>1, FS_EmptySet
  <2> QED
    BY <1>3, <2>2
<1>6. PICK p \in Nat : p = 2 ^ w
  BY <1>3
<1>7. PICK q \in Nat : q = 2 ^ IntWidth
  BY <1>2, <1>3
<1>8. MaxInt = p - 1
  BY <1>2, <1>6 DEF MaxInt
<1> QED
  BY <1>4, <1>5, <1>6, <1>7, <1>8

LEMMA DigitValues == \A c \in Digit : DigitValue(c) \in 0..9
<1> SUFFICES ASSUME NEW c \in Digit PROVE DigitValue(c) \in 0..9
  OBVIOUS
<1>1. PICK i \in 1..10 : DigitSpellings[i] = c
  <2>1. DOMAIN DigitSpellings = 1..10
    BY DEF DigitSpellings
  <2> QED
    BY <2>1 DEF Digit, Seqs!ToSet
<1>2. PICK d \in 0..9 : i = d + 1
  <2>1. i - 1 \in 0..9 /\ i = i - 1 + 1
    OBVIOUS
  <2> QED
    BY <2>1
<1>3. \E e \in 0..9 : DigitSpellings[e + 1] = c
  BY <1>1, <1>2
<1> QED
  BY <1>3 DEF DigitValue

\* One more digit, where it fits and where it does not.
Sum(i, overflow) == [ i |-> i, overflow |-> overflow ]

LEMMA AddDigitAdds ==
  ASSUME NEW i \in Nat, NEW d \in 0..9
  PROVE  /\ i <= MaxInt => AddDigit(Sum(i, FALSE), d)
                             = IF 10 * i + d <= MaxInt THEN Sum(10 * i + d, FALSE) ELSE Sum(i, TRUE)
         /\ \E j \in Nat : AddDigit(Sum(i, TRUE), d) = Sum(j, TRUE)
<1>1. PICK m \in Nat : m = MaxInt
  BY Powers
<1>2. PICK cutoff \in Nat : cutoff = Cutoff
  BY <1>1 DEF Cutoff
<1>3. PICK cutlim \in 0..9 : cutlim = Cutlim
  BY <1>1 DEF Cutlim
<1>4. m = 10 * cutoff + cutlim
  BY <1>1, <1>2, <1>3 DEF Cutoff, Cutlim
<1>5. PICK w \in Nat : w = 2 ^ IntWidth /\ m < w
  BY <1>1, Powers
<1>6. (i > cutoff \/ (i = cutoff /\ d > cutlim)) <=> ~(10 * i + d <= m)
  BY <1>4
<1>7. PICK new \in Nat : new = 10 * i + d /\ new = i * 10 + d
  OBVIOUS
<1>8. new % w \in Nat /\ (new < w => new % w = new)
  BY <1>5
<1>9. ASSUME i <= m
      PROVE  AddDigit(Sum(i, FALSE), d) = IF 10 * i + d <= m THEN Sum(10 * i + d, FALSE) ELSE Sum(i, TRUE)
  <2>1. CASE new <= m
    <3>1. new < w
      BY <1>5, <2>1
    <3>2. AddDigit(Sum(i, FALSE), d) = Sum(new % w, FALSE)
      BY <1>2, <1>3, <1>5, <1>6, <1>7, <2>1 DEF AddDigit, Sum
    <3> QED
      BY <1>7, <1>8, <2>1, <3>1, <3>2
  <2>2. CASE ~(new <= m)
    <3>1. AddDigit(Sum(i, FALSE), d) = Sum(i, TRUE)
      BY <1>2, <1>3, <1>6, <1>7, <2>2 DEF AddDigit, Sum
    <3> QED
      BY <1>7, <2>2, <3>1
  <2> QED
    BY <2>1, <2>2
<1>10. \E j \in Nat : AddDigit(Sum(i, TRUE), d) = Sum(j, TRUE)
  <2>1. CASE i > Cutoff \/ (i = Cutoff /\ d > Cutlim)
    <3>1. AddDigit(Sum(i, TRUE), d) = Sum(i, TRUE)
      BY <2>1 DEF AddDigit, Sum
    <3> QED
      BY <3>1
  <2>2. CASE ~(i > Cutoff \/ (i = Cutoff /\ d > Cutlim))
    <3>1. AddDigit(Sum(i, TRUE), d) = Sum(new % w, TRUE)
      BY <1>5, <1>7, <2>2 DEF AddDigit, Sum
    <3> QED
      BY <1>8, <3>1
  <2> QED
    BY <2>1, <2>2
<1> QED
  BY <1>1, <1>9, <1>10

\* The sums of the digits as the code adds them up and as the numeral says.
Summed(sum, digits, n) ==
    sum = [ k \in 0..n |-> IF k = 0 THEN [ i |-> 0, overflow |-> FALSE ]
                           ELSE AddDigit(sum[k - 1], DigitValue(digits[k])) ]
Valued(value, digits, n) ==
    value = [ k \in 0..n |-> IF k = 0 THEN 0 ELSE 10 * value[k - 1] + DigitValue(digits[k]) ]

LEMMA SumsExist ==
  ASSUME NEW n \in Nat, NEW digits \in [ 1..n -> Digit ]
  PROVE  (\E sum : Summed(sum, digits, n)) /\ (\E value : Valued(value, digits, n))
<1>1. (\A k \in 1..n : DigitValue(digits[k]) \in 0..9) /\ \A k \in 0..n : k # 0 => k \in 1..n
  BY DigitValues
<1>2. \E sum : Summed(sum, digits, n)
  <2>1. PICK S : S = [ i : Nat, overflow : BOOLEAN ]
    OBVIOUS
  <2>2. [ i |-> 0, overflow |-> FALSE ] \in S
    BY <2>1
  <2>3. ASSUME NEW k \in 1..n, NEW s \in S PROVE AddDigit(s, DigitValue(digits[k])) \in S
    <3>1. PICK d \in 0..9 : d = DigitValue(digits[k])
      BY <1>1
    <3>2. PICK w \in Nat : w = 2 ^ IntWidth /\ w > 0
      BY Powers
    <3>3. s.i \in Nat /\ s.overflow \in BOOLEAN /\ (s.i * 10 + d) % w \in Nat
      BY <2>1, <3>2
    <3>4. s = [ i |-> s.i, overflow |-> s.overflow ]
      BY <2>1
    <3>5. [ s EXCEPT !.overflow = TRUE ] \in S /\ [ s EXCEPT !.i = (@ * 10 + d) % w ] \in S
      BY <2>1, <3>3, <3>4
    <3> QED
      BY <3>1, <3>2, <3>5 DEF AddDigit
  <2>4. PICK step : step = [ k \in 1..n |-> [ s \in S |-> AddDigit(s, DigitValue(digits[k])) ] ]
    OBVIOUS
  <2>5. step \in [ 1..n -> [ S -> S ] ]
    BY <2>3, <2>4
  <2>6. PICK start \in S : start = [ i |-> 0, overflow |-> FALSE ]
    BY <2>2
  <2>7. PICK f : Follows(f, S, start, step, n)
    BY <2>5, Recursion
  <2>8. f \in [ 0..n -> S ] /\ f[0] = start /\ \A k \in 1..n : f[k] = step[k][f[k - 1]]
    BY <2>7 DEF Follows
  <2>9. ASSUME NEW k \in 0..n
        PROVE  f[k] = IF k = 0 THEN start ELSE AddDigit(f[k - 1], DigitValue(digits[k]))
    <3>1. CASE k = 0
      BY <2>8, <3>1
    <3>2. CASE k # 0
      <4>1. k \in 1..n /\ k - 1 \in 0..n
        BY <3>2
      <4>2. f[k - 1] \in S
        BY <2>8, <4>1
      <4> QED
        BY <2>4, <2>8, <3>2, <4>1, <4>2
    <3> QED
      BY <3>1, <3>2
  <2>10. f = [ k \in 0..n |-> f[k] ]
    BY <2>8
  <2>11. f = [ k \in 0..n |-> IF k = 0 THEN start ELSE AddDigit(f[k - 1], DigitValue(digits[k])) ]
    BY <2>9, <2>10
  <2>12. Summed(f, digits, n)
    BY <2>6, <2>11 DEF Summed
  <2> QED
    BY <2>12
<1>3. \E value : Valued(value, digits, n)
  <2>1. PICK step : step = [ k \in 1..n |-> [ s \in Nat |-> 10 * s + DigitValue(digits[k]) ] ]
    OBVIOUS
  <2>2. step \in [ 1..n -> [ Nat -> Nat ] ]
    <3>1. ASSUME NEW k \in 1..n, NEW s \in Nat PROVE 10 * s + DigitValue(digits[k]) \in Nat
      <4>1. PICK d \in 0..9 : d = DigitValue(digits[k])
        BY <1>1
      <4> QED
        BY <4>1
    <3> QED
      BY <2>1, <3>1
  <2>3. PICK f : Follows(f, Nat, 0, step, n)
    BY <2>2, 0 \in Nat, Recursion
  <2>4. f \in [ 0..n -> Nat ] /\ f[0] = 0 /\ \A k \in 1..n : f[k] = step[k][f[k - 1]]
    BY <2>3 DEF Follows
  <2>5. ASSUME NEW k \in 0..n
        PROVE  f[k] = IF k = 0 THEN 0 ELSE 10 * f[k - 1] + DigitValue(digits[k])
    <3>1. CASE k = 0
      BY <2>4, <3>1
    <3>2. CASE k # 0
      <4>1. k \in 1..n /\ k - 1 \in 0..n
        BY <3>2
      <4>2. f[k - 1] \in Nat
        BY <2>4, <4>1
      <4> QED
        BY <2>1, <2>4, <3>2, <4>1, <4>2
    <3> QED
      BY <3>1, <3>2
  <2>6. f = [ k \in 0..n |-> f[k] ]
    BY <2>4
  <2>7. Valued(f, digits, n)
    BY <2>5, <2>6 DEF Valued
  <2> QED
    BY <2>7
<1> QED
  BY <1>2, <1>3

\* They agree as long as the number is in range, and from then on it is not.
Agrees(s, v) == IF v <= MaxInt THEN s = Sum(v, FALSE) ELSE \E j \in Nat : s = Sum(j, TRUE)

LEMMA SumsAgree ==
  ASSUME NEW n \in Nat, NEW digits \in [ 1..n -> Digit ],
         NEW sum, Summed(sum, digits, n), NEW value, Valued(value, digits, n)
  PROVE  value[n] \in Nat /\ Agrees(sum[n], value[n])
<1> DEFINE T == { k \in 0..n : ~(value[k] \in Nat /\ Agrees(sum[k], value[k])) }
<1>1. T = {}
  <2> SUFFICES ASSUME T # {} PROVE FALSE
    OBVIOUS
  <2>1. PICK k \in T : \A other \in T : k <= other
    <3>1. T \subseteq Nat
      OBVIOUS
    <3> QED
      BY <3>1, LeastElement
  <2> HIDE DEF T
  <2>2. k \in 0..n /\ ~(value[k] \in Nat /\ Agrees(sum[k], value[k]))
    BY <2>1 DEF T
  <2>3. CASE k = 0
    <3>1. value[k] = 0 /\ sum[k] = Sum(0, FALSE)
      BY <2>2, <2>3 DEF Summed, Valued, Sum
    <3>2. 0 <= MaxInt
      BY Powers
    <3> QED
      BY <2>2, <3>1, <3>2 DEF Agrees
  <2>4. CASE k # 0
    <3>1. PICK l \in 0..n : l = k - 1 /\ ~(k <= l) /\ k \in 1..n
      BY <2>2, <2>4
    <3>2. l \notin T
      BY <2>1, <3>1
    <3>3. PICK v \in Nat : v = value[l] /\ Agrees(sum[l], v)
      BY <3>2 DEF T
    <3>4. PICK d \in 0..9 : d = DigitValue(digits[k])
      BY <3>1, DigitValues
    <3>5. value[k] = 10 * v + d
      BY <2>2, <2>4, <3>1, <3>3, <3>4 DEF Valued
    <3>6. sum[k] = AddDigit(sum[l], d)
      BY <2>2, <2>4, <3>1, <3>4 DEF Summed
    <3>7. PICK m \in Nat : m = MaxInt
      BY Powers
    <3>8. CASE v <= m
      <4>1. sum[k] = IF 10 * v + d <= m THEN Sum(10 * v + d, FALSE) ELSE Sum(v, TRUE)
        BY <3>3, <3>6, <3>7, <3>8, AddDigitAdds DEF Agrees
      <4>2. 10 * v + d \in Nat
        OBVIOUS
      <4> QED
        BY <2>2, <3>5, <3>7, <4>1, <4>2 DEF Agrees
    <3>9. CASE ~(v <= m)
      <4>1. PICK j \in Nat : sum[l] = Sum(j, TRUE)
        BY <3>3, <3>7, <3>9 DEF Agrees
      <4>2. \E i \in Nat : sum[k] = Sum(i, TRUE)
        <5>1. PICK i \in Nat : AddDigit(Sum(j, TRUE), d) = Sum(i, TRUE)
          BY AddDigitAdds
        <5> QED
          BY <3>6, <4>1, <5>1
      <4>3. 10 * v + d \in Nat /\ ~(10 * v + d <= m)
        BY <3>9
      <4> QED
        BY <2>2, <3>5, <3>7, <4>2, <4>3 DEF Agrees
    <3> QED
      BY <3>8, <3>9
  <2> QED
    BY <2>3, <2>4
<1>2. n \in 0..n
  OBVIOUS
<1> QED
  BY <1>1, <1>2

LEMMA Str2I64IsDecimal ==
  ASSUME NEW digits \in Seq(Digit)
  PROVE  Str2I64(digits) = IF Decimal(digits) <= MaxInt THEN Int64(Decimal(digits)) ELSE NullObject
<1>1. PICK n \in Nat : n = Len(digits) /\ digits \in [ 1..n -> Digit ]
  <2>1. Len(digits) \in Nat /\ digits \in [ 1..Len(digits) -> Digit ]
    BY LenProperties
  <2> QED
    BY <2>1
<1>2. PICK sum : /\ Summed(sum, digits, n)
                 /\ Str2I64(digits) = IF sum[n].overflow \/ sum[n].i > MaxInt THEN NullObject
                                      ELSE Int64(sum[n].i)
  <2> DEFINE F == CHOOSE sum : sum = [ k \in 0..n |->
                    IF k = 0 THEN [ i |-> 0, overflow |-> FALSE ]
                    ELSE AddDigit(sum[k - 1], DigitValue(digits[k])) ]
  <2>1. Summed(F, digits, n)
    BY <1>1, SumsExist DEF Summed
  <2>2. Str2I64(digits) = IF F[n].overflow \/ F[n].i > MaxInt THEN NullObject ELSE Int64(F[n].i)
    BY <1>1 DEF Str2I64
  <2> HIDE DEF F
  <2> QED
    BY <2>1, <2>2
<1>3. PICK value : Valued(value, digits, n) /\ Decimal(digits) = value[n]
  <2> DEFINE F == CHOOSE value : value = [ k \in 0..n |->
                    IF k = 0 THEN 0 ELSE 10 * value[k - 1] + DigitValue(digits[k]) ]
  <2>1. Valued(F, digits, n)
    BY <1>1, SumsExist DEF Valued
  <2>2. Decimal(digits) = F[n]
    BY <1>1 DEF Decimal
  <2> HIDE DEF F
  <2> QED
    BY <2>1, <2>2
<1>4. PICK v \in Nat : v = value[n] /\ Agrees(sum[n], v)
  BY <1>1, <1>2, <1>3, SumsAgree
<1>5. PICK m \in Nat : m = MaxInt
  BY Powers
<1>6. CASE v <= m
  <2>1. sum[n].i = v /\ sum[n].overflow = FALSE
    BY <1>4, <1>5, <1>6 DEF Agrees, Sum
  <2>2. ~(v > m)
    BY <1>6
  <2> QED
    BY <1>2, <1>3, <1>4, <1>5, <1>6, <2>1, <2>2
<1>7. CASE ~(v <= m)
  <2>1. sum[n].overflow = TRUE
    <3>1. PICK j \in Nat : sum[n] = Sum(j, TRUE)
      BY <1>4, <1>5, <1>7 DEF Agrees
    <3> QED
      BY <3>1 DEF Sum
  <2> QED
    BY <1>2, <1>3, <1>4, <1>5, <1>7, <2>1
<1> QED
  BY <1>6, <1>7

\* Each kind of token, with the value it gets.
LEMMA ReadValue ==
  ASSUME SourceInv, LexerInv, NumbersHaveTheirValue,
         NEW kind, NEW end \in position..Len(text), NEW value, Return(kind, end, value),
         kind = "NUMBER_TOKEN" => /\ Slice(position, end) \in Seq(Digit)
                                  /\ value = Str2I64(Slice(position, end))
  PROVE  NumbersHaveTheirValue'
<1>1. position \in Nat /\ Len(text) \in Nat /\ end \in Nat /\ position + (end - position) = end
  BY LexerIsInText
<1>2. PICK n \in Nat : n = Len(tokens)
  BY LenProperties DEF LexerInv, LexerTypeOK
<1>3. PICK token : token = [ kind |-> kind, start |-> position, length |-> end - position, value |-> value ]
  OBVIOUS
<1>4. tokens' = Append(tokens, token) /\ text' = text
  BY <1>3 DEF Return, source_vars
<1>5. Len(tokens') = n + 1 /\ (\A i \in 1..n : tokens'[i] = tokens[i]) /\ tokens'[n + 1] = token
  BY <1>2, <1>4, PushAny DEF LexerInv, LexerTypeOK
<1>6. \A from, to : Slice(from, to)' = Slice(from, to)
  BY <1>4 DEF Slice
<1> DEFINE Right(t) == LET v == Decimal(Slice(t.start, TokenEnd(t))) IN
                       t.value = IF v <= MaxInt THEN Int64(v) ELSE NullObject
<1>7. ASSUME token.kind = "NUMBER_TOKEN" PROVE Right(token)
  <2>1. token.start = position /\ TokenEnd(token) = end /\ token.value = value /\ kind = "NUMBER_TOKEN"
    BY <1>1, <1>3, <1>7 DEF TokenEnd
  <2>2. PICK digits \in Seq(Digit) : digits = Slice(position, end) /\ value = Str2I64(digits)
    BY <2>1
  <2>3. value = IF Decimal(digits) <= MaxInt THEN Int64(Decimal(digits)) ELSE NullObject
    BY <2>2, Str2I64IsDecimal
  <2> QED
    BY <2>1, <2>2, <2>3
<1>8. \A i \in 1..n : tokens[i].kind = "NUMBER_TOKEN" => Right(tokens[i])
  BY <1>2 DEF NumbersHaveTheirValue
<1> HIDE DEF Right
<1>9. \A i \in 1..n + 1 : i \in 1..n \/ i = n + 1
  OBVIOUS
<1>10. \A i \in 1..Len(tokens') : tokens'[i].kind = "NUMBER_TOKEN" => Right(tokens'[i])
  BY <1>5, <1>7, <1>8, <1>9
<1> QED
  BY <1>6, <1>10 DEF NumbersHaveTheirValue, Right, TokenEnd

LEMMA LexerNextValues ==
  SourceInv /\ LexerInv /\ NumbersHaveTheirValue /\ LexerNext => NumbersHaveTheirValue'
<1> SUFFICES ASSUME SourceInv, LexerInv, NumbersHaveTheirValue, LexerNext PROVE NumbersHaveTheirValue'
  OBVIOUS
<1>1. /\ text \in Seq(Character) /\ Len(text) \in Nat /\ position \in Nat /\ position <= Len(text)
      /\ ~AtEnd => position < Len(text)
  BY LexerIsInText
<1>2. CASE LexNumber
  <2>1. PICK end : end = RunEnd(position, Digit)
    OBVIOUS
  <2>2. At(Digit) /\ Return("NUMBER_TOKEN", end, Str2I64(Slice(position, end)))
    BY <1>2, <2>1 DEF LexNumber
  <2>3. end \in position + 1 .. Len(text) /\ Seqs!ToSet(Slice(position, end)) \subseteq Digit
    BY <2>1, <2>2, ReadRun
  <2>4. end \in Nat /\ position <= end /\ end <= Len(text) /\ end \in position..Len(text)
    BY <1>1, <2>3
  <2>5. Slice(position, end) \in Seq(Digit)
    <3>1. PICK own \in Seq(Character) : own = Slice(position, end)
      BY <1>1, <2>4, SliceCharacters
    <3>2. \A i \in 1..Len(own) : own[i] \in Digit
      BY <2>3, <3>1, LenProperties DEF Seqs!ToSet
    <3> QED
      BY <3>1, <3>2
  <2> QED
    BY <2>2, <2>4, <2>5, ReadValue
<1>3. CASE LexWhitespace \/ LexWord
  <2>1. PICK class \in { Space, Letter } : At(class) /\
           \E kind, value : kind # "NUMBER_TOKEN" /\ Return(kind, RunEnd(position, class), value)
    <3>1. "WHITESPACE_TOKEN" # "NUMBER_TOKEN" /\ \A word : KeywordKind(word) # "NUMBER_TOKEN"
      BY DEF KeywordKind
    <3> QED
      BY <1>3, <3>1 DEF LexWhitespace, LexWord
  <2>2. RunEnd(position, class) \in position..Len(text)
    BY <1>1, RunEndFacts
  <2> QED
    BY <2>1, <2>2, ReadValue
<1>4. CASE LexSingle \/ LexPaired \/ LexEndOfFile \/ LexBadCharacter
  <2>1. PICK end \in { position, position + 1, position + 2 } :
           /\ end <= Len(text)
           /\ \E kind : kind # "NUMBER_TOKEN" /\ Return(kind, end, NullObject)
    <3>1. CASE LexSingle
      <4>1. position + 1 <= Len(text) /\ Single[CharAt(position)] # "NUMBER_TOKEN"
        BY <1>1, <3>1, SingleKinds DEF LexSingle, At, OperatorKinds, ParenthesisKinds
      <4> QED
        BY <3>1, <4>1 DEF LexSingle
    <3>2. CASE LexPaired
      <4>1. PICK pair : pair = Paired[CharAt(position)]
        OBVIOUS
      <4>2. At(DOMAIN Paired) /\ position + 1 <= Len(text)
        BY <1>1, <3>2 DEF LexPaired, At
      <4>3. pair.both # "NUMBER_TOKEN" /\ pair.alone # "NUMBER_TOKEN"
        BY <4>1, <4>2, PairedKinds DEF At, OperatorKinds
      <4>4. CASE position + 1 < Len(text) /\ CharAt(position + 1) = pair.second
        <5>1. Return(pair.both, position + 2, NullObject)
          BY <3>2, <4>1, <4>4 DEF LexPaired
        <5>2. position + 2 <= Len(text)
          BY <1>1, <4>4
        <5> QED
          BY <4>3, <5>1, <5>2
      <4>5. CASE ~(position + 1 < Len(text) /\ CharAt(position + 1) = pair.second)
        <5>1. Return(pair.alone, position + 1, NullObject)
          BY <3>2, <4>1, <4>5 DEF LexPaired
        <5> QED
          BY <4>2, <4>3, <5>1
      <4> QED
        BY <4>4, <4>5
    <3>3. CASE LexEndOfFile
      BY <1>1, <3>3 DEF LexEndOfFile
    <3>4. CASE LexBadCharacter
      <4>1. position + 1 <= Len(text)
        BY <1>1, <3>4 DEF LexBadCharacter
      <4> QED
        BY <3>4, <4>1 DEF LexBadCharacter
    <3> QED
      BY <1>4, <3>1, <3>2, <3>3, <3>4
  <2>2. end \in position..Len(text)
    BY <1>1, <2>1
  <2> QED
    BY <2>1, <2>2, ReadValue
<1> QED
  BY <1>2, <1>3, <1>4 DEF LexerNext

(***************************************************************************)
(* The line breaks before a position.                                      *)
(***************************************************************************)
LEMMA CountNoBreak ==
  ASSUME NEW p \in Nat, NEW q \in Nat, p <= q, \A i \in p .. q - 1 : ~EndsLineBreak(i)
  PROVE  LineBreaksBefore(q) = LineBreaksBefore(p)
<1>1. \A i \in 0..q - 1 : i \in 0..p - 1 \/ i \in p .. q - 1
  OBVIOUS
<1>2. \A i \in 0..p - 1 : i \in 0..q - 1
  OBVIOUS
<1>3. { i \in 0..q - 1 : EndsLineBreak(i) } = { i \in 0..p - 1 : EndsLineBreak(i) }
  BY <1>1, <1>2
<1> QED
  BY <1>3 DEF LineBreaksBefore

LEMMA CountOneBreak ==
  ASSUME NEW p \in Nat, NEW q \in Nat, p <= q, \A i \in p .. q - 1 : ~EndsLineBreak(i),
         EndsLineBreak(q)
  PROVE  LineBreaksBefore(q + 1) = LineBreaksBefore(p) + 1
<1> DEFINE B(n) == { i \in 0..n - 1 : EndsLineBreak(i) }
<1>1. IsFiniteSet(B(q))
  <2>1. IsFiniteSet(0..q - 1)
    BY FS_Interval
  <2>2. B(q) \subseteq 0..q - 1
    OBVIOUS
  <2> QED
    BY <2>1, <2>2, FS_Subset
<1>2. B(q + 1) = B(q) \cup { q }
  <2>1. \A i \in 0..q + 1 - 1 : i \in 0..q - 1 \/ i = q
    OBVIOUS
  <2>2. q \in 0..q + 1 - 1 /\ \A i \in 0..q - 1 : i \in 0..q + 1 - 1
    OBVIOUS
  <2> QED
    BY <2>1, <2>2
<1>3. q \notin B(q)
  OBVIOUS
<1>4. Cardinality(B(q + 1)) = Cardinality(B(q)) + 1
  <2> HIDE DEF B
  <2> QED
    BY <1>1, <1>2, <1>3, FS_AddElement
<1>5. LineBreaksBefore(q) = LineBreaksBefore(p)
  BY CountNoBreak
<1> QED
  BY <1>4, <1>5 DEF LineBreaksBefore

\* What parse_lines skips is no line break, and what it ends a line at is one.
LEMMA BreakLineCounts ==
  ASSUME SourceInv, BreaksEndLines, BreakLine
  PROVE  LineBreaksBefore(scan + LineBreakWidth(scan)) = LineBreaksBefore(line_start) + 1
<1>1. /\ scan \in Nat /\ line_start \in Nat /\ line_start <= scan /\ Len(text) \in Nat
      /\ scan < Len(text)
  BY DEF SourceInv, SourceTypeOK, ScanShape, BreakLine
<1>2. CR # LF
  BY DEF CR, LF
<1>3. \A p \in line_start .. scan - 1 : ~EndsLineBreak(p)
  BY DEF BreaksEndLines, BreakLine, EndsLineBreak
<1>4. CASE CharAt(scan) = CR /\ scan + 1 < Len(text) /\ CharAt(scan + 1) = LF
  <2>1. LineBreakWidth(scan) = 2
    BY <1>4 DEF LineBreakWidth
  <2>2. ~EndsLineBreak(scan)
    BY <1>1, <1>2, <1>4 DEF EndsLineBreak
  <2>3. EndsLineBreak(scan + 1)
    BY <1>4 DEF EndsLineBreak
  <2>4. \A p \in line_start .. scan + 1 - 1 : p = scan \/ p \in line_start .. scan - 1
    BY <1>1
  <2>5. \A p \in line_start .. scan + 1 - 1 : ~EndsLineBreak(p)
    BY <1>3, <2>2, <2>4
  <2>6. scan + 1 \in Nat /\ line_start <= scan + 1 /\ scan + 1 + 1 = scan + 2
    BY <1>1
  <2>7. LineBreaksBefore(scan + 1 + 1) = LineBreaksBefore(line_start) + 1
    BY <1>1, <2>3, <2>5, <2>6, CountOneBreak
  <2> QED
    BY <2>1, <2>6, <2>7
<1>5. CASE ~(CharAt(scan) = CR /\ scan + 1 < Len(text) /\ CharAt(scan + 1) = LF)
  <2>1. CharAt(scan) \in { CR, LF }
    BY <1>5 DEF BreakLine, LineBreakWidth
  <2>2. LineBreakWidth(scan) = 1
    BY <1>5, <2>1 DEF LineBreakWidth
  <2>3. scan + 1 < Len(text) \/ scan + 1 = Len(text)
    BY <1>1
  <2>4. EndsLineBreak(scan)
    BY <1>5, <2>1, <2>3 DEF EndsLineBreak
  <2>5. LineBreaksBefore(scan + 1) = LineBreaksBefore(line_start) + 1
    BY <1>1, <1>3, <2>4, CountOneBreak
  <2> QED
    BY <2>2, <2>5
<1> QED
  BY <1>4, <1>5

LEMMA LinesCountBreaksKept ==
  ASSUME SourceInv, BreaksEndLines, LinesCountBreaks, [SourceNext]_source_vars
  PROVE  LinesCountBreaks'
<1>1. UNCHANGED text
  BY DEF SourceNext, ParseLines, SkipCharacter, BreakLine, LastLine, SearchUnchanged, GetLineIndex,
         Search, Probe, Settle, Answered, source_vars
<1>2. \A p : LineBreaksBefore(p)' = LineBreaksBefore(p)
  BY <1>1 DEF LineBreaksBefore, EndsLineBreak, CharAt
<1>3. PICK n \in Nat : n = Len(lines)
  BY LenProperties DEF SourceInv, SourceTypeOK
<1>4. /\ \A i \in 1..n : LineBreaksBefore(lines[i].start) = i - 1
      /\ ParsingLines => LineBreaksBefore(line_start) = n
  BY <1>3 DEF LinesCountBreaks
<1>5. CASE BreakLine
  <2>1. PICK width \in Nat : width = LineBreakWidth(scan)
    BY <1>5, LineBreakIsInText DEF BreakLine
  <2>2. PICK next : next = scan + width /\ LineBreaksBefore(next) = n + 1
    BY <1>4, <1>5, <2>1, BreakLineCounts DEF BreakLine
  <2>3. /\ lines' = WithLine(width) /\ line_start' = next
        /\ ParsingLines
    BY <1>5, <2>1, <2>2 DEF BreakLine
  <2>4. /\ Len(WithLine(width)) = n + 1
        /\ \A i \in 1..n : WithLine(width)[i] = lines[i]
        /\ WithLine(width)[n + 1].start = line_start
    BY <1>3, <2>3, AddLine
  <2>5. \A i \in 1..n + 1 : LineBreaksBefore(WithLine(width)[i].start) = i - 1
    <3>1. \A i \in 1..n + 1 : i \in 1..n \/ i = n + 1
      OBVIOUS
    <3>2. n + 1 - 1 = n
      OBVIOUS
    <3> QED
      BY <1>4, <2>3, <2>4, <3>1, <3>2
  <2> QED
    BY <1>1, <2>2, <2>3, <2>4, <2>5 DEF LinesCountBreaks, LineBreaksBefore, EndsLineBreak, CharAt
<1>6. CASE LastLine
  <2>1. scan \in Nat /\ line_start \in Nat /\ line_start <= scan /\ ParsingLines
    BY <1>6 DEF SourceInv, SourceTypeOK, ScanShape, LastLine
  <2>2. lines' = WithLine(0) /\ ~ParsingLines'
    BY <1>6, <2>1 DEF LastLine, ParsingLines
  <2>3. /\ Len(WithLine(0)) = n + 1
        /\ \A i \in 1..n : WithLine(0)[i] = lines[i]
        /\ WithLine(0)[n + 1].start = line_start
    BY <1>3, <2>1, AddLine
  <2>4. \A i \in 1..n + 1 : LineBreaksBefore(WithLine(0)[i].start) = i - 1
    <3>1. \A i \in 1..n + 1 : i \in 1..n \/ i = n + 1
      OBVIOUS
    <3>2. n + 1 - 1 = n
      OBVIOUS
    <3> QED
      BY <1>4, <2>1, <2>3, <3>1, <3>2
  <2> QED
    BY <1>1, <2>2, <2>3, <2>4 DEF LinesCountBreaks, LineBreaksBefore, EndsLineBreak, CharAt
<1>7. CASE UNCHANGED << lines, line_start >> /\ (ParsingLines' => ParsingLines)
  BY <1>1, <1>7 DEF LinesCountBreaks, LineBreaksBefore, EndsLineBreak, CharAt
<1>8. BreakLine \/ LastLine \/ (UNCHANGED << lines, line_start >> /\ (ParsingLines' => ParsingLines))
  BY DEF SourceNext, ParseLines, SkipCharacter, GetLineIndex, Search, Probe, Settle, Answered,
         source_vars, ParsingLines
<1> QED
  BY <1>5, <1>6, <1>7, <1>8

(***************************************************************************)
(* The line that the search answers with holds the whole span.             *)
(***************************************************************************)
LEMMA LineFacts ==
  ASSUME SourceInv, BreaksEndLines, Parsed, NEW i \in 1..Len(lines)
  PROVE  /\ lines[i].start \in Nat /\ LineEnd(lines[i]) \in Nat /\ NextStart(i) \in Nat
         /\ lines[i].start <= LineEnd(lines[i]) /\ LineEnd(lines[i]) <= NextStart(i)
         /\ NextStart(i) <= Len(text)
         /\ \A p \in lines[i].start .. NextStart(i) - 1 :
               (p < LineEnd(lines[i])) <=> CharAt(p) \notin { CR, LF }
         /\ i < Len(lines) => LineEnd(lines[i]) < NextStart(i) /\ lines[i + 1].start = NextStart(i)
         /\ i = Len(lines) => LineEnd(lines[i]) = Len(text) /\ NextStart(i) = Len(text)
<1>1. lines \in Seq(TextLine) /\ Len(lines) \in Nat /\ Len(text) \in Nat
  BY DEF SourceInv, SourceTypeOK
<1>2. \A k \in 1..Len(lines) : /\ lines[k].start \in Nat /\ lines[k].length \in Nat
                               /\ lines[k].length_including_line_break \in Nat
  <2>1. \A k \in 1..Len(lines) : lines[k] \in TextLine
    BY <1>1
  <2> QED
    BY <2>1 DEF TextLine
<1>3. /\ \A k \in 1..Len(lines) - 1 : lines[k + 1].start = NextStart(k)
      /\ \A k \in 1..Len(lines) : k < Len(lines) => lines[k].length < lines[k].length_including_line_break
      /\ NextStart(Len(lines)) = Len(text)
      /\ \A j, k \in 1..Len(lines) : j < k => lines[j].start < lines[k].start
  BY DEF SourceInv, LinesTile, StartsIncrease
<1>4. LineEnd(lines[Len(lines)]) = Len(text)
  BY DEF BreaksEndLines
<1>5. \A p \in lines[i].start .. NextStart(i) - 1 :
         (p < LineEnd(lines[i])) <=> CharAt(p) \notin { CR, LF }
  BY DEF BreaksEndLines, EndsAtBreak, NextStart
<1>6. /\ LineEnd(lines[i]) = lines[i].start + lines[i].length
      /\ NextStart(i) = lines[i].start + lines[i].length_including_line_break
  BY DEF LineEnd, NextStart
<1>7. LineEnd(lines[i]) \in Nat /\ NextStart(i) \in Nat /\ lines[i].start <= LineEnd(lines[i])
  BY <1>2, <1>6
<1>8. CASE i = Len(lines)
  <2>1. LineEnd(lines[i]) = Len(text) /\ NextStart(i) = Len(text)
    BY <1>3, <1>4, <1>8
  <2> QED
    BY <1>1, <1>2, <1>5, <1>7, <1>8, <2>1
<1>9. CASE i # Len(lines)
  <2>1. i < Len(lines) /\ i \in 1..Len(lines) - 1 /\ i + 1 \in 1..Len(lines) /\ Len(lines) \in 1..Len(lines)
    BY <1>1, <1>9
  <2>2. LineEnd(lines[i]) < NextStart(i)
    <3>1. lines[i].length < lines[i].length_including_line_break
      BY <1>3, <2>1
    <3> QED
      BY <1>2, <1>6, <3>1
  <2>3. lines[i + 1].start = NextStart(i)
    BY <1>3, <2>1
  <2>4. lines[i + 1].start <= lines[Len(lines)].start
    <3>1. CASE i + 1 = Len(lines)
      BY <1>2, <2>1, <3>1
    <3>2. CASE i + 1 < Len(lines)
      <4>1. lines[i + 1].start < lines[Len(lines)].start
        BY <1>3, <2>1, <3>2
      <4> QED
        BY <1>2, <2>1, <4>1
    <3> QED
      BY <1>1, <2>1, <3>1, <3>2
  <2>5. lines[Len(lines)].start <= Len(text)
    BY <1>2, <1>3, <2>1 DEF NextStart
  <2>6. NextStart(i) <= Len(text)
    BY <1>1, <1>2, <1>7, <2>1, <2>3, <2>4, <2>5
  <2> QED
    BY <1>2, <1>5, <1>7, <2>1, <2>2, <2>3, <2>6
<1> QED
  BY <1>8, <1>9

LEMMA SpanIsOnTheLine ==
  ASSUME SourceInv, BreaksEndLines, lookup = "found", NEW s, s.start \in Nat, s.length \in Nat,
         WithinLine(s), s.start = query, NEW line, line = lines[answer + 1]
  PROVE  /\ line.start \in Nat /\ LineEnd(line) \in Nat
         /\ line.start <= s.start /\ s.start + s.length <= LineEnd(line)
         /\ LineEnd(line) <= Len(text)
         /\ \A p \in line.start .. LineEnd(line) - 1 : CharAt(p) \notin { CR, LF }
         /\ line.start = 0 \/ CharAt(line.start - 1) \in { CR, LF }
         /\ LineEnd(line) = Len(text) \/ CharAt(LineEnd(line)) \in { CR, LF }
<1>1. Parsed /\ Len(lines) \in Nat /\ answer \in Nat /\ Len(text) \in Nat
  BY DEF Parsed, SourceInv, SourceTypeOK
<1>2. /\ answer < Len(lines) /\ lines[answer + 1].start <= query
      /\ answer + 1 < Len(lines) => query < lines[answer + 2].start
  BY DEF SourceInv, AnswerIsTheLine
<1>3. PICK i \in 1..Len(lines) : i = answer + 1
  BY <1>1, <1>2
<1>4. PICK next \in Nat : next = NextStart(i)
  BY <1>1, LineFacts
<1>5. PICK end \in Nat : end = LineEnd(line)
  BY <1>1, <1>3, LineFacts
<1>6. /\ line.start \in Nat /\ line.start <= end /\ end <= next /\ next <= Len(text)
      /\ \A p \in line.start .. next - 1 : (p < end) <=> CharAt(p) \notin { CR, LF }
      /\ i < Len(lines) => end < next /\ lines[i + 1].start = next
      /\ i = Len(lines) => end = Len(text) /\ next = Len(text)
  BY <1>1, <1>3, <1>4, <1>5, LineFacts
<1>7. line.start <= s.start /\ (i < Len(lines) => s.start < next)
  <2>1. i + 1 = answer + 2
    BY <1>1, <1>3
  <2> QED
    BY <1>2, <1>3, <1>6, <2>1
<1>8. /\ s.start \in Nat /\ s.length \in Nat /\ s.start + s.length <= Len(text)
      /\ \A p \in s.start .. s.start + s.length - 1 : CharAt(p) \notin { CR, LF }
      /\ s.start < Len(text) => CharAt(s.start) \notin { CR, LF }
  BY DEF WithinLine
<1>9. s.start + s.length <= end
  <2>1. CASE i = Len(lines)
    BY <1>6, <1>8, <2>1
  <2>2. CASE i < Len(lines)
    <3>1. s.start < next /\ end < next /\ CharAt(end) \in { CR, LF }
      BY <1>6, <1>7, <2>2
    <3>2. s.start < end
      <4>1. s.start \in line.start .. next - 1 /\ s.start < Len(text)
        BY <1>1, <1>6, <1>7, <1>8, <3>1
      <4> QED
        BY <1>6, <1>8, <4>1
    <3>3. ~(end \in s.start .. s.start + s.length - 1)
      BY <1>8, <3>1
    <3> QED
      BY <1>8, <3>2, <3>3
  <2> QED
    BY <1>1, <2>1, <2>2
<1>10. line.start = 0 \/ CharAt(line.start - 1) \in { CR, LF }
  <2>1. CASE i = 1
    <3>1. lines[1].start = 0
      BY <1>1, <1>2 DEF SourceInv, LinesTile, SearchBrackets
    <3> QED
      BY <1>3, <2>1, <3>1
  <2>2. CASE i # 1
    <3>1. PICK j \in 1..Len(lines) : j + 1 = i /\ j < Len(lines)
      <4>1. i - 1 \in 1..Len(lines) /\ i - 1 + 1 = i /\ i - 1 < Len(lines)
        BY <1>1, <2>2
      <4> QED
        BY <4>1
    <3>2. /\ lines[j].start \in Nat /\ LineEnd(lines[j]) \in Nat /\ NextStart(j) \in Nat
          /\ lines[j].start <= LineEnd(lines[j])
          /\ \A p \in lines[j].start .. NextStart(j) - 1 :
                (p < LineEnd(lines[j])) <=> CharAt(p) \notin { CR, LF }
          /\ LineEnd(lines[j]) < NextStart(j) /\ lines[i].start = NextStart(j)
      BY <1>1, <3>1, LineFacts
    <3>3. NextStart(j) - 1 \in lines[j].start .. NextStart(j) - 1 /\ ~(NextStart(j) - 1 < LineEnd(lines[j]))
      BY <3>2
    <3>4. CharAt(NextStart(j) - 1) \in { CR, LF }
      BY <3>2, <3>3
    <3> QED
      BY <1>3, <3>2, <3>4
  <2> QED
    BY <2>1, <2>2
<1>11. end = Len(text) \/ CharAt(end) \in { CR, LF }
  <2>1. i = Len(lines) \/ i < Len(lines)
    BY <1>1
  <2>2. i < Len(lines) => end \in line.start .. next - 1
    BY <1>6
  <2> QED
    BY <1>6, <2>1, <2>2
<1>12. \A p \in line.start .. end - 1 : CharAt(p) \notin { CR, LF }
  <2>1. \A p \in line.start .. end - 1 : p \in line.start .. next - 1 /\ p < end
    BY <1>6
  <2> QED
    BY <1>6, <2>1
<1>13. end <= Len(text)
  BY <1>1, <1>6
<1> QED
  BY <1>5, <1>6, <1>7, <1>9, <1>10, <1>11, <1>12, <1>13

(***************************************************************************)
(* The steps of main.                                                      *)
(***************************************************************************)
\* What can be reported fits on a line.
LEMMA ReportableIsWithinLine ==
  ASSUME SourceInv, LexerInv, NEW s \in Reportable
  PROVE  s.start \in 0..Len(text) /\ s.length \in Nat /\ WithinLine(s)
<1>1. Len(text) \in Nat
  BY DEF SourceInv, SourceTypeOK
<1>2. CASE s \in Seqs!ToSet(reports)
  <2>1. reports \in Seq([ start : Nat, length : Nat ])
    BY DEF LexerInv, LexerTypeOK
  <2>2. PICK i \in 1..Len(reports) : s = reports[i]
    BY <1>2, <2>1, LenProperties DEF Seqs!ToSet
  <2>3. s \in [ start : Nat, length : Nat ] /\ WithinLine(s)
    <3>1. reports[i] \in [ start : Nat, length : Nat ]
      BY <2>1, <2>2, ElementOfSeq
    <3>2. WithinLine(reports[i])
      BY <2>2 DEF LexerInv, SpansHoldNoBreak
    <3> QED
      BY <2>2, <3>1, <3>2
  <2>4. s.start \in Nat /\ s.length \in Nat /\ s.start + s.length <= Len(text)
    BY <2>3 DEF WithinLine
  <2> QED
    BY <1>1, <2>3, <2>4
<1>3. CASE s \in KeptTokenSpans
  <2>1. PICK token \in Seqs!ToSet(tokens) :
           token.kind \notin TriviaKinds /\ s \in { [ start |-> token.start, length |-> length ] :
                                                   length \in { 0, token.length } }
    BY <1>3 DEF KeptTokenSpans
  <2>2. PICK i \in 1..Len(tokens) : token = tokens[i]
    <3>1. tokens \in Seq({ tokens[i] : i \in 1..Len(tokens) })
      BY DEF LexerInv, LexerTypeOK
    <3> QED
      BY <2>1, <3>1, LenProperties DEF Seqs!ToSet
  <2>3. token.start \in Nat /\ token.length \in Nat /\ WithinLine(token)
    BY <2>1, <2>2 DEF LexerInv, LexerTypeOK, SpansHoldNoBreak
  <2>4. /\ token.start + token.length <= Len(text)
        /\ \A p \in token.start .. token.start + token.length - 1 : CharAt(p) \notin { CR, LF }
        /\ token.start < Len(text) => CharAt(token.start) \notin { CR, LF }
    BY <2>3 DEF WithinLine
  <2>5. s.start = token.start /\ (s.length = 0 \/ s.length = token.length)
    BY <2>1
  <2>6. s.start \in 0..Len(text)
    BY <1>1, <2>3, <2>4, <2>5
  <2>7. WithinLine(s)
    <3>1. CASE s.length = token.length
      BY <2>4, <2>5, <3>1 DEF WithinLine
    <3>2. CASE s.length = 0
      <4>1. s.start + 0 <= Len(text) /\ \A p \in s.start .. s.start + 0 - 1 : FALSE
        BY <1>1, <2>6
      <4> QED
        BY <2>4, <2>5, <3>2, <4>1 DEF WithinLine
    <3> QED
      BY <2>5, <3>1, <3>2
  <2> QED
    BY <2>3, <2>5, <2>6, <2>7
<1> QED
  BY <1>2, <1>3 DEF Reportable

LEMMA PrintReportPrints ==
  ASSUME ReportingInv, PrintReport
  PROVE  PrintsTheWholeLine' /\ PrintsThePosition'
<1>1. /\ SourceInv /\ BreaksEndLines /\ LinesCountBreaks /\ lookup = "found"
      /\ span.start = query /\ span.length \in Nat /\ WithinLine(span)
  BY DEF ReportingInv, SpanIsQueried, PrintReport
<1>2. query \in Nat /\ answer \in Nat /\ Len(text) \in Nat /\ answer < Len(lines) /\ Len(lines) \in Nat
  BY <1>1 DEF SourceInv, SourceTypeOK, AnswerIsTheLine
<1>3. PICK line : line = lines[answer + 1]
  OBVIOUS
<1>4. PICK from \in Nat : from = line.start
  BY <1>1, <1>2, <1>3, SpanIsOnTheLine
<1>5. PICK to \in Nat : to = LineEnd(line)
  BY <1>1, <1>2, <1>3, SpanIsOnTheLine
<1>6. PICK first \in Nat : first = span.start
  BY <1>1, <1>2
<1>7. PICK after \in Nat : after = span.start + span.length /\ after = first + span.length
  BY <1>1, <1>6
<1>8. /\ from <= first /\ after <= to /\ to <= Len(text)
      /\ \A p \in from .. to - 1 : CharAt(p) \notin { CR, LF }
      /\ from = 0 \/ CharAt(from - 1) \in { CR, LF }
      /\ to = Len(text) \/ CharAt(to) \in { CR, LF }
  BY <1>1, <1>2, <1>3, <1>4, <1>5, <1>6, <1>7, SpanIsOnTheLine
<1>9. first <= after
  BY <1>1, <1>7
<1>10. Minus(first, from) = first - from /\ Minus(after, first) = after - first /\ Minus(to, after) = to - after
  BY <1>8, <1>9 DEF Minus
<1> DEFINE p == [ line_number |-> answer + 1,
                  character   |-> first - from + 1,
                  prefix      |-> [ start |-> from, length |-> first - from ],
                  error       |-> [ start |-> first, length |-> after - first ],
                  suffix      |-> [ start |-> after, length |-> to - after ] ]
<1>11. printed' = << p >> /\ text' = text
  BY <1>3, <1>4, <1>5, <1>6, <1>7, <1>10 DEF PrintReport, Bounds, Answered
<1>12. /\ p.line_number = answer + 1 /\ p.character = first - from + 1
       /\ p.prefix.start = from /\ p.prefix.length = first - from
       /\ p.error.start = first /\ p.error.length = after - first
       /\ p.suffix.start = after /\ p.suffix.length = to - after
  OBVIOUS
<1>13. printed'[1] = p /\ printed' # NoneSoFar
  BY <1>11 DEF NoneSoFar
<1> HIDE DEF p
<1>14. /\ from + (first - from) = first /\ first + (after - first) = after /\ after + (to - after) = to
  OBVIOUS
<1>15. PrintsTheWholeLine'
  <2>1. /\ p.prefix.start + p.prefix.length = p.error.start
        /\ p.error.start + p.error.length = p.suffix.start
        /\ p.suffix.start + p.suffix.length = to
    BY <1>12, <1>14
  <2>2. /\ \A i \in p.prefix.start .. p.suffix.start + p.suffix.length - 1 : CharAt(i) \notin { CR, LF }
        /\ p.prefix.start = 0 \/ CharAt(p.prefix.start - 1) \in { CR, LF }
        /\ p.suffix.start + p.suffix.length = Len(text) \/ CharAt(p.suffix.start + p.suffix.length) \in { CR, LF }
        /\ p.suffix.start + p.suffix.length <= Len(text)
    BY <1>8, <1>12, <2>1
  <2>3. printed'[1] = p /\ text' = text
    BY <1>11, <1>13
  <2> QED
    BY <2>1, <2>2, <2>3 DEF PrintsTheWholeLine, CharAt
<1>16. LineBreaksBefore(first) = answer
  <2>1. answer + 1 \in 1..Len(lines) /\ answer + 1 - 1 = answer
    BY <1>2
  <2>2. LineBreaksBefore(from) = answer
    <3>1. PICK i \in 1..Len(lines) : i = answer + 1
      BY <1>2, <2>1
    <3>2. lines[i].start = from /\ i - 1 = answer
      BY <1>2, <1>3, <1>4, <3>1
    <3>3. LineBreaksBefore(lines[i].start) = i - 1
      BY <1>1, <3>1 DEF LinesCountBreaks
    <3> QED
      BY <3>2, <3>3
  <2>3. \A i \in from .. first - 1 : i \in from .. to - 1
    BY <1>8, <1>9
  <2>4. \A i \in from .. first - 1 : ~EndsLineBreak(i)
    BY <1>8, <2>3 DEF EndsLineBreak
  <2> QED
    BY <1>8, <2>2, <2>4, CountNoBreak
<1>17. PrintsThePosition'
  <2>1. LineBreaksBefore(first)' = LineBreaksBefore(first)
    BY <1>11 DEF LineBreaksBefore, EndsLineBreak, CharAt
  <2>2. answer + 1 = 1 + answer
    BY <1>2
  <2>3. (LineBreaksBefore(printed[1].error.start))' = answer
    BY <1>11, <1>12, <1>13, <1>16 DEF LineBreaksBefore, EndsLineBreak, CharAt
  <2> QED
    BY <1>12, <1>13, <2>2, <2>3 DEF PrintsThePosition
<1> QED
  BY <1>15, <1>17

\* The other steps print nothing.
LEMMA PrintedKept ==
  ASSUME ReportingInv, UNCHANGED << text, printed >>
  PROVE  PrintsTheWholeLine' /\ PrintsThePosition'
BY DEF ReportingInv, PrintsTheWholeLine, PrintsThePosition, LineBreaksBefore, EndsLineBreak, CharAt

LEMMA LexerKept == LexerInv /\ UNCHANGED << text, lexer_vars >> => LexerInv'
<1> SUFFICES ASSUME LexerInv, UNCHANGED << text, lexer_vars >> PROVE LexerInv'
  OBVIOUS
<1>1. UNCHANGED << text, position, tokens, reports >>
  BY DEF lexer_vars
<1>2. LexerTypeOK'
  BY <1>1 DEF LexerInv, LexerTypeOK, TokenEnd
<1>3. TokensTileText'
  BY <1>1 DEF LexerInv, TokensTileText, TokenEnd
<1>4. TokensAreLongest'
  BY <1>1 DEF LexerInv, TokensAreLongest, IsLongest, Slice, TokenEnd
<1>5. SpansHoldNoBreak'
  BY <1>1 DEF LexerInv, SpansHoldNoBreak, WithinLine, CharAt
<1> QED
  BY <1>2, <1>3, <1>4, <1>5 DEF LexerInv

LEMMA ValuesKept == NumbersHaveTheirValue /\ UNCHANGED << text, lexer_vars >> => NumbersHaveTheirValue'
BY DEF NumbersHaveTheirValue, Slice, TokenEnd, lexer_vars

LEMMA SourceStep ==
  ASSUME ReportingInv, [SourceNext]_source_vars
  PROVE  SourceInv' /\ BreaksEndLines' /\ LinesCountBreaks' /\ UNCHANGED text
<1>1. UNCHANGED text
  BY DEF SourceNext, ParseLines, SkipCharacter, BreakLine, LastLine, SearchUnchanged, GetLineIndex,
         Search, Probe, Settle, Answered, source_vars
<1> QED
  BY <1>1, SourceNextInv, SourceNextBreaks, LinesCountBreaksKept DEF ReportingInv

LEMMA ReportingInitInv == Init => ReportingInv
<1> SUFFICES ASSUME Init PROVE ReportingInv
  OBVIOUS
<1>1. SourceInv /\ BreaksEndLines /\ LexerInv
  BY SourceInitInv, SourceInitBreaks, LexerInitInv DEF Init
<1>2. SpanIsQueried
  BY DEF Init, SourceInit, SpanIsQueried
<1>3. LinesCountBreaks
  <2>1. Len(lines) = 0 /\ line_start = 0
    BY DEF Init, SourceInit
  <2>2. { i \in 0..0 - 1 : EndsLineBreak(i) } = {}
    OBVIOUS
  <2>3. LineBreaksBefore(0) = 0
    BY <2>2, FS_EmptySet DEF LineBreaksBefore
  <2> QED
    BY <2>1, <2>3 DEF LinesCountBreaks
<1>4. PrintsTheWholeLine /\ PrintsThePosition
  BY DEF Init, PrintsTheWholeLine, PrintsThePosition
<1>5. NumbersHaveTheirValue
  BY DEF Init, LexerInit, NumbersHaveTheirValue
<1> QED
  BY <1>1, <1>2, <1>3, <1>4, <1>5 DEF ReportingInv

LEMMA ReportingNextInv == ReportingInv /\ [Next]_vars => ReportingInv'
<1> SUFFICES ASSUME ReportingInv, [Next]_vars PROVE ReportingInv'
  OBVIOUS
<1>1. SourceInv /\ LexerInv /\ NumbersHaveTheirValue
  BY DEF ReportingInv
<1>2. CASE SplitLines
  <2>1. [SourceNext]_source_vars /\ UNCHANGED << lexer_vars, span, printed >>
    BY <1>2 DEF SplitLines, SourceNext
  <2>2. lookup' \notin { "search", "found" }
    BY <1>2 DEF SplitLines, ParseLines, SkipCharacter, BreakLine, LastLine, ParsingLines
  <2>3. SpanIsQueried'
    BY <2>2 DEF SpanIsQueried
  <2> QED
    BY <1>1, <2>1, <2>3, SourceStep, LexerKept, ValuesKept, PrintedKept DEF ReportingInv
<1>3. CASE LexToken
  <2>1. LexerNext /\ UNCHANGED << span, printed >>
    BY <1>3 DEF LexToken
  <2>2. UNCHANGED source_vars /\ LexingNow
    BY <2>1 DEF LexerNext, LexSingle, LexPaired, LexEndOfFile, LexNumber, LexWhitespace, LexWord,
                LexBadCharacter, Return, At
  <2>3. lookup' \notin { "search", "found" }
    BY <2>2 DEF source_vars, LexingNow
  <2>4. SpanIsQueried'
    BY <2>3 DEF SpanIsQueried
  <2> QED
    BY <1>1, <2>1, <2>2, <2>4, SourceStep, LexerNextInv, LexerNextValues, PrintedKept DEF ReportingInv
<1>4. CASE StartReport
  <2>1. PICK s \in Reportable : span' = s /\ GetLineIndex(s.start)
    BY <1>4 DEF StartReport
  <2>2. s.start \in 0..Len(text) /\ s.length \in Nat /\ WithinLine(s)
    BY <1>1, ReportableIsWithinLine
  <2>3. [SourceNext]_source_vars /\ UNCHANGED << lexer_vars, printed >>
    BY <1>4, <2>1, <2>2 DEF StartReport, SourceNext
  <2>4. query' = s.start /\ UNCHANGED text
    BY <2>1 DEF GetLineIndex
  <2>5. SpanIsQueried'
    BY <2>1, <2>2, <2>4 DEF SpanIsQueried, WithinLine, CharAt
  <2> QED
    BY <1>1, <2>3, <2>5, SourceStep, LexerKept, ValuesKept, PrintedKept DEF ReportingInv
<1>5. CASE LookUpLine
  <2>1. [SourceNext]_source_vars /\ UNCHANGED << lexer_vars, span, printed >>
    BY <1>5 DEF LookUpLine, SourceNext
  <2>2. lookup = "search" /\ UNCHANGED << text, query >>
    BY <1>5 DEF LookUpLine, Search, Probe, Settle
  <2>3. SpanIsQueried'
    BY <2>1, <2>2 DEF ReportingInv, SpanIsQueried, WithinLine, CharAt
  <2> QED
    BY <1>1, <2>1, <2>3, SourceStep, LexerKept, ValuesKept, PrintedKept DEF ReportingInv
<1>6. CASE PrintReport
  <2>1. [SourceNext]_source_vars /\ UNCHANGED << lexer_vars, span >>
    BY <1>6 DEF PrintReport, SourceNext
  <2>2. SpanIsQueried'
    BY <1>6 DEF PrintReport, Answered, SpanIsQueried
  <2> QED
    BY <1>1, <1>6, <2>1, <2>2, SourceStep, LexerKept, ValuesKept, PrintReportPrints DEF ReportingInv
<1>7. CASE UNCHANGED vars
  <2>1. UNCHANGED << source_vars, lexer_vars, span, printed >>
    BY <1>7 DEF vars
  <2>2. SpanIsQueried'
    BY <2>1 DEF ReportingInv, SpanIsQueried, WithinLine, CharAt, source_vars
  <2> QED
    BY <1>1, <2>1, <2>2, SourceStep, LexerKept, ValuesKept, PrintedKept DEF ReportingInv
<1> QED
  BY <1>2, <1>3, <1>4, <1>5, <1>6, <1>7 DEF Next

--------------------------------------------------------------------------------

\* Everything the lexer and the printing of reports rely on holds at every step, for
\* every text and every report of the lexer, the parser or the binder.
THEOREM ReportingInvariant == Spec => []ReportingInv
<1>1. Init => ReportingInv
  BY ReportingInitInv
<1>2. ReportingInv /\ [Next]_vars => ReportingInv'
  BY ReportingNextInv
<1> QED
  BY <1>1, <1>2, PTL DEF Spec

\* lexer_next_token drops no character of any text and reads none twice, and only the
\* token that ends it is empty.
THEOREM TokensTileEveryText == Spec => []TokensTileText
<1>1. ReportingInv => TokensTileText
  BY DEF ReportingInv, LexerInv
<1> QED
  BY <1>1, ReportingInvariant, PTL

\* Every token of every text is spelled as its kind is, and no token could have been
\* longer: the branches of lexer_next_token agree with the language.
THEOREM TokensOfEveryTextAreLongest == Spec => []TokensAreLongest
<1>1. ReportingInv => TokensAreLongest
  BY DEF ReportingInv, LexerInv
<1> QED
  BY <1>1, ReportingInvariant, PTL

\* Every number token of every text has the value that its digits spell, or none if
\* that is no int64_t, however many digits there are: str2i64 finds out in time.
THEOREM NumbersOfEveryTextHaveTheirValue == Spec => []NumbersHaveTheirValue
<1>1. ReportingInv => NumbersHaveTheirValue
  BY DEF ReportingInv
<1> QED
  BY <1>1, ReportingInvariant, PTL

\* main prints of every report the whole line it is on, and none of its subtractions
\* of size_t wraps around, for every text.
THEOREM EveryReportPrintsItsLine == Spec => []PrintsTheWholeLine
<1>1. ReportingInv => PrintsTheWholeLine
  BY DEF ReportingInv
<1> QED
  BY <1>1, ReportingInvariant, PTL

\* The line number and the character main prints of every report are those of its
\* place in the text.
THEOREM EveryReportPrintsItsPosition == Spec => []PrintsThePosition
<1>1. ReportingInv => PrintsThePosition
  BY DEF ReportingInv
<1> QED
  BY <1>1, ReportingInvariant, PTL
================================================================================
