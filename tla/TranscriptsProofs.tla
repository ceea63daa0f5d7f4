-------------------------- MODULE TranscriptsProofs --------------------------
(***************************************************************************)
(* What is read of a transcript is what was written, for every agent, any  *)
(* number of lines, tasks and prompts, and whatever half line a reader     *)
(* finds: a prompt is found exactly when it was written since, and a       *)
(* calibration is the largest context of its own task.                     *)
(*                                                                         *)
(* IInv has three parts.  LinesInv: what transcripts there are.  SentInv:  *)
(* which entries a reader finds from an offset.  TasksInv: of each task,   *)
(* the responses before its dispatch, under it and since it began, and     *)
(* what its row, the session's maximum and the daemon know of them.        *)
(***************************************************************************)
EXTENDS Transcripts, WellFoundedInduction, SequenceTheorems, TLAPS

-----------------------------------------------------------------------------
(* Greatest and least *)

\* A bounded set of numbers has a greatest one.
LEMMA GreatestExists ==
  ASSUME NEW n \in Nat, NEW T \in SUBSET (0..n), T # {}
  PROVE  \E m \in T : \A t \in T : m >= t
  <1> DEFINE U == {n - t : t \in T}
  <1>1. T \subseteq Int /\ \A t \in T : n - t \in Nat
    OBVIOUS
  <1>2. U \subseteq Nat /\ U # {}
    BY <1>1
  <1>3. IsWellFoundedOn(OpToRel(<, Nat), Nat)
    BY NatLessThanWellFounded
  <1>4. PICK u \in U : \A v \in U : ~(<<v, u>> \in OpToRel(<, Nat))
    BY <1>2, <1>3, WFMin
  <1>5. \A v \in U : ~(v < u)
    BY <1>2, <1>4 DEF OpToRel
  <1>6. PICK m \in T : u = n - m
    OBVIOUS
  <1>7. ASSUME NEW t \in T PROVE m >= t
    <2>1. n - t \in U
      OBVIOUS
    <2>2. ~(n - t < n - m)
      BY <1>5, <1>6, <2>1
    <2> QED
      BY <1>1, <2>2
  <1> QED
    BY <1>7

\* Max is the greatest of a set of contexts, an unknown one among them.
LEMMA MaxIs ==
  ASSUME NEW n \in Nat, NEW T \in SUBSET (0..n), T # {}
  PROVE  Max(T) \in T /\ \A t \in T : Max(T) >= t
  <1>1. \E m \in T : \A t \in T : m >= t
    BY GreatestExists
  <1> QED
    BY <1>1 DEF Max

LEMMA MinIs ==
  ASSUME NEW T \in SUBSET Nat, T # {}
  PROVE  Min(T) \in T /\ \A t \in T : Min(T) <= t
  <1>1. PICK m \in T : \A t \in T : ~(<<t, m>> \in OpToRel(<, Nat))
    BY NatLessThanWellFounded, WFMin
  <1>2. ASSUME NEW t \in T PROVE m <= t
    <2>1. ~(t < m)
      BY <1>1 DEF OpToRel
    <2> QED
      BY <2>1
  <1>3. \E x \in T : \A t \in T : x =< t
    BY <1>2
  <1> QED
    BY <1>3 DEF Min

LEMMA MaxOfTwo ==
  ASSUME NEW a \in Int, NEW b \in Int
  PROVE  /\ Max({a, b}) \in {a, b}
         /\ Max({a, b}) >= a /\ Max({a, b}) >= b
  <1>1. \E x \in {a, b} : \A y \in {a, b} : x >= y
    <2>1. CASE a >= b
      BY <2>1
    <2>2. CASE b >= a
      BY <2>2
    <2> QED
      BY <2>1, <2>2
  <1> QED
    BY <1>1 DEF Max

-----------------------------------------------------------------------------
(* Lines *)

\* What agents write: only Cursor ends its turns with a line, which stays the
\* last and is never half written; it queues nothing, uses nothing it tells of,
\* and shows a prompt with the reply to it.
Shape ==
  /\ torn => lines # <<>> /\ ~Ends(lines)
  /\ \A i \in 1..Len(lines) :
       /\ lines[i].kind = "turn_ended" => agent = "cursor" /\ i = Len(lines)
       /\ lines[i].kind = "queued" => agent # "cursor"
       /\ agent = "cursor" => lines[i].usage = 0
       /\ lines[i].kind = "prompt" /\ torn /\ i = Len(lines) => agent # "cursor"

\* How many lines stay when the agent writes more.
Kept == IF Ends(lines) THEN Len(lines) - 1 ELSE Len(lines)

LEMMA LinesNow ==
  ASSUME lines \in Seq(Line)
  PROVE  /\ Len(lines) \in Nat /\ DOMAIN lines = 1..Len(lines)
         /\ lines # <<>> => Len(lines) >= 1
         /\ \A i \in 1..Len(lines) :
              /\ lines[i] \in Line /\ lines[i].ours \in BOOLEAN
              /\ lines[i].usage \in 0..MaxContext
  <1>1. Len(lines) \in Nat /\ DOMAIN lines = 1..Len(lines)
    OBVIOUS
  <1>2. lines # <<>> => Len(lines) >= 1
    OBVIOUS
  <1>3. ASSUME NEW i \in 1..Len(lines)
        PROVE  /\ lines[i] \in Line /\ lines[i].ours \in BOOLEAN
               /\ lines[i].usage \in 0..MaxContext
    <2>1. lines[i] \in Line
      OBVIOUS
    <2> QED
      BY <2>1 DEF Line
  <1> QED
    BY <1>1, <1>2, <1>3

LEMMA KeptIs ==
  ASSUME lines \in Seq(Line)
  PROVE  /\ Kept \in Nat /\ Kept <= Len(lines) /\ Len(lines) <= Kept + 1
         /\ Ends(lines) => Len(lines) = Kept + 1 /\ lines[Kept + 1].kind = "turn_ended"
         /\ ~Ends(lines) => Kept = Len(lines)
  <1>1. Len(lines) \in Nat /\ (lines # <<>> => Len(lines) >= 1)
    BY LinesNow
  <1>2. CASE Ends(lines)
    <2>1. Len(lines) >= 1 /\ lines[Len(lines)].kind = "turn_ended"
      BY <1>1, <1>2 DEF Ends
    <2>2. Kept = Len(lines) - 1
      BY <1>2 DEF Kept
    <2>3. Kept + 1 = Len(lines)
      BY <1>1, <2>2
    <2> QED
      BY <1>1, <1>2, <2>1, <2>2, <2>3
  <1>3. CASE ~Ends(lines)
    BY <1>1, <1>3 DEF Kept
  <1> QED
    BY <1>2, <1>3

\* Half a line is all that a size does not tell of the lines it counts.
LEMMA SizeOfIs ==
  ASSUME NEW s \in Seq(Line), NEW half \in BOOLEAN, half => s # <<>> /\ ~Ends(s)
  PROVE  /\ SizeOf(s, half) \in Nat
         /\ half => SizeOf(s, half) = 2 * Len(s) - 1 /\ Len(s) >= 1
         /\ ~half /\ Ends(s) => SizeOf(s, half) = 2 * Len(s) - 1
         /\ ~half /\ ~Ends(s) => SizeOf(s, half) = 2 * Len(s)
         /\ SizeOf(s, half) <= 2 * Len(s) /\ 2 * Len(s) <= SizeOf(s, half) + 1
  <1>1. Len(s) \in Nat /\ (s # <<>> => Len(s) >= 1)
    OBVIOUS
  <1>2. CASE half
    BY <1>1, <1>2 DEF SizeOf
  <1>3. CASE ~half /\ Ends(s)
    <2>1. Len(s) >= 1
      BY <1>1, <1>3 DEF Ends
    <2> QED
      BY <1>1, <1>3, <2>1 DEF SizeOf
  <1>4. CASE ~half /\ ~Ends(s)
    BY <1>1, <1>4 DEF SizeOf
  <1> QED
    BY <1>2, <1>3, <1>4

LEMMA SizeIs ==
  ASSUME lines \in Seq(Line), torn \in BOOLEAN, Shape
  PROVE  /\ Size \in Nat
         /\ torn => Size = 2 * Len(lines) - 1 /\ Len(lines) >= 1
         /\ ~torn => Size = Kept + Len(lines)
         /\ Size <= 2 * Len(lines) /\ 2 * Len(lines) <= Size + 1
  <1>1. torn => lines # <<>> /\ ~Ends(lines)
    BY DEF Shape
  <1>2. /\ Size \in Nat
        /\ torn => Size = 2 * Len(lines) - 1 /\ Len(lines) >= 1
        /\ ~torn /\ Ends(lines) => Size = 2 * Len(lines) - 1
        /\ ~torn /\ ~Ends(lines) => Size = 2 * Len(lines)
        /\ Size <= 2 * Len(lines) /\ 2 * Len(lines) <= Size + 1
    BY <1>1, SizeOfIs DEF Size
  <1>3. Len(lines) \in Nat
    BY LinesNow
  <1> QED
    BY <1>2, <1>3, KeptIs

LEMMA SizeIsNext ==
  ASSUME lines' \in Seq(Line), torn' \in BOOLEAN, Shape'
  PROVE  /\ Size' \in Nat
         /\ torn' => Size' = 2 * Len(lines') - 1
         /\ Size' <= 2 * Len(lines') /\ 2 * Len(lines') <= Size' + 1
  <1>1. torn' => lines' # <<>> /\ ~Ends(lines')
    BY DEF Shape
  <1> QED
    BY <1>1, SizeOfIs DEF Size

LEMMA SingleIs ==
  ASSUME NEW S, NEW e \in S
  PROVE  <<e>> \in Seq(S) /\ Len(<<e>>) = 1 /\ <<e>>[1] = e
  OBVIOUS

LEMMA PairIs ==
  ASSUME NEW S, NEW e \in S, NEW f \in S
  PROVE  <<e, f>> \in Seq(S) /\ Len(<<e, f>>) = 2 /\ <<e, f>>[1] = e /\ <<e, f>>[2] = f
  OBVIOUS

LEMMA ConcatIs ==
  ASSUME NEW s \in Seq(Line), NEW t \in Seq(Line)
  PROVE  /\ s \o t \in Seq(Line) /\ Len(s \o t) = Len(s) + Len(t)
         /\ \A i \in 1..Len(s) : (s \o t)[i] = s[i]
         /\ \A i \in 1..Len(t) : (s \o t)[Len(s) + i] = t[i]
  <1>1. Len(s) \in Nat /\ Len(t) \in Nat
    OBVIOUS
  <1>2. /\ s \o t \in Seq(Line)
        /\ Len(s \o t) = Len(s) + Len(t)
        /\ \A i \in 1..(Len(s) + Len(t)) : (s \o t)[i] = IF i <= Len(s) THEN s[i] ELSE t[i - Len(s)]
    BY ConcatProperties
  <1>3. ASSUME NEW i \in 1..Len(s) PROVE (s \o t)[i] = s[i]
    <2>1. i \in 1..(Len(s) + Len(t)) /\ i <= Len(s)
      BY <1>1
    <2> QED
      BY <1>2, <2>1
  <1>4. ASSUME NEW i \in 1..Len(t) PROVE (s \o t)[Len(s) + i] = t[i]
    <2>1. /\ Len(s) + i \in 1..(Len(s) + Len(t)) /\ ~(Len(s) + i <= Len(s))
          /\ (Len(s) + i) - Len(s) = i
      BY <1>1
    <2> QED
      BY <1>2, <2>1
  <1> QED
    BY <1>2, <1>3, <1>4

LEMMA WritesAdds ==
  ASSUME lines \in Seq(Line), NEW new \in Seq(Line), Len(new) > 0, Writes(new)
  PROVE  /\ lines' \in Seq(Line) /\ Len(lines') = Kept + Len(new)
         /\ \A i \in 1..Kept : lines'[i] = lines[i]
         /\ \A i \in 1..Len(new) : lines'[Kept + i] = new[i]
         /\ torn' \in {FALSE, new[Len(new)].kind # "turn_ended"}
         /\ ~torn
         /\ Len(lines') <= MaxLines
         /\ UNCHANGED <<agent, reader, contextMax, daemon, watch>>
  <1> DEFINE kept == IF Ends(lines) THEN SubSeq(lines, 1, Len(lines) - 1) ELSE lines
  <1>1. kept \in Seq(Line) /\ Len(kept) = Kept /\ \A i \in 1..Kept : kept[i] = lines[i]
    <2>1. Len(lines) \in Nat /\ (Ends(lines) => Len(lines) >= 1)
      BY LinesNow DEF Ends
    <2>2. CASE Ends(lines)
      <3>1. Kept = Len(lines) - 1 /\ Kept \in Nat
        BY <2>1, <2>2 DEF Kept
      <3>2. \A i \in 1..(Len(lines) - 1) : lines[i] \in Line
        BY <2>1
      <3>3. /\ kept \in Seq(Line)
            /\ Len(kept) = IF 1 <= Len(lines) - 1 THEN Len(lines) - 1 - 1 + 1 ELSE 0
            /\ \A i \in 1..(Len(lines) - 1 - 1 + 1) : kept[i] = lines[1 + i - 1]
        BY <2>1, <2>2, <3>2, SubSeqProperties
      <3>4. Len(kept) = Kept
        BY <2>1, <2>2, <3>1, <3>3
      <3>5. ASSUME NEW i \in 1..Kept PROVE kept[i] = lines[i]
        <4>1. i \in 1..(Len(lines) - 1 - 1 + 1) /\ 1 + i - 1 = i
          BY <2>1, <3>1
        <4> QED
          BY <3>3, <4>1
      <3> QED
        BY <3>3, <3>4, <3>5
    <2>3. CASE ~Ends(lines)
      BY <2>1, <2>3 DEF Kept
    <2> QED
      BY <2>2, <2>3
  <1>2. lines' = kept \o new
    BY DEF Writes
  <1>3. MaxRead <= MaxLines /\ MaxRead \in Nat /\ MaxLines \in Nat
    BY TranscriptsAssumption DEF TranscriptsAssumption
  <1>4. Len(kept) + Len(new) <= MaxLines
    <2>1. Len(kept) + Len(new) <= IF reader = "daemon" THEN MaxRead ELSE MaxLines
      BY DEF Writes
    <2>2. Len(kept) \in Nat /\ Len(new) \in Nat
      BY <1>1
    <2> QED
      BY <1>3, <2>1, <2>2
  <1> HIDE DEF kept
  <1>5. /\ lines' \in Seq(Line) /\ Len(lines') = Len(kept) + Len(new)
        /\ \A i \in 1..Len(kept) : lines'[i] = kept[i]
        /\ \A i \in 1..Len(new) : lines'[Len(kept) + i] = new[i]
    BY <1>1, <1>2, ConcatIs
  <1>6. Len(lines') = Kept + Len(new) /\ Len(lines') <= MaxLines
    BY <1>1, <1>4, <1>5
  <1>7. \A i \in 1..Kept : lines'[i] = lines[i]
    BY <1>1, <1>5
  <1>8. \A i \in 1..Len(new) : lines'[Kept + i] = new[i]
    BY <1>1, <1>5
  <1> QED
    BY <1>5, <1>6, <1>7, <1>8 DEF Writes

LinesInv ==
  /\ agent \in AgentKinds /\ reader \in Readers
  /\ lines \in Seq(Line) /\ Len(lines) <= MaxLines /\ torn \in BOOLEAN
  /\ Shape

\* What a step leaves of the transcript: no line goes but the end of a turn, and
\* a reply that was not there is past where the transcript ended.
LineStep ==
  /\ LinesInv' /\ agent' = agent
  /\ Size <= Size' /\ ~torn /\ Kept < Len(lines')
  /\ \A i \in 1..Len(lines) :
       lines[i].kind # "turn_ended" => i <= Len(lines') /\ i <= Kept /\ lines'[i] = lines[i]
  /\ \A i \in 1..Len(lines') :
       lines'[i].kind = "reply" =>
         \/ i <= Len(lines) /\ lines[i] = lines'[i]
         \/ 2 * (i - 1) >= Size

LEMMA LineStays ==
  ASSUME LinesInv, NEW i \in 1..Len(lines), lines[i].kind # "turn_ended"
  PROVE  i <= Kept
  <1>1. Len(lines) \in Nat
    BY LinesNow DEF LinesInv
  <1>2. CASE Ends(lines)
    <2>1. lines[Len(lines)].kind = "turn_ended"
      BY <1>2 DEF Ends
    <2>2. i # Len(lines) /\ Len(lines) = Kept + 1
      BY <1>2, <2>1, KeptIs DEF LinesInv
    <2> QED
      BY <1>1, <2>2, KeptIs DEF LinesInv
  <1>3. CASE ~Ends(lines)
    BY <1>1, <1>3, KeptIs DEF LinesInv
  <1> QED
    BY <1>2, <1>3

\* A line of a transcript that stays is no end of a turn.
LEMMA KeptStays ==
  ASSUME LinesInv, NEW i \in 1..Kept
  PROVE  i \in 1..Len(lines) /\ lines[i].kind # "turn_ended"
  <1>1. /\ Len(lines) \in Nat /\ Kept \in Nat /\ Kept <= Len(lines)
        /\ Ends(lines) => Len(lines) = Kept + 1
    BY LinesNow, KeptIs DEF LinesInv
  <1>2. i \in 1..Len(lines)
    BY <1>1
  <1>3. CASE Ends(lines)
    BY <1>1, <1>2, <1>3 DEF LinesInv, Shape
  <1>4. CASE ~Ends(lines)
    <2>1. lines # <<>>
      BY <1>2
    <2>2. lines[Len(lines)].kind # "turn_ended"
      BY <1>4, <2>1 DEF Ends
    <2> QED
      BY <1>2, <2>2 DEF LinesInv, Shape
  <1> QED
    BY <1>2, <1>3, <1>4

LEMMA OneLine ==
  ASSUME LinesInv, NEW e \in Line, Writes(<<e>>),
         e.kind = "turn_ended" => agent = "cursor" /\ ~Ends(lines),
         agent = "cursor" => e.usage = 0 /\ e.kind \notin {"queued", "reply", "prompt"}
  PROVE  /\ LineStep
         /\ Len(lines') = Kept + 1 /\ lines'[Kept + 1] = e
         /\ \A i \in 1..Kept : lines'[i] = lines[i]
         /\ UNCHANGED <<agent, reader, contextMax, daemon, watch>>
  <1> DEFINE new == <<e>>
  <1>1. new \in Seq(Line) /\ Len(new) = 1 /\ new[1] = e
    BY SingleIs
  <1> HIDE DEF new
  <1>0. Writes(new)
    BY DEF new
  <1>2. /\ lines' \in Seq(Line) /\ Len(lines') = Kept + 1 /\ Len(lines') <= MaxLines
        /\ \A i \in 1..Kept : lines'[i] = lines[i]
        /\ \A i \in 1..1 : lines'[Kept + i] = new[i]
        /\ torn' \in {FALSE, e.kind # "turn_ended"}
        /\ ~torn
        /\ UNCHANGED <<agent, reader, contextMax, daemon, watch>>
    <2>1. lines \in Seq(Line) /\ Len(new) > 0
      BY <1>1 DEF LinesInv
    <2>2. /\ lines' \in Seq(Line) /\ Len(lines') = Kept + Len(new) /\ Len(lines') <= MaxLines
          /\ \A i \in 1..Kept : lines'[i] = lines[i]
          /\ \A i \in 1..Len(new) : lines'[Kept + i] = new[i]
          /\ torn' \in {FALSE, new[Len(new)].kind # "turn_ended"}
          /\ ~torn
          /\ UNCHANGED <<agent, reader, contextMax, daemon, watch>>
      BY <1>0, <1>1, <2>1, WritesAdds
    <2> QED
      BY <1>1, <2>2
  <1>3. lines'[Kept + 1] = e
    BY <1>1, <1>2
  <1>4. /\ Kept \in Nat /\ Kept <= Len(lines) /\ Len(lines) <= Kept + 1 /\ Len(lines) \in Nat
        /\ Size = Kept + Len(lines)
    BY <1>2, KeptIs, SizeIs, LinesNow DEF LinesInv
  <1>5. ASSUME NEW i \in 1..Len(lines), lines[i].kind # "turn_ended"
        PROVE  i <= Len(lines') /\ i <= Kept /\ lines'[i] = lines[i]
    <2>1. i <= Kept
      BY <1>5, LineStays
    <2> QED
      BY <1>2, <1>4, <2>1
  <1>6. \A i \in 1..Kept : lines[i].kind # "turn_ended"
    BY KeptStays
  <1>7. torn' \in BOOLEAN /\ (torn' => e.kind # "turn_ended")
    BY <1>2
  <1>8. Shape'
    <2>1. ASSUME NEW i \in 1..Len(lines')
          PROVE  /\ lines'[i].kind = "turn_ended" => agent' = "cursor" /\ i = Len(lines')
                 /\ lines'[i].kind = "queued" => agent' # "cursor"
                 /\ agent' = "cursor" => lines'[i].usage = 0
                 /\ lines'[i].kind = "prompt" /\ torn' /\ i = Len(lines') => agent' # "cursor"
      <3>1. CASE i = Kept + 1
        BY <1>2, <1>3, <3>1
      <3>2. CASE i # Kept + 1
        <4>1. i \in 1..Kept /\ i \in 1..Len(lines) /\ i # Len(lines')
          BY <1>2, <1>4, <3>2
        <4>2. lines'[i] = lines[i]
          BY <1>2, <4>1
        <4>3. /\ lines[i].kind = "queued" => agent # "cursor"
              /\ agent = "cursor" => lines[i].usage = 0
          BY <4>1 DEF LinesInv, Shape
        <4> QED
          BY <1>2, <1>6, <4>1, <4>2, <4>3
      <3> QED
        BY <3>1, <3>2
    <2>2. torn' => lines' # <<>> /\ ~(lines' # <<>> /\ lines'[Len(lines')].kind = "turn_ended")
      <3>1. lines' # <<>>
        BY <1>2, <1>4
      <3> QED
        BY <1>2, <1>3, <1>7, <3>1
    <2> QED
      BY <2>1, <2>2 DEF Shape, Ends
  <1>9. LinesInv'
    BY <1>2, <1>7, <1>8 DEF LinesInv
  <1>10. Size <= Size'
    <2>1. 2 * Len(lines') <= Size' + 1 /\ Size' \in Nat
      BY <1>9, SizeIsNext DEF LinesInv
    <2>2. Len(lines') = Kept + 1
      BY <1>2
    <2>3. 2 * (Kept + 1) <= Size' + 1
      BY <2>1, <2>2
    <2>4. Size <= 2 * Kept + 1 /\ Size \in Nat
      BY <1>4
    <2>5. \A a, b, k \in Nat : a <= 2 * k + 1 /\ 2 * (k + 1) <= b + 1 => a <= b
      OBVIOUS
    <2> QED
      BY <1>4, <2>1, <2>3, <2>4, <2>5, Zenon
  <1>11. ASSUME NEW i \in 1..Len(lines'), lines'[i].kind = "reply"
         PROVE  \/ i <= Len(lines) /\ lines[i] = lines'[i]
                \/ 2 * (i - 1) >= Size
    <2>1. CASE i <= Kept
      BY <1>2, <1>4, <2>1
    <2>2. CASE i = Kept + 1
      <3>1. agent # "cursor"
        BY <1>3, <1>11, <2>2
      <3>2. ~Ends(lines)
        <4>1. CASE lines # <<>>
          <5>1. Len(lines) \in 1..Len(lines)
            BY <4>1, LinesNow DEF LinesInv
          <5> QED
            BY <3>1, <5>1 DEF LinesInv, Shape, Ends
        <4>2. CASE lines = <<>>
          BY <4>2 DEF Ends
        <4> QED
          BY <4>1, <4>2
      <3>3. Kept = Len(lines)
        BY <3>2, KeptIs DEF LinesInv
      <3> QED
        BY <1>4, <2>2, <3>3
    <2> QED
      BY <1>2, <1>4, <2>1, <2>2
  <1>12. LineStep
    BY <1>2, <1>4, <1>5, <1>9, <1>10, <1>11 DEF LineStep
  <1> QED
    BY <1>2, <1>3, <1>12

LEMMA PlainIs ==
  ASSUME NEW k \in {"prompt", "queued", "reply", "aside", "other", "turn_ended"}
  PROVE  Plain(k) \in Line /\ Plain(k).kind = k /\ Plain(k).usage = 0 /\ ~Plain(k).ours
  <1>1. 0 \in 0..MaxContext
    BY TranscriptsAssumption DEF TranscriptsAssumption
  <1> QED
    BY <1>1 DEF Plain, Line

LEMMA PromptIs ==
  ASSUME NEW ours \in BOOLEAN
  PROVE  /\ Prompt(ours) \in Line /\ Prompt(ours).kind = "prompt" /\ Prompt(ours).ours = ours
         /\ Prompt(ours).usage = 0
         /\ Queued(ours) \in Line /\ Queued(ours).kind = "queued" /\ Queued(ours).ours = ours
  <1>1. 0 \in 0..MaxContext
    BY TranscriptsAssumption DEF TranscriptsAssumption
  <1> QED
    BY <1>1 DEF Prompt, Queued, Plain, Line

LEMMA UsageIs ==
  ASSUME NEW k \in {"reply", "aside"}, NEW context \in 0..MaxContext
  PROVE  /\ Usage(k, context) \in Line /\ Usage(k, context).kind = k
         /\ Usage(k, context).usage = context /\ ~Usage(k, context).ours
  <1>1. 0 \in 0..MaxContext
    BY TranscriptsAssumption DEF TranscriptsAssumption
  <1> QED
    BY <1>1 DEF Usage, Plain, Line

LEMMA TwoLines ==
  ASSUME LinesInv, agent = "cursor", NEW e \in Line, NEW f \in Line, Writes(<<e, f>>),
         e.kind = "prompt", e.usage = 0, f.kind = "reply", f.usage = 0
  PROVE  /\ LineStep
         /\ Len(lines') = Kept + 2 /\ lines'[Kept + 1] = e /\ lines'[Kept + 2] = f
         /\ \A i \in 1..Kept : lines'[i] = lines[i]
         /\ UNCHANGED <<agent, reader, contextMax, daemon, watch>>
  <1> DEFINE new == <<e, f>>
  <1>1. new \in Seq(Line) /\ Len(new) = 2 /\ new[1] = e /\ new[2] = f
    BY PairIs
  <1> HIDE DEF new
  <1>2. lines \in Seq(Line) /\ Len(new) > 0 /\ Writes(new)
    BY <1>1 DEF LinesInv, new
  <1>3. /\ lines' \in Seq(Line) /\ Len(lines') = Kept + Len(new) /\ Len(lines') <= MaxLines
        /\ \A i \in 1..Kept : lines'[i] = lines[i]
        /\ \A i \in 1..Len(new) : lines'[Kept + i] = new[i]
        /\ torn' \in {FALSE, new[Len(new)].kind # "turn_ended"}
        /\ ~torn
        /\ UNCHANGED <<agent, reader, contextMax, daemon, watch>>
    BY <1>1, <1>2, WritesAdds
  <1>4. /\ Len(lines') = Kept + 2 /\ lines'[Kept + 1] = e /\ lines'[Kept + 2] = f
        /\ torn' \in BOOLEAN
    <2>1. 1 \in 1..Len(new) /\ 2 \in 1..Len(new) /\ Len(lines') = Kept + 2
      BY <1>1, <1>3
    <2>2. lines'[Kept + 1] = new[1] /\ lines'[Kept + 2] = new[2]
      BY <1>3, <2>1, Zenon
    <2> QED
      BY <1>1, <1>3, <2>1, <2>2
  <1>5. /\ Kept \in Nat /\ Kept <= Len(lines) /\ Len(lines) <= Kept + 1 /\ Len(lines) \in Nat
        /\ Size = Kept + Len(lines)
    BY <1>3, KeptIs, SizeIs, LinesNow DEF LinesInv
  <1>6. ASSUME NEW i \in 1..Len(lines), lines[i].kind # "turn_ended"
        PROVE  i <= Len(lines') /\ i <= Kept /\ lines'[i] = lines[i]
    <2>1. i <= Kept
      BY <1>6, LineStays
    <2> QED
      BY <1>3, <1>4, <1>5, <2>1
  <1>7. \A i \in 1..Len(lines') : i \in 1..Kept \/ i = Kept + 1 \/ i = Kept + 2
    BY <1>4, <1>5
  <1>8. Shape'
    <2>1. ASSUME NEW i \in 1..Len(lines')
          PROVE  /\ lines'[i].kind = "turn_ended" => agent' = "cursor" /\ i = Len(lines')
                 /\ lines'[i].kind = "queued" => agent' # "cursor"
                 /\ agent' = "cursor" => lines'[i].usage = 0
                 /\ lines'[i].kind = "prompt" /\ torn' /\ i = Len(lines') => agent' # "cursor"
      <3>1. CASE i = Kept + 1
        <4>1. i # Len(lines')
          BY <1>4, <1>5, <3>1
        <4> QED
          BY <1>4, <3>1, <4>1
      <3>2. CASE i = Kept + 2
        BY <1>4, <3>2
      <3>3. CASE i \in 1..Kept
        <4>1. lines'[i] = lines[i] /\ i # Len(lines')
          BY <1>3, <1>4, <1>5, <3>3
        <4>2. /\ i \in 1..Len(lines) /\ lines[i].kind # "turn_ended"
              /\ lines[i].kind = "queued" => agent # "cursor"
              /\ agent = "cursor" => lines[i].usage = 0
          BY <3>3, KeptStays DEF LinesInv, Shape
        <4> QED
          BY <1>3, <4>1, <4>2
      <3> QED
        BY <1>7, <3>1, <3>2, <3>3
    <2>2. torn' => lines' # <<>> /\ ~(lines' # <<>> /\ lines'[Len(lines')].kind = "turn_ended")
      <3>1. lines' # <<>>
        BY <1>3, <1>4, <1>5
      <3> QED
        BY <1>4, <3>1
    <2> QED
      BY <2>1, <2>2 DEF Shape, Ends
  <1>9. LinesInv'
    BY <1>3, <1>4, <1>8 DEF LinesInv
  <1>10. Size <= Size'
    <2>1. 2 * Len(lines') <= Size' + 1 /\ Size' \in Nat
      BY <1>9, SizeIsNext DEF LinesInv
    <2>2. Len(lines') = Kept + 2
      BY <1>4
    <2>3. 2 * (Kept + 2) <= Size' + 1
      BY <2>1, <2>2
    <2>4. Size <= 2 * Kept + 1 /\ Size \in Nat
      BY <1>5
    <2>5. \A a, b, k \in Nat : a <= 2 * k + 1 /\ 2 * (k + 2) <= b + 1 => a <= b
      OBVIOUS
    <2> QED
      BY <1>5, <2>1, <2>3, <2>4, <2>5, Zenon
  <1>11. ASSUME NEW i \in 1..Len(lines'), lines'[i].kind = "reply"
         PROVE  \/ i <= Len(lines) /\ lines[i] = lines'[i]
                \/ 2 * (i - 1) >= Size
    <2>1. CASE i \in 1..Kept
      BY <1>3, <1>5, <2>1
    <2>2. CASE i = Kept + 1
      BY <1>4, <1>11, <2>2
    <2>3. CASE i = Kept + 2
      BY <1>5, <2>3
    <2> QED
      BY <1>7, <2>1, <2>2, <2>3
  <1>12. LineStep
    <2>1. Kept < Len(lines')
      BY <1>4, <1>5
    <2> QED
      BY <1>3, <1>6, <1>9, <1>10, <1>11, <2>1 DEF LineStep
  <1> QED
    BY <1>3, <1>4, <1>12

-----------------------------------------------------------------------------
(* The prompt sent last *)

\* A reader that looks from the offset finds such an entry of the prompt's text.
Has(kind, offset) == \E i \in Entries(offset) : lines[i].kind = kind /\ lines[i].ours

SentInv ==
  /\ sent \in Sent /\ sent.offset <= Size
  /\ \A o \in Nat :
       o = sent.offset =>
         /\ sent.prompts <=> Has("prompt", o)
         /\ sent.queues <=> Has("queued", o)

\* What an entry that is there to its end makes of the prompt sent last.
Marks(entry, whole) ==
  /\ sent' \in Sent /\ sent'.offset = sent.offset
  /\ sent'.prompts <=> (sent.prompts \/ (whole /\ entry.ours /\ entry.kind = "prompt"))
  /\ sent'.queues <=> (sent.queues \/ (whole /\ entry.ours /\ entry.kind = "queued"))

LEMMA SentNow ==
  ASSUME sent \in Sent
  PROVE  /\ sent.offset \in 0..(2 * MaxLines) /\ sent.offset \in Nat
         /\ sent.prompts \in BOOLEAN /\ sent.queues \in BOOLEAN
  BY TranscriptsAssumption DEF TranscriptsAssumption, Sent, Sizes

LEMMA ShownMarks ==
  ASSUME sent \in Sent, NEW e \in Line, NEW whole \in BOOLEAN,
         sent' = IF whole THEN Shown(e) ELSE sent
  PROVE  Marks(e, whole)
  <1>1. sent.prompts \in BOOLEAN /\ sent.queues \in BOOLEAN /\ e.ours \in BOOLEAN
    BY SentNow DEF Line
  <1>2. CASE whole
    <2>1. sent' = [sent EXCEPT !.prompts = @ \/ (e.ours /\ e.kind = "prompt"),
                               !.queues = @ \/ (e.ours /\ e.kind = "queued")]
      BY <1>2 DEF Shown
    <2>2. PICK p \in BOOLEAN : p <=> (sent.prompts \/ (e.ours /\ e.kind = "prompt"))
      OBVIOUS
    <2>3. PICK q \in BOOLEAN : q <=> (sent.queues \/ (e.ours /\ e.kind = "queued"))
      OBVIOUS
    <2>4. sent' = [sent EXCEPT !.prompts = p, !.queues = q]
      BY <1>1, <2>1, <2>2, <2>3
    <2>5. /\ sent' \in Sent /\ sent'.offset = sent.offset
          /\ sent'.prompts = p /\ sent'.queues = q
      BY <2>4 DEF Sent
    <2> QED
      BY <1>2, <2>2, <2>3, <2>5 DEF Marks
  <1>3. CASE ~whole
    BY <1>3 DEF Marks
  <1> QED
    BY <1>2, <1>3

LEMMA SameMarks ==
  ASSUME sent \in Sent, NEW e \in Line, ~e.ours, NEW whole \in BOOLEAN, UNCHANGED sent
  PROVE  Marks(e, whole)
  BY DEF Marks

LEMMA WholeIs ==
  ASSUME LinesInv, NEW i
  PROVE  i \in Whole <=> i \in 1..Len(lines) /\ ~(torn /\ i = Len(lines))
  <1>1. Len(lines) \in Nat
    BY LinesNow DEF LinesInv
  <1> QED
    BY <1>1 DEF Whole

LEMMA EntriesAre ==
  ASSUME NEW i, NEW o
  PROVE  /\ agent = "cursor" => (i \in Entries(o) <=> i \in Whole /\ o < Size /\ 2 * i > o)
         /\ agent # "cursor" => (i \in Entries(o) <=> i \in Whole /\ 2 * (i - 1) >= o)
  BY DEF Entries, EntriesFrom, EntriesFromLineHolding

LEMMA WholeNext ==
  ASSUME LinesInv', NEW i
  PROVE  i \in Whole' <=> i \in 1..Len(lines') /\ ~(torn' /\ i = Len(lines'))
  <1>1. Len(lines') \in Nat
    BY DEF LinesInv
  <1> QED
    BY <1>1 DEF Whole

LEMMA EntriesNext ==
  ASSUME NEW i, NEW o
  PROVE  /\ agent' = "cursor" => (i \in Entries(o)' <=> i \in Whole' /\ o < Size' /\ 2 * i > o)
         /\ agent' # "cursor" => (i \in Entries(o)' <=> i \in Whole' /\ 2 * (i - 1) >= o)
  BY DEF Entries, EntriesFrom, EntriesFromLineHolding

\* Only Cursor's transcript moves back.
LEMMA NoEnd ==
  ASSUME LinesInv, agent # "cursor"
  PROVE  ~Ends(lines) /\ Kept = Len(lines)
  <1>1. ~Ends(lines)
    <2>1. CASE lines # <<>>
      <3>1. Len(lines) \in 1..Len(lines)
        BY <2>1, LinesNow DEF LinesInv
      <3> QED
        BY <3>1 DEF LinesInv, Shape, Ends
    <2>2. CASE lines = <<>>
      BY <2>2 DEF Ends
    <2> QED
      BY <2>1, <2>2
  <1> QED
    BY <1>1, KeptIs DEF LinesInv

\* A line more shows what is there of it.
LEMMA OneLineShows ==
  ASSUME LinesInv, NEW e \in Line, NEW o \in Nat, o <= Size, LineStep,
         Len(lines') = Kept + 1, lines'[Kept + 1] = e,
         \A i \in 1..Kept : lines'[i] = lines[i],
         agent = "cursor" => ~e.ours,
         NEW kind \in {"prompt", "queued"}
  PROVE  Has(kind, o)' <=> Has(kind, o) \/ (~torn' /\ e.ours /\ e.kind = kind)
  <1>1. /\ Kept \in Nat /\ Kept <= Len(lines) /\ Len(lines) <= Kept + 1 /\ Len(lines) \in Nat
        /\ Size = Kept + Len(lines) /\ Size \in Nat
    BY KeptIs, SizeIs, LinesNow DEF LinesInv, LineStep
  <1>2. LinesInv' /\ agent' = agent /\ ~torn
    BY DEF LineStep
  <1>3. CASE agent # "cursor"
    <2>1. Kept = Len(lines)
      BY <1>3, NoEnd
    <2>2. ASSUME Has(kind, o) PROVE Has(kind, o)'
      <3>1. PICK i \in Entries(o) : lines[i].kind = kind /\ lines[i].ours
        BY <2>2 DEF Has
      <3>2. i \in 1..Len(lines) /\ 2 * (i - 1) >= o
        BY <1>3, <3>1, EntriesAre, WholeIs
      <3>3. i \in 1..Kept /\ i \in 1..Len(lines') /\ i # Len(lines')
        BY <1>1, <2>1, <3>2
      <3>4. i \in Entries(o)'
        BY <1>2, <1>3, <3>2, <3>3, EntriesNext, WholeNext
      <3>5. lines'[i] = lines[i]
        BY <3>3
      <3> QED
        BY <3>1, <3>4, <3>5 DEF Has
    <2>3. ASSUME ~torn', e.ours, e.kind = kind PROVE Has(kind, o)'
      <3>1. Kept + 1 \in 1..Len(lines') /\ 2 * ((Kept + 1) - 1) >= o
        BY <1>1, <2>1
      <3>2. Kept + 1 \in Entries(o)'
        BY <1>2, <1>3, <2>3, <3>1, EntriesNext, WholeNext
      <3> QED
        BY <2>3, <3>2 DEF Has
    <2>4. ASSUME Has(kind, o)' PROVE Has(kind, o) \/ (~torn' /\ e.ours /\ e.kind = kind)
      <3>1. PICK i \in Entries(o)' : lines'[i].kind = kind /\ lines'[i].ours
        BY <2>4 DEF Has
      <3>2. i \in 1..Len(lines') /\ ~(torn' /\ i = Len(lines')) /\ 2 * (i - 1) >= o
        BY <1>2, <1>3, <3>1, EntriesNext, WholeNext
      <3>3. CASE i = Kept + 1
        BY <3>1, <3>2, <3>3
      <3>4. CASE i # Kept + 1
        <4>1. i \in 1..Kept /\ i \in 1..Len(lines)
          BY <1>1, <3>2, <3>4
        <4>2. i \in Entries(o)
          BY <1>2, <1>3, <3>2, <4>1, EntriesAre, WholeIs
        <4> QED
          BY <3>1, <4>1, <4>2 DEF Has
      <3> QED
        BY <3>3, <3>4
    <2> QED
      BY <2>2, <2>3, <2>4
  <1>4. CASE agent = "cursor"
    <2>1. ASSUME Has(kind, o) PROVE Has(kind, o)'
      <3>1. PICK i \in Entries(o) : lines[i].kind = kind /\ lines[i].ours
        BY <2>1 DEF Has
      <3>2. i \in 1..Len(lines) /\ o < Size /\ 2 * i > o /\ lines[i].kind # "turn_ended"
        BY <1>4, <3>1, EntriesAre, WholeIs
      <3>3. i \in 1..Kept
        BY <1>1, <3>2, LineStays
      <3>4. i \in 1..Len(lines') /\ i # Len(lines') /\ lines'[i] = lines[i]
        BY <1>1, <3>3
      <3>5. o < Size'
        <4>1. Size <= Size' /\ Size' \in Nat
          BY <1>2, SizeIsNext DEF LinesInv, LineStep
        <4>2. \A a, b \in Nat : o < a /\ a <= b => o < b
          OBVIOUS
        <4> QED
          BY <1>1, <3>2, <4>1, <4>2, Zenon
      <3>6. i \in Entries(o)'
        BY <1>2, <1>4, <3>2, <3>4, <3>5, EntriesNext, WholeNext
      <3> QED
        BY <3>1, <3>4, <3>6 DEF Has
    <2>2. ASSUME Has(kind, o)' PROVE Has(kind, o)
      <3>1. PICK i \in Entries(o)' : lines'[i].kind = kind /\ lines'[i].ours
        BY <2>2 DEF Has
      <3>2. i \in 1..Len(lines') /\ 2 * i > o
        BY <1>2, <1>4, <3>1, EntriesNext, WholeNext
      <3>3. i # Kept + 1
        BY <1>4, <3>1
      <3>4. i \in 1..Kept /\ i \in 1..Len(lines)
        BY <1>1, <3>2, <3>3
      <3>5. o < Size
        BY <1>1, <3>2, <3>4
      <3>6. i \in Entries(o)
        BY <1>2, <1>4, <3>2, <3>4, <3>5, EntriesAre, WholeIs
      <3> QED
        BY <3>1, <3>4, <3>6 DEF Has
    <2> QED
      BY <1>4, <2>1, <2>2
  <1> QED
    BY <1>3, <1>4

\* Cursor shows a prompt with its first reply.
LEMMA TwoLinesShow ==
  ASSUME LinesInv, agent = "cursor", NEW e \in Line, NEW f \in Line,
         NEW o \in Nat, o <= Size, LineStep,
         Len(lines') = Kept + 2, lines'[Kept + 1] = e, lines'[Kept + 2] = f,
         \A i \in 1..Kept : lines'[i] = lines[i],
         f.kind = "reply",
         NEW kind \in {"prompt", "queued"}
  PROVE  Has(kind, o)' <=> Has(kind, o) \/ (e.ours /\ e.kind = kind)
  <1>1. /\ Kept \in Nat /\ Kept <= Len(lines) /\ Len(lines) <= Kept + 1 /\ Len(lines) \in Nat
        /\ Size = Kept + Len(lines) /\ Size \in Nat
    BY KeptIs, SizeIs, LinesNow DEF LinesInv, LineStep
  <1>2. LinesInv' /\ agent' = agent /\ ~torn
    BY DEF LineStep
  <1>3. o < Size'
    <2>1. 2 * Len(lines') <= Size' + 1 /\ Size' \in Nat
      BY <1>2, SizeIsNext DEF LinesInv
    <2>2. 2 * (Kept + 2) <= Size' + 1
      BY <2>1
    <2>3. o <= 2 * Kept + 1
      BY <1>1
    <2>4. \A b, k \in Nat : o <= 2 * k + 1 /\ 2 * (k + 2) <= b + 1 => o < b
      OBVIOUS
    <2> QED
      BY <1>1, <2>1, <2>2, <2>3, <2>4, Zenon
  <1>4. ASSUME Has(kind, o) PROVE Has(kind, o)'
    <2>1. PICK i \in Entries(o) : lines[i].kind = kind /\ lines[i].ours
      BY <1>4 DEF Has
    <2>2. i \in 1..Len(lines) /\ 2 * i > o /\ lines[i].kind # "turn_ended"
      BY <2>1, EntriesAre, WholeIs
    <2>3. i \in 1..Kept
      BY <1>1, <2>2, LineStays
    <2>4. i \in 1..Len(lines') /\ i # Len(lines') /\ lines'[i] = lines[i]
      BY <1>1, <2>3
    <2>5. i \in Entries(o)'
      BY <1>2, <1>3, <2>2, <2>4, EntriesNext, WholeNext
    <2> QED
      BY <2>1, <2>4, <2>5 DEF Has
  <1>5. ASSUME e.ours, e.kind = kind PROVE Has(kind, o)'
    <2>1. Kept + 1 \in 1..Len(lines') /\ Kept + 1 # Len(lines') /\ 2 * (Kept + 1) > o
      BY <1>1
    <2>2. Kept + 1 \in Entries(o)'
      BY <1>2, <1>3, <2>1, EntriesNext, WholeNext
    <2> QED
      BY <1>5, <2>2 DEF Has
  <1>6. ASSUME Has(kind, o)' PROVE Has(kind, o) \/ (e.ours /\ e.kind = kind)
    <2>1. PICK i \in Entries(o)' : lines'[i].kind = kind /\ lines'[i].ours
      BY <1>6 DEF Has
    <2>2. i \in 1..Len(lines') /\ 2 * i > o
      BY <1>2, <2>1, EntriesNext, WholeNext
    <2>3. i # Kept + 2
      BY <2>1
    <2>4. CASE i = Kept + 1
      BY <2>1, <2>4
    <2>5. CASE i # Kept + 1
      <3>1. i \in 1..Kept /\ i \in 1..Len(lines)
        BY <1>1, <2>2, <2>3, <2>5
      <3>2. o < Size
        BY <1>1, <2>2, <3>1
      <3>3. i \in Entries(o)
        BY <1>2, <2>2, <3>1, <3>2, EntriesAre, WholeIs
      <3> QED
        BY <2>1, <3>1, <3>3 DEF Has
    <2> QED
      BY <2>4, <2>5
  <1> QED
    BY <1>4, <1>5, <1>6

\* The half line a transcript ends with is completed.
LEMMA FinishedLine ==
  ASSUME LinesInv, Finish
  PROVE  /\ torn /\ ~torn' /\ LinesInv' /\ Len(lines) \in Nat /\ Len(lines) >= 1
         /\ Size = 2 * Len(lines) - 1 /\ Size' = 2 * Len(lines)
         /\ lines[Len(lines)].kind # "turn_ended"
         /\ UNCHANGED <<agent, reader, lines, contextMax, daemon, watch>>
  <1>1. torn /\ ~torn' /\ UNCHANGED <<agent, reader, lines, contextMax, daemon, watch>>
    BY DEF Finish
  <1>2. Len(lines) \in Nat /\ Size = 2 * Len(lines) - 1 /\ Len(lines) >= 1
    BY <1>1, LinesNow, SizeIs DEF LinesInv
  <1>3. ~Ends(lines) /\ lines # <<>>
    BY <1>1 DEF LinesInv, Shape
  <1>4. LinesInv'
    <2>1. torn' \in BOOLEAN
      BY DEF Finish
    <2> QED
      BY <1>1, <2>1 DEF LinesInv, Shape
  <1>5. Size' = 2 * Len(lines)
    <2>1. /\ lines \in Seq(Line) /\ FALSE \in BOOLEAN
          /\ torn' = FALSE
      BY DEF Finish, LinesInv
    <2>2. SizeOf(lines, FALSE) = 2 * Len(lines)
      BY <1>3, <2>1, SizeOfIs
    <2> QED
      BY <1>1, <2>1, <2>2 DEF Size
  <1> QED
    BY <1>1, <1>2, <1>3, <1>4, <1>5 DEF Ends

LEMMA FinishShows ==
  ASSUME LinesInv, Finish, NEW o \in Nat, o <= Size, NEW kind \in {"prompt", "queued"}
  PROVE  LET entry == lines[Len(lines)] IN
         Has(kind, o)' <=>
           Has(kind, o) \/ (2 * (Len(lines) - 1) >= o /\ entry.ours /\ entry.kind = kind)
  <1> DEFINE n == Len(lines)
             entry == lines[n]
  <1>1. /\ torn /\ ~torn' /\ LinesInv' /\ n \in Nat /\ n >= 1
        /\ Size = 2 * n - 1 /\ Size' = 2 * n
        /\ agent' = agent /\ lines' = lines
    BY FinishedLine
  <1>2. n \in 1..Len(lines)
    BY <1>1
  <1>3. agent = "cursor" => entry.kind # "prompt" /\ entry.kind # "queued"
    BY <1>1, <1>2 DEF LinesInv, Shape
  <1> HIDE DEF n
  <1>4. \A i : i \in Whole' <=> i \in 1..n
    BY <1>1, WholeNext DEF n
  <1>5. \A i : i \in Whole <=> i \in 1..n /\ i # n
    BY <1>1, WholeIs DEF n
  <1>6. CASE agent # "cursor"
    <2>1. \A i : i \in Entries(o)' <=> i \in Entries(o) \/ (i = n /\ 2 * (n - 1) >= o)
      BY <1>1, <1>4, <1>5, <1>6, EntriesAre, EntriesNext
    <2> QED
      BY <1>1, <2>1 DEF Has, n
  <1>7. CASE agent = "cursor"
    <2>1. ASSUME NEW i, i # n PROVE i \in Entries(o)' <=> i \in Entries(o)
      <3>1. i \in 1..n /\ 2 * i > o => o < 2 * n
        BY <1>1
      <3>2. i \in 1..n /\ 2 * i > o => o < 2 * n - 1
        BY <1>1, <2>1
      <3> QED
        BY <1>1, <1>4, <1>5, <1>7, <2>1, <3>1, <3>2, EntriesAre, EntriesNext
    <2>2. n \notin Entries(o)
      BY <1>5, <1>7, EntriesAre
    <2> QED
      BY <1>1, <1>3, <1>7, <2>1, <2>2 DEF Has, n
  <1> QED
    BY <1>6, <1>7

\* A prompt that is being sent is nowhere past the end.
LEMMA NothingPast ==
  ASSUME LinesInv, NEW kind \in {"prompt", "queued"}
  PROVE  ~Has(kind, Size)
  <1>1. /\ Len(lines) \in Nat /\ Size \in Nat /\ 2 * Len(lines) <= Size + 1
    BY LinesNow, SizeIs DEF LinesInv
  <1>2. ASSUME NEW i \in Entries(Size) PROVE FALSE
    <2>1. CASE agent = "cursor"
      <3>1. Size < Size
        BY <2>1, EntriesAre
      <3> QED
        BY <1>1, <3>1
    <2>2. CASE agent # "cursor"
      <3>1. i \in 1..Len(lines) /\ 2 * (i - 1) >= Size
        BY <2>2, EntriesAre, WholeIs
      <3> QED
        BY <1>1, <3>1
    <2> QED
      BY <2>1, <2>2
  <1> QED
    BY <1>2 DEF Has

LEMMA OneLineKeeps ==
  ASSUME LinesInv, SentInv, NEW e \in Line, Writes(<<e>>),
         e.kind = "turn_ended" => agent = "cursor" /\ ~Ends(lines),
         agent = "cursor" =>
           e.usage = 0 /\ ~e.ours /\ e.kind \notin {"queued", "reply", "prompt"},
         Marks(e, ~torn')
  PROVE  LineStep /\ SentInv'
  <1>1. /\ LineStep
        /\ Len(lines') = Kept + 1 /\ lines'[Kept + 1] = e
        /\ \A i \in 1..Kept : lines'[i] = lines[i]
    BY OneLine
  <1>2. /\ sent' \in Sent /\ sent'.offset = sent.offset /\ sent.offset <= Size
        /\ sent.offset \in Nat /\ Size \in Nat /\ Size' \in Nat /\ Size <= Size'
    BY <1>1, SentNow, SizeIs, SizeIsNext DEF SentInv, Marks, LinesInv, LineStep
  <1>3. sent'.offset <= Size'
    <2>1. \A o, a, b \in Nat : o <= a /\ a <= b => o <= b
      OBVIOUS
    <2> QED
      BY <1>2, <2>1, Zenon
  <1>4. ASSUME NEW o \in Nat, o = sent'.offset
        PROVE  (sent'.prompts <=> Has("prompt", o)') /\ (sent'.queues <=> Has("queued", o)')
    <2>1. o = sent.offset /\ o <= Size
      BY <1>2, <1>4
    <2>2. (sent.prompts <=> Has("prompt", o)) /\ (sent.queues <=> Has("queued", o))
      BY <2>1 DEF SentInv
    <2>3. \A kind \in {"prompt", "queued"} :
            Has(kind, o)' <=> Has(kind, o) \/ (~torn' /\ e.ours /\ e.kind = kind)
      BY <1>1, <2>1, OneLineShows
    <2> QED
      BY <2>2, <2>3 DEF Marks
  <1> QED
    BY <1>1, <1>2, <1>3, <1>4 DEF SentInv

LEMMA TwoLinesKeep ==
  ASSUME LinesInv, SentInv, agent = "cursor", NEW e \in Line, NEW f \in Line,
         Writes(<<e, f>>), e.kind = "prompt", e.usage = 0, f.kind = "reply", f.usage = 0,
         Marks(e, TRUE)
  PROVE  LineStep /\ SentInv'
  <1>1. /\ LineStep
        /\ Len(lines') = Kept + 2 /\ lines'[Kept + 1] = e /\ lines'[Kept + 2] = f
        /\ \A i \in 1..Kept : lines'[i] = lines[i]
    BY TwoLines
  <1>2. /\ sent' \in Sent /\ sent'.offset = sent.offset /\ sent.offset <= Size
        /\ sent.offset \in Nat /\ Size \in Nat /\ Size' \in Nat /\ Size <= Size'
    BY <1>1, SentNow, SizeIs, SizeIsNext DEF SentInv, Marks, LinesInv, LineStep
  <1>3. sent'.offset <= Size'
    <2>1. \A o, a, b \in Nat : o <= a /\ a <= b => o <= b
      OBVIOUS
    <2> QED
      BY <1>2, <2>1, Zenon
  <1>4. ASSUME NEW o \in Nat, o = sent'.offset
        PROVE  (sent'.prompts <=> Has("prompt", o)') /\ (sent'.queues <=> Has("queued", o)')
    <2>1. o = sent.offset /\ o <= Size
      BY <1>2, <1>4
    <2>2. (sent.prompts <=> Has("prompt", o)) /\ (sent.queues <=> Has("queued", o))
      BY <2>1 DEF SentInv
    <2>3. \A kind \in {"prompt", "queued"} :
            Has(kind, o)' <=> Has(kind, o) \/ (e.ours /\ e.kind = kind)
      BY <1>1, <2>1, TwoLinesShow
    <2> QED
      BY <2>2, <2>3 DEF Marks
  <1> QED
    BY <1>1, <1>2, <1>3, <1>4 DEF SentInv

LEMMA FinishKeepsSent ==
  ASSUME LinesInv, SentInv, Finish
  PROVE  LinesInv' /\ SentInv'
  <1> DEFINE e == lines[Len(lines)]
             whole == 2 * (Len(lines) - 1) >= sent.offset
  <1>1. /\ LinesInv' /\ Len(lines) \in Nat /\ Len(lines) >= 1
        /\ Size = 2 * Len(lines) - 1 /\ Size' = 2 * Len(lines)
    BY FinishedLine
  <1>2. sent \in Sent /\ sent.offset \in Nat /\ sent.offset <= Size
    BY SentNow DEF SentInv
  <1>3. e \in Line
    BY <1>1, LinesNow DEF LinesInv
  <1>4. Marks(e, whole)
    <2>1. sent' = IF whole THEN Shown(e) ELSE sent
      BY DEF Finish
    <2>2. whole \in BOOLEAN
      OBVIOUS
    <2> HIDE DEF e, whole
    <2> QED
      BY <1>2, <1>3, <2>1, <2>2, ShownMarks
  <1>5. sent' \in Sent /\ sent'.offset = sent.offset
    BY <1>4 DEF Marks
  <1>6. sent'.offset <= Size'
    <2>1. sent.offset <= 2 * Len(lines)
      BY <1>1, <1>2
    <2> QED
      BY <1>1, <1>5, <2>1, Zenon
  <1>7. ASSUME NEW o \in Nat, o = sent'.offset
        PROVE  (sent'.prompts <=> Has("prompt", o)') /\ (sent'.queues <=> Has("queued", o)')
    <2>1. o = sent.offset /\ o <= Size
      BY <1>2, <1>5, <1>7
    <2>2. (sent.prompts <=> Has("prompt", o)) /\ (sent.queues <=> Has("queued", o))
      BY <2>1 DEF SentInv
    <2>3. \A kind \in {"prompt", "queued"} :
            Has(kind, o)' <=> Has(kind, o) \/ (whole /\ e.ours /\ e.kind = kind)
      BY <2>1, FinishShows
    <2> HIDE DEF e, whole
    <2> QED
      BY <1>4, <2>2, <2>3 DEF Marks
  <1> QED
    BY <1>1, <1>5, <1>6, <1>7 DEF SentInv

LEMMA SendKeeps ==
  ASSUME LinesInv, Send
  PROVE  LinesInv' /\ SentInv'
  <1>1. UNCHANGED <<agent, reader, lines, torn>>
    BY DEF Send
  <1>2. LinesInv' /\ Size' = Size
    BY <1>1 DEF LinesInv, Shape, Size
  <1>3. Size \in Sizes /\ Size \in Nat
    <2>1. /\ Size \in Nat /\ Size <= 2 * Len(lines)
          /\ Len(lines) \in Nat /\ Len(lines) <= MaxLines /\ MaxLines \in Nat
      BY SizeIs, LinesNow, TranscriptsAssumption DEF LinesInv, TranscriptsAssumption
    <2> QED
      BY <2>1 DEF Sizes
  <1>4. /\ sent' \in Sent /\ sent'.offset = Size /\ ~sent'.prompts /\ ~sent'.queues
    BY <1>3 DEF Send, Sent
  <1>5. \A kind \in {"prompt", "queued"}, o \in Nat : o = Size => ~Has(kind, o)'
    <2>1. \A o \in Nat : \A i : i \in Entries(o)' <=> i \in Entries(o)
      BY <1>1 DEF Entries, EntriesFrom, EntriesFromLineHolding, Whole, Size
    <2>2. \A kind \in {"prompt", "queued"} : ~Has(kind, Size)
      BY NothingPast
    <2> QED
      BY <1>1, <2>1, <2>2 DEF Has
  <1> QED
    BY <1>2, <1>3, <1>4, <1>5 DEF SentInv

\* Whoever leaves the transcript and the prompt alone.
LEMMA ReadersKeep ==
  ASSUME LinesInv, SentInv, UNCHANGED <<agent, reader, lines, torn, sent>>
  PROVE  LinesInv' /\ SentInv' /\ Size' = Size /\ Whole' = Whole
  <1>1. LinesInv' /\ Size' = Size /\ Whole' = Whole
    BY DEF LinesInv, Shape, Size, Whole
  <1>2. \A kind \in {"prompt", "queued"}, o \in Nat : Has(kind, o)' <=> Has(kind, o)
    BY DEF Has, Entries, EntriesFrom, EntriesFromLineHolding, Whole, Size
  <1>3. /\ sent' \in Sent /\ sent'.offset <= Size'
        /\ \A o \in Nat : o = sent'.offset <=> o = sent.offset
        /\ (sent'.prompts <=> sent.prompts) /\ (sent'.queues <=> sent.queues)
    BY <1>1 DEF SentInv
  <1> QED
    BY <1>1, <1>2, <1>3 DEF SentInv

-----------------------------------------------------------------------------
(* What the agent writes *)

\* A step that writes no reply whose usage is told.
QuietStep ==
  /\ LineStep /\ UNCHANGED <<tasks, contextMax, daemon>>
  /\ agent # "cursor" =>
       \A i \in 1..Len(lines') :
         lines'[i].kind = "reply" => i <= Len(lines) /\ lines[i] = lines'[i]

LEMMA OneLineIsQuiet ==
  ASSUME LinesInv, NEW e \in Line, Writes(<<e>>), e.kind # "reply", UNCHANGED tasks,
         e.kind = "turn_ended" => agent = "cursor" /\ ~Ends(lines),
         agent = "cursor" => e.usage = 0 /\ e.kind \notin {"queued", "reply", "prompt"}
  PROVE  QuietStep /\ UNCHANGED <<reader, watch>>
  <1>1. /\ LineStep
        /\ Len(lines') = Kept + 1 /\ lines'[Kept + 1] = e
        /\ \A i \in 1..Kept : lines'[i] = lines[i]
        /\ UNCHANGED <<agent, reader, contextMax, daemon, watch>>
    BY OneLine
  <1>2. Kept \in Nat /\ Kept <= Len(lines) /\ Len(lines) \in Nat
    BY KeptIs, LinesNow DEF LinesInv
  <1>3. ASSUME NEW i \in 1..Len(lines'), lines'[i].kind = "reply"
        PROVE  i <= Len(lines) /\ lines[i] = lines'[i]
    <2>1. i # Kept + 1
      BY <1>1, <1>3
    <2>2. i \in 1..Kept
      BY <1>1, <1>2, <2>1
    <2> QED
      BY <1>1, <1>2, <2>2
  <1> QED
    BY <1>1, <1>3 DEF QuietStep

LEMMA TakePromptKeeps ==
  ASSUME LinesInv, SentInv, NEW ours \in BOOLEAN, TakePrompt(ours)
  PROVE  QuietStep /\ SentInv' /\ UNCHANGED <<reader, watch>>
  <1> DEFINE e == Prompt(ours)
             f == Plain("reply")
  <1>1. /\ e \in Line /\ e.kind = "prompt" /\ e.ours = ours /\ e.usage = 0
        /\ f \in Line /\ f.kind = "reply" /\ f.usage = 0
    BY PlainIs, PromptIs
  <1>2. sent \in Sent
    BY DEF SentInv
  <1>3. UNCHANGED tasks
    BY DEF TakePrompt
  <1>4. CASE agent = "cursor"
    <2>1. Writes(<<e, f>>) /\ sent' = Shown(e)
      BY <1>4 DEF TakePrompt
    <2> HIDE DEF e, f
    <2>2. Marks(e, TRUE)
      BY <1>1, <1>2, <2>1, ShownMarks
    <2>3. LineStep /\ SentInv'
      BY <1>1, <1>4, <2>1, <2>2, TwoLinesKeep
    <2>4. UNCHANGED <<agent, reader, contextMax, daemon, watch>>
      BY <2>1 DEF Writes
    <2> QED
      BY <1>3, <1>4, <2>3, <2>4 DEF QuietStep
  <1>5. CASE agent # "cursor"
    <2>1. Writes(<<e>>) /\ sent' = IF torn' THEN sent ELSE Shown(e)
      BY <1>5 DEF TakePrompt
    <2> HIDE DEF e, f
    <2>2. Marks(e, ~torn')
      <3>1. (~torn') \in BOOLEAN /\ sent' = IF ~torn' THEN Shown(e) ELSE sent
        BY <2>1
      <3> QED
        BY <1>1, <1>2, <3>1, ShownMarks
    <2>3. LineStep /\ SentInv'
      BY <1>1, <1>5, <2>1, <2>2, OneLineKeeps
    <2>4. QuietStep /\ UNCHANGED <<reader, watch>>
      BY <1>1, <1>3, <1>5, <2>1, OneLineIsQuiet
    <2> QED
      BY <2>3, <2>4
  <1> QED
    BY <1>4, <1>5

LEMMA QueueKeeps ==
  ASSUME LinesInv, SentInv, NEW ours \in BOOLEAN, Queue(ours)
  PROVE  QuietStep /\ SentInv' /\ UNCHANGED <<reader, watch>>
  <1> DEFINE e == Queued(ours)
  <1>1. e \in Line /\ e.kind = "queued" /\ e.ours = ours
    BY PromptIs
  <1>2. /\ sent \in Sent /\ agent # "cursor" /\ UNCHANGED tasks
        /\ Writes(<<e>>) /\ sent' = IF torn' THEN sent ELSE Shown(e)
    BY DEF SentInv, Queue
  <1> HIDE DEF e
  <1>3. Marks(e, ~torn')
    <2>1. (~torn') \in BOOLEAN /\ sent' = IF ~torn' THEN Shown(e) ELSE sent
      BY <1>2
    <2> QED
      BY <1>1, <1>2, <2>1, ShownMarks
  <1>4. LineStep /\ SentInv'
    BY <1>1, <1>2, <1>3, OneLineKeeps
  <1>5. QuietStep /\ UNCHANGED <<reader, watch>>
    BY <1>1, <1>2, OneLineIsQuiet
  <1> QED
    BY <1>4, <1>5

\* A line that is no prompt.
LEMMA WorkKeeps ==
  ASSUME LinesInv, SentInv, NEW e \in Line, Writes(<<e>>), ~e.ours, UNCHANGED sent,
         e.kind = "turn_ended" => agent = "cursor" /\ ~Ends(lines),
         agent = "cursor" => e.usage = 0 /\ e.kind \notin {"queued", "reply", "prompt"}
  PROVE  LineStep /\ SentInv'
  <1>1. Marks(e, ~torn')
    BY SameMarks DEF SentInv
  <1> QED
    BY <1>1, OneLineKeeps

LEMMA QuietWorkKeeps ==
  ASSUME LinesInv, SentInv,
         Other \/ EndTurn \/ (\E context \in 1..MaxContext : Aside(context))
  PROVE  QuietStep /\ SentInv' /\ UNCHANGED <<reader, watch>>
  <1>1. 0 \in 0..MaxContext /\ MaxContext \in Nat
    BY TranscriptsAssumption DEF TranscriptsAssumption
  <1>2. CASE Other
    <2> DEFINE e == Plain("other")
    <2>1. e \in Line /\ e.kind = "other" /\ e.usage = 0 /\ ~e.ours
      BY PlainIs
    <2>2. Writes(<<e>>) /\ UNCHANGED <<sent, tasks>>
      BY <1>2 DEF Other
    <2> HIDE DEF e
    <2> QED
      BY <2>1, <2>2, WorkKeeps, OneLineIsQuiet
  <1>3. CASE EndTurn
    <2> DEFINE e == Plain("turn_ended")
    <2>1. e \in Line /\ e.kind = "turn_ended" /\ e.usage = 0 /\ ~e.ours
      BY PlainIs
    <2>2. Writes(<<e>>) /\ UNCHANGED <<sent, tasks>> /\ agent = "cursor" /\ ~Ends(lines)
      BY <1>3 DEF EndTurn
    <2> HIDE DEF e
    <2> QED
      BY <2>1, <2>2, WorkKeeps, OneLineIsQuiet
  <1>4. ASSUME NEW context \in 1..MaxContext, Aside(context)
        PROVE  QuietStep /\ SentInv' /\ UNCHANGED <<reader, watch>>
    <2> DEFINE e == Usage("aside", context)
    <2>1. e \in Line /\ e.kind = "aside" /\ ~e.ours
      <3>1. context \in 0..MaxContext
        BY <1>1
      <3> QED
        BY <3>1, UsageIs
    <2>2. Writes(<<e>>) /\ UNCHANGED <<sent, tasks>> /\ agent # "cursor"
      BY <1>4 DEF Aside
    <2> HIDE DEF e
    <2> QED
      BY <2>1, <2>2, WorkKeeps, OneLineIsQuiet
  <1> QED
    BY <1>2, <1>3, <1>4

-----------------------------------------------------------------------------
(* Tasks and contexts *)

\* The responses that ended before the task was dispatched, those that began and
\* ended while it was the task dispatched last, and those that may have ended
\* under it: one may have been half written as it was dispatched.
Before(t) == {i \in 1..Len(lines) : HasUsage(i) /\ 2 * i <= tasks[t].offset}

Period(t) ==
  {i \in Whole :
     /\ HasUsage(i) /\ 2 * (i - 1) >= tasks[t].offset
     /\ \A u \in Task : Dispatched(u) /\ tasks[u].offset > tasks[t].offset =>
          2 * i <= tasks[u].offset}

Begun(t) ==
  {i \in 1..Len(lines) :
     /\ HasUsage(i) /\ 2 * i > tasks[t].offset
     /\ \A u \in Task : Dispatched(u) /\ tasks[u].offset > tasks[t].offset =>
          2 * (i - 1) < tasks[u].offset}

\* The context the task began with.
Base(t) == Latest(Before(t))

HeldIs(t) ==
  /\ \A i \in Period(t) : lines[i].usage <= tasks[t].held
  /\ tasks[t].held = 0 \/ \E i \in Period(t) : lines[i].usage = tasks[t].held

\* A context that did not shrink is never below the one the task began with.
SteadyIs(t) == ~tasks[t].shrank => \A i \in Begun(t) : lines[i].usage >= Base(t)

\* What was read of a task that was seen under way.
StartIs(t) == tasks[t].start = IF Records THEN Base(t) ELSE Unknown

\* The daemon has read the session's context since the task took off.
ReadSince(t) ==
  \/ tasks[t].state = "committed"
  \/ tasks[t].state = "in_flight" /\ daemon.at = "observing"

MaxIsPast(t) ==
  Records /\ ~tasks[t].shrank /\ ~daemon.blind => contextMax >= Base(t)

\* The task's part of the transcript ends where the next one by id begins.
Ordered(t) ==
  /\ \A u, v \in Task :
       u < v /\ Dispatched(u) /\ Dispatched(v) => tasks[u].offset <= tasks[v].offset
  /\ \A v \in Task : t < v /\ Dispatched(v) => tasks[t].offset < tasks[v].offset

TaskInv(t) ==
  /\ ~Dispatched(t) => tasks[t] = Drafted
  /\ tasks[t].offset <= Size
  /\ Flying(t) => Current(t)
  /\ Dispatched(t) /\ tasks[t].state # "calibrated" => HeldIs(t)
  /\ Records /\ Dispatched(t) => SteadyIs(t)
  /\ tasks[t].state \in {"in_flight", "committed", "calibrated"} => StartIs(t)
  /\ ReadSince(t) => MaxIsPast(t)
  /\ tasks[t].refused =>
       /\ tasks[t].state \in {"committed", "calibrated"}
       /\ Ordered(t) => tasks[t].shrank \/ daemon.blind
  /\ tasks[t].state = "calibrated" /\ tasks[t].held > 0 /\ Ordered(t) =>
       tasks[t].end = tasks[t].held

TasksInv ==
  /\ tasks \in [Task -> TaskRow] /\ contextMax \in ContextSize
  /\ daemon \in Daemon /\ watch \in Watch
  /\ \A t \in Task : TaskInv(t)

IInv == LinesInv /\ SentInv /\ TasksInv

LEMMA TaskNow ==
  ASSUME tasks \in [Task -> TaskRow], NEW t \in Task
  PROVE  /\ tasks[t].offset \in Nat /\ tasks[t].held \in 0..MaxContext
         /\ tasks[t].start \in ContextSize /\ tasks[t].end \in ContextSize
         /\ tasks[t].shrank \in BOOLEAN /\ tasks[t].refused \in BOOLEAN
         /\ tasks[t].state \in {"drafted", "dispatched", "in_flight", "committed",
                                "calibrated", "aborted"}
         /\ tasks[t] \in TaskRow /\ tasks[t].offset \in Sizes
  <1>1. tasks[t] \in TaskRow /\ MaxLines \in Nat
    BY TranscriptsAssumption DEF TranscriptsAssumption
  <1>2. tasks[t].offset \in Sizes
    BY <1>1 DEF TaskRow
  <1>3. tasks[t].offset \in Nat
    BY <1>1, <1>2 DEF Sizes
  <1> QED
    BY <1>1, <1>2, <1>3 DEF TaskRow

\* The latest of some lines is one of them.
LEMMA LatestIs ==
  ASSUME LinesInv, NEW S \in SUBSET (1..Len(lines))
  PROVE  /\ Latest(S) \in 0..MaxContext
         /\ S = {} => Latest(S) = 0
         /\ S # {} => \E m \in S : Latest(S) = lines[m].usage /\ \A i \in S : m >= i
  <1>1. Len(lines) \in Nat /\ MaxContext \in Nat
    BY LinesNow, TranscriptsAssumption DEF LinesInv, TranscriptsAssumption
  <1>2. CASE S = {}
    BY <1>1, <1>2 DEF Latest
  <1>3. CASE S # {}
    <2>1. S \subseteq 0..Len(lines)
      BY <1>1
    <2>2. Max(S) \in S /\ \A i \in S : Max(S) >= i
      BY <1>1, <1>3, <2>1, MaxIs
    <2>3. Latest(S) = lines[Max(S)].usage
      BY <1>3 DEF Latest
    <2>4. lines[Max(S)].usage \in 0..MaxContext
      BY <2>2, LinesNow DEF LinesInv
    <2> QED
      BY <1>3, <2>2, <2>3, <2>4
  <1> QED
    BY <1>2, <1>3

LEMMA LatestStays ==
  ASSUME LinesInv, NEW S \in SUBSET (1..Len(lines)), \A i \in S : lines'[i] = lines[i]
  PROVE  Latest(S)' = Latest(S)
  <1>1. CASE S = {}
    BY <1>1 DEF Latest
  <1>2. CASE S # {}
    <2>1. Len(lines) \in Nat
      BY LinesNow DEF LinesInv
    <2>2. S \subseteq 0..Len(lines)
      BY <2>1
    <2>3. Max(S) \in S
      BY <1>2, <2>1, <2>2, MaxIs
    <2> QED
      BY <1>2, <2>3 DEF Latest
  <1> QED
    BY <1>1, <1>2

\* A response that ended lies before the end.
LEMMA WholeWithin ==
  ASSUME LinesInv, NEW i \in Whole, HasUsage(i)
  PROVE  i \in 1..Len(lines) /\ 2 * i <= Size
  <1>1. i \in 1..Len(lines) /\ ~(torn /\ i = Len(lines))
    BY WholeIs
  <1>2. Len(lines) \in Nat /\ Size \in Nat
    BY LinesNow, SizeIs DEF LinesInv
  <1>3. CASE torn
    <2>1. Size = 2 * Len(lines) - 1
      BY <1>3, SizeIs DEF LinesInv
    <2> QED
      BY <1>1, <1>2, <1>3, <2>1
  <1>4. CASE ~torn
    <2>1. Size = Kept + Len(lines) /\ Kept \in Nat /\ Kept <= Len(lines)
      BY <1>4, SizeIs, KeptIs DEF LinesInv
    <2>2. i <= Kept
      <3>1. lines[i].kind # "turn_ended"
        BY DEF HasUsage
      <3> QED
        BY <1>1, <3>1, LineStays
    <2> QED
      BY <1>1, <1>2, <2>1, <2>2
  <1> QED
    BY <1>1, <1>3, <1>4

\* No task is dispatched or moved to another part of the transcript.
Frame ==
  \A u \in Task :
    (Dispatched(u)' <=> Dispatched(u)) /\ tasks'[u].offset = tasks[u].offset

LEMMA FrameKeeps ==
  ASSUME Frame, NEW t \in Task
  PROVE  (Current(t)' <=> Current(t)) /\ (Ordered(t)' <=> Ordered(t))
  BY DEF Frame, Current, Ordered

\* What a step that writes lines leaves of the parts of the tasks.
LEMMA PartsOnWrite ==
  ASSUME LinesInv, LineStep, Frame, tasks \in [Task -> TaskRow],
         NEW t \in Task, Dispatched(t),
         \A u \in Task : Dispatched(u) => tasks[u].offset <= Size
  PROVE  /\ Base(t)' = Base(t)
         /\ \A i \in Begun(t)' :
              \/ i \in Begun(t) /\ lines'[i] = lines[i]
              \/ 2 * (i - 1) >= Size /\ Current(t)
         /\ \A i \in Period(t)' :
              \/ i \in Period(t) /\ lines'[i] = lines[i]
              \/ 2 * (i - 1) >= Size /\ Current(t)
         /\ \A i \in Period(t) : i \in Period(t)' /\ lines'[i] = lines[i]
  <1>1. /\ Len(lines) \in Nat /\ Kept \in Nat /\ Kept <= Len(lines) /\ Size \in Nat
        /\ Len(lines') \in Nat /\ Kept < Len(lines') /\ ~torn
    BY LinesNow, KeptIs, SizeIs DEF LinesInv, LineStep
  <1>2. tasks[t].offset \in Nat /\ \A u \in Task : tasks[u].offset \in Nat
    BY TaskNow
  <1>0. tasks[t].offset <= Size
    OBVIOUS
  <1>3. ASSUME NEW i \in 1..Len(lines), HasUsage(i)
        PROVE  i \in 1..Len(lines') /\ i < Len(lines') /\ lines'[i] = lines[i]
    <2>1. lines[i].kind # "turn_ended"
      BY <1>3 DEF HasUsage
    <2>2. i <= Len(lines') /\ i <= Kept /\ lines'[i] = lines[i]
      BY <2>1 DEF LineStep
    <2> QED
      BY <1>1, <2>2
  <1>4. ASSUME NEW i \in 1..Len(lines'), HasUsage(i)'
        PROVE  \/ i \in 1..Len(lines) /\ HasUsage(i) /\ lines'[i] = lines[i]
               \/ 2 * (i - 1) >= Size
    <2>1. lines'[i].kind = "reply"
      BY <1>4 DEF HasUsage
    <2>2. \/ i <= Len(lines) /\ lines[i] = lines'[i]
          \/ 2 * (i - 1) >= Size
      BY <2>1 DEF LineStep
    <2> QED
      BY <1>1, <2>1, <2>2 DEF HasUsage
  <1>5. \A i \in 1..Len(lines) : i \in Whole
    BY <1>1, WholeIs
  <1>6. tasks'[t].offset = tasks[t].offset
    BY DEF Frame
  <1>7. \A u \in Task :
          /\ Dispatched(u)' /\ tasks'[u].offset > tasks'[t].offset <=>
               Dispatched(u) /\ tasks[u].offset > tasks[t].offset
          /\ tasks'[u].offset = tasks[u].offset
    BY DEF Frame
  <1>8. Before(t)' = Before(t)
    <2>1. ASSUME NEW i \in Before(t) PROVE i \in Before(t)'
      <3>1. i \in 1..Len(lines) /\ HasUsage(i) /\ 2 * i <= tasks[t].offset
        BY DEF Before
      <3>2. i \in 1..Len(lines') /\ HasUsage(i)'
        BY <1>3, <3>1 DEF HasUsage
      <3> QED
        BY <1>6, <3>1, <3>2 DEF Before
    <2>2. ASSUME NEW i \in Before(t)' PROVE i \in Before(t)
      <3>1. i \in 1..Len(lines') /\ HasUsage(i)' /\ 2 * i <= tasks[t].offset
        BY <1>6 DEF Before
      <3>2. ~(2 * (i - 1) >= Size)
        BY <1>0, <1>1, <1>2, <3>1
      <3>3. i \in 1..Len(lines) /\ HasUsage(i)
        BY <1>4, <3>1, <3>2
      <3> QED
        BY <3>1, <3>3 DEF Before
    <2> QED
      BY <2>1, <2>2
  <1>9. Base(t)' = Base(t)
    <2>1. PICK S \in SUBSET (1..Len(lines)) : S = Before(t)
      BY DEF Before
    <2>2. \A i \in S : lines'[i] = lines[i]
      BY <1>3, <2>1 DEF Before
    <2>3. Latest(S)' = Latest(S)
      BY <2>2, LatestStays
    <2> QED
      BY <1>8, <2>1, <2>3 DEF Base, Latest
  <1>10. ASSUME NEW i \in 1..Len(lines'), 2 * (i - 1) >= Size,
                \A u \in Task : Dispatched(u) /\ tasks[u].offset > tasks[t].offset =>
                  2 * (i - 1) < tasks[u].offset
         PROVE  Current(t)
    <2>1. ASSUME NEW u \in Task, Dispatched(u) PROVE tasks[u].offset <= tasks[t].offset
      <3>1. tasks[u].offset <= Size
        BY <2>1
      <3>2. ~(tasks[u].offset > tasks[t].offset)
        BY <1>1, <1>2, <1>10, <2>1, <3>1
      <3> QED
        BY <1>2, <3>2
    <2> QED
      BY <2>1 DEF Current
  <1>11. ASSUME NEW i \in Begun(t)'
         PROVE  \/ i \in Begun(t) /\ lines'[i] = lines[i]
                \/ 2 * (i - 1) >= Size /\ Current(t)
    <2>1. /\ i \in 1..Len(lines') /\ HasUsage(i)' /\ 2 * i > tasks[t].offset
          /\ \A u \in Task : Dispatched(u) /\ tasks[u].offset > tasks[t].offset =>
               2 * (i - 1) < tasks[u].offset
      BY <1>6, <1>7 DEF Begun
    <2>2. CASE 2 * (i - 1) >= Size
      BY <1>10, <2>1, <2>2
    <2>3. CASE i \in 1..Len(lines) /\ HasUsage(i) /\ lines'[i] = lines[i]
      BY <2>1, <2>3 DEF Begun
    <2> QED
      BY <1>4, <2>1, <2>2, <2>3
  <1>12. ASSUME NEW i \in Period(t)'
         PROVE  \/ i \in Period(t) /\ lines'[i] = lines[i]
                \/ 2 * (i - 1) >= Size /\ Current(t)
    <2>1. /\ i \in Whole' /\ HasUsage(i)' /\ 2 * (i - 1) >= tasks[t].offset
          /\ \A u \in Task : Dispatched(u) /\ tasks[u].offset > tasks[t].offset =>
               2 * i <= tasks[u].offset
      BY <1>6, <1>7 DEF Period
    <2>2. i \in 1..Len(lines')
      BY <2>1, WholeNext DEF LineStep
    <2>3. CASE 2 * (i - 1) >= Size
      <3>1. \A u \in Task : Dispatched(u) /\ tasks[u].offset > tasks[t].offset =>
               2 * (i - 1) < tasks[u].offset
        BY <1>1, <1>2, <2>1, <2>2
      <3> QED
        BY <1>10, <2>2, <2>3, <3>1
    <2>4. CASE i \in 1..Len(lines) /\ HasUsage(i) /\ lines'[i] = lines[i]
      BY <1>5, <2>1, <2>4 DEF Period
    <2> QED
      BY <1>4, <2>1, <2>2, <2>3, <2>4
  <1>13. ASSUME NEW i \in Period(t)
         PROVE  i \in Period(t)' /\ lines'[i] = lines[i]
    <2>1. /\ i \in Whole /\ HasUsage(i) /\ 2 * (i - 1) >= tasks[t].offset
          /\ \A u \in Task : Dispatched(u) /\ tasks[u].offset > tasks[t].offset =>
               2 * i <= tasks[u].offset
      BY DEF Period
    <2>2. i \in 1..Len(lines)
      BY <2>1, WholeIs
    <2>3. i \in 1..Len(lines') /\ i < Len(lines') /\ lines'[i] = lines[i]
      BY <1>3, <2>1, <2>2
    <2>4. i \in Whole' /\ HasUsage(i)'
      <3>1. i # Len(lines')
        BY <1>1, <2>3
      <3> QED
        BY <2>1, <2>3, <3>1, WholeNext DEF HasUsage, LineStep
    <2>5. i \in Period(t)'
      BY <1>6, <1>7, <2>1, <2>4 DEF Period
    <2> QED
      BY <2>3, <2>5
  <1> QED
    BY <1>9, <1>11, <1>12, <1>13

\* Nothing is said of a task that was not dispatched.
LEMMA Undispatched ==
  ASSUME NEW t \in Task, tasks'[t] = Drafted, tasks'[t].offset <= Size'
  PROVE  TaskInv(t)'
  BY DEF TaskInv, Drafted, Dispatched, Flying, ReadSince

LEMMA FrameOfSame ==
  ASSUME UNCHANGED tasks
  PROVE  Frame
  BY DEF Frame, Dispatched

LEMMA OffsetsKeep ==
  ASSUME LinesInv, LinesInv', Size <= Size', tasks \in [Task -> TaskRow], NEW t \in Task,
         tasks[t].offset <= Size, tasks'[t].offset = tasks[t].offset
  PROVE  tasks'[t].offset <= Size'
  <1>1. tasks[t].offset \in Nat /\ Size \in Nat /\ Size' \in Nat
    BY TaskNow, SizeIs, SizeIsNext DEF LinesInv
  <1>2. \A o, a, b \in Nat : o <= a /\ a <= b => o <= b
    OBVIOUS
  <1> QED
    BY <1>1, <1>2, Zenon

LEMMA QuietKeepsTask ==
  ASSUME LinesInv, TasksInv, QuietStep, NEW t \in Task
  PROVE  TaskInv(t)'
  <1>1. /\ LineStep /\ UNCHANGED <<tasks, contextMax, daemon>> /\ agent' = agent
        /\ LinesInv' /\ Size <= Size'
    BY DEF QuietStep, LineStep
  <1>2. /\ TaskInv(t) /\ tasks \in [Task -> TaskRow]
        /\ \A u \in Task : tasks[u].offset <= Size
    BY DEF TasksInv, TaskInv
  <1>3. Frame
    BY <1>1, FrameOfSame
  <1>4. (Current(t)' <=> Current(t)) /\ (Ordered(t)' <=> Ordered(t))
    BY <1>3, FrameKeeps
  <1>5. tasks'[t].offset <= Size'
    BY <1>1, <1>2, OffsetsKeep
  <1>6. CASE Dispatched(t)
    <2>1. /\ Base(t)' = Base(t)
          /\ \A i \in Begun(t)' :
               \/ i \in Begun(t) /\ lines'[i] = lines[i]
               \/ 2 * (i - 1) >= Size /\ Current(t)
          /\ \A i \in Period(t)' :
               \/ i \in Period(t) /\ lines'[i] = lines[i]
               \/ 2 * (i - 1) >= Size /\ Current(t)
          /\ \A i \in Period(t) : i \in Period(t)' /\ lines'[i] = lines[i]
      BY <1>1, <1>2, <1>3, <1>6, PartsOnWrite
    <2>2. Len(lines) \in Nat /\ 2 * Len(lines) <= Size + 1 /\ Size \in Nat
      BY LinesNow, SizeIs DEF LinesInv
    <2>3. ASSUME NEW i \in 1..Len(lines'), HasUsage(i)', 2 * (i - 1) >= Size
          PROVE  agent = "cursor" /\ lines'[i].usage = 0
      <3>1. ~(i <= Len(lines))
        BY <2>2, <2>3
      <3>2. agent = "cursor"
        BY <2>3, <3>1 DEF QuietStep, HasUsage
      <3> QED
        BY <1>1, <3>2 DEF LinesInv, Shape
    <2>4. tasks[t].held \in Nat
      BY <1>2, TaskNow, TranscriptsAssumption DEF TranscriptsAssumption
    <2>5. ASSUME HeldIs(t) PROVE HeldIs(t)'
      <3>1. ASSUME NEW i \in Period(t)' PROVE lines'[i].usage <= tasks'[t].held
        <4>1. CASE i \in Period(t) /\ lines'[i] = lines[i]
          BY <1>1, <2>5, <4>1 DEF HeldIs
        <4>2. CASE 2 * (i - 1) >= Size
          <5>1. i \in 1..Len(lines') /\ HasUsage(i)'
            BY <1>1, WholeNext DEF Period
          <5>2. lines'[i].usage = 0
            BY <2>3, <4>2, <5>1
          <5> QED
            BY <1>1, <2>4, <5>2
        <4> QED
          BY <2>1, <4>1, <4>2
      <3>2. tasks'[t].held = 0 \/ \E i \in Period(t)' : lines'[i].usage = tasks'[t].held
        BY <1>1, <2>1, <2>5 DEF HeldIs
      <3> QED
        BY <3>1, <3>2 DEF HeldIs
    <2>6. ASSUME SteadyIs(t), Records PROVE SteadyIs(t)'
      <3>1. ASSUME ~tasks[t].shrank, NEW i \in Begun(t)' PROVE lines'[i].usage >= Base(t)
        <4>1. CASE i \in Begun(t) /\ lines'[i] = lines[i]
          BY <2>6, <3>1, <4>1 DEF SteadyIs
        <4>2. CASE 2 * (i - 1) >= Size
          <5>1. i \in 1..Len(lines') /\ HasUsage(i)'
            BY DEF Begun
          <5> QED
            BY <2>3, <2>6, <4>2, <5>1 DEF Records
        <4> QED
          BY <2>1, <4>1, <4>2
      <3> QED
        BY <1>1, <2>1, <3>1 DEF SteadyIs
    <2>7. (StartIs(t)' <=> StartIs(t)) /\ (Records' <=> Records)
      BY <1>1, <2>1 DEF StartIs, Records
    <2>8. (ReadSince(t)' <=> ReadSince(t)) /\ (MaxIsPast(t)' <=> MaxIsPast(t))
      BY <1>1, <2>1 DEF ReadSince, MaxIsPast, Records
    <2>9. (Dispatched(t)' <=> Dispatched(t)) /\ (Flying(t)' <=> Flying(t))
      BY <1>1 DEF Dispatched, Flying
    <2> QED
      BY <1>1, <1>2, <1>4, <1>5, <1>6, <2>5, <2>6, <2>7, <2>8, <2>9 DEF TaskInv
  <1>7. CASE ~Dispatched(t)
    <2>1. ~Dispatched(t)' /\ tasks'[t] = Drafted
      BY <1>1, <1>2, <1>7 DEF TaskInv, Dispatched
    <2> QED
      BY <1>5, <2>1, Undispatched
  <1> QED
    BY <1>6, <1>7

\* What a response makes of a task's row.
Recounted(t) ==
  /\ tasks'[t] \in TaskRow
  /\ tasks'[t].state = tasks[t].state /\ tasks'[t].offset = tasks[t].offset
  /\ tasks'[t].start = tasks[t].start /\ tasks'[t].end = tasks[t].end
  /\ tasks'[t].refused = tasks[t].refused
  /\ tasks[t].shrank => tasks'[t].shrank
  /\ tasks[t].state = "calibrated" => tasks'[t].held = tasks[t].held
  /\ ~Dispatched(t) => tasks'[t] = tasks[t]

LEMMA FrameOfRecounted ==
  ASSUME \A t \in Task : Recounted(t)
  PROVE  Frame
  BY DEF Frame, Recounted, Dispatched

LEMMA RecountedKeeps ==
  ASSUME LinesInv, LinesInv', Size <= Size', TasksInv, Frame, NEW t \in Task, Recounted(t),
         UNCHANGED <<agent, contextMax, daemon>>,
         Dispatched(t) => Base(t)' = Base(t),
         Dispatched(t) /\ tasks[t].state # "calibrated" => HeldIs(t)',
         Records /\ Dispatched(t) => SteadyIs(t)'
  PROVE  TaskInv(t)'
  <1>1. TaskInv(t) /\ tasks \in [Task -> TaskRow] /\ tasks[t].offset <= Size
    BY DEF TasksInv, TaskInv
  <1>2. (Current(t)' <=> Current(t)) /\ (Ordered(t)' <=> Ordered(t))
    BY FrameKeeps
  <1>3. tasks'[t].offset <= Size'
    BY <1>1, OffsetsKeep DEF Recounted
  <1>4. CASE Dispatched(t)
    <2>1. /\ Dispatched(t)' /\ (Flying(t)' <=> Flying(t)) /\ (Records' <=> Records)
          /\ ReadSince(t)' <=> ReadSince(t)
      BY <1>4 DEF Recounted, Dispatched, Flying, Records, ReadSince
    <2>2. StartIs(t)' <=> StartIs(t)
      BY <1>4 DEF Recounted, StartIs, Records
    <2>3. MaxIsPast(t) => MaxIsPast(t)'
      BY <1>4 DEF Recounted, MaxIsPast, Records
    <2>4. tasks'[t].refused =>
            /\ tasks'[t].state \in {"committed", "calibrated"}
            /\ Ordered(t)' => tasks'[t].shrank \/ daemon'.blind
      BY <1>1, <1>2 DEF Recounted, TaskInv
    <2>5. tasks'[t].state = "calibrated" /\ tasks'[t].held > 0 /\ Ordered(t)' =>
            tasks'[t].end = tasks'[t].held
      BY <1>1, <1>2 DEF Recounted, TaskInv
    <2>6. Flying(t)' => Current(t)'
      BY <1>1, <1>2, <2>1 DEF TaskInv
    <2>7. Dispatched(t)' /\ tasks'[t].state # "calibrated" => HeldIs(t)'
      BY <1>4 DEF Recounted
    <2>8. tasks'[t].state \in {"in_flight", "committed", "calibrated"} => StartIs(t)'
      BY <1>1, <2>2 DEF Recounted, TaskInv
    <2>9. ReadSince(t)' => MaxIsPast(t)'
      BY <1>1, <2>1, <2>3 DEF TaskInv
    <2> QED
      BY <1>3, <1>4, <2>1, <2>4, <2>5, <2>6, <2>7, <2>8, <2>9 DEF TaskInv
  <1>5. CASE ~Dispatched(t)
    <2>1. tasks'[t] = Drafted
      BY <1>1, <1>5 DEF TaskInv, Recounted
    <2> QED
      BY <1>3, <2>1, Undispatched
  <1> QED
    BY <1>4, <1>5

\* The row of a task once a response is there to its end.
Counts(t, start) ==
  Current(t) /\ tasks[t].offset <= start /\ tasks[t].state # "calibrated"

LEMMA AnsweredIs ==
  ASSUME tasks \in [Task -> TaskRow], NEW e \in Line, NEW start, NEW t \in Task
  PROVE  LET r == Answered(e, start)[t] IN
         /\ r \in TaskRow
         /\ r.state = tasks[t].state /\ r.offset = tasks[t].offset
         /\ r.start = tasks[t].start /\ r.end = tasks[t].end
         /\ r.refused = tasks[t].refused /\ r.shrank = tasks[t].shrank
         /\ ~Counts(t, start) => r = tasks[t]
         /\ Counts(t, start) =>
              /\ r.held \in {tasks[t].held, e.usage}
              /\ r.held >= tasks[t].held /\ r.held >= e.usage
  <1> DEFINE r == Answered(e, start)[t]
  <1>1. tasks[t] \in TaskRow /\ tasks[t].held \in 0..MaxContext /\ e.usage \in 0..MaxContext
    BY TaskNow DEF Line
  <1>2. MaxContext \in Nat
    BY TranscriptsAssumption DEF TranscriptsAssumption
  <1>3. r = IF Counts(t, start) THEN [tasks[t] EXCEPT !.held = Max({tasks[t].held, e.usage})]
            ELSE tasks[t]
    BY DEF Answered, Counts
  <1>4. CASE Counts(t, start)
    <2>1. PICK h : h = Max({tasks[t].held, e.usage})
      OBVIOUS
    <2>2. h \in {tasks[t].held, e.usage} /\ h >= tasks[t].held /\ h >= e.usage
      <3>1. tasks[t].held \in Int /\ e.usage \in Int
        BY <1>1, <1>2
      <3>2. \A a, b \in Int : /\ Max({a, b}) \in {a, b}
                               /\ Max({a, b}) >= a /\ Max({a, b}) >= b
        BY MaxOfTwo
      <3> QED
        BY <2>1, <3>1, <3>2
    <2>3. h \in 0..MaxContext
      BY <1>1, <2>2
    <2>4. r = [tasks[t] EXCEPT !.held = h]
      BY <1>3, <1>4, <2>1
    <2> HIDE DEF r
    <2>5. r \in TaskRow
      BY <1>1, <2>3, <2>4 DEF TaskRow
    <2>6. /\ r.state = tasks[t].state /\ r.offset = tasks[t].offset
          /\ r.start = tasks[t].start /\ r.end = tasks[t].end
          /\ r.refused = tasks[t].refused /\ r.shrank = tasks[t].shrank /\ r.held = h
      BY <1>1, <2>4 DEF TaskRow
    <2> QED
      BY <1>4, <2>2, <2>5, <2>6 DEF r
  <1>5. CASE ~Counts(t, start)
    BY <1>1, <1>3, <1>5
  <1> QED
    BY <1>4, <1>5

LEMMA HeldCounts ==
  ASSUME NEW t \in Task, NEW m, NEW used \in Nat, NEW counts \in BOOLEAN, HeldIs(t),
         tasks[t].held \in Nat,
         \A i \in Period(t) : i \in Period(t)' /\ lines'[i] = lines[i],
         \A i \in Period(t) : lines[i].usage \in Nat,
         \A i \in Period(t)' : (i \in Period(t) /\ lines'[i] = lines[i]) \/ (i = m /\ counts),
         counts => m \in Period(t)' /\ lines'[m].usage = used,
         counts => /\ tasks'[t].held \in {tasks[t].held, used}
                   /\ tasks'[t].held >= tasks[t].held /\ tasks'[t].held >= used,
         ~counts => tasks'[t].held = tasks[t].held
  PROVE  HeldIs(t)'
  <1>1. PICK h \in Nat : h = tasks'[t].held
    OBVIOUS
  <1>2. h >= tasks[t].held /\ (counts => h >= used) /\ h \in {tasks[t].held, used}
    BY <1>1
  <1>3. ASSUME NEW i \in Period(t)' PROVE lines'[i].usage <= h
    <2>1. CASE i \in Period(t) /\ lines'[i] = lines[i]
      <3>1. lines[i].usage <= tasks[t].held /\ lines[i].usage \in Nat
        BY <2>1 DEF HeldIs
      <3> QED
        BY <1>2, <2>1, <3>1
    <2>2. CASE i = m /\ counts
      BY <1>2, <2>2
    <2> QED
      BY <2>1, <2>2
  <1>4. h = 0 \/ \E i \in Period(t)' : lines'[i].usage = h
    <2>1. CASE h = tasks[t].held
      <3>1. h = 0 \/ \E i \in Period(t) : lines[i].usage = h
        BY <2>1 DEF HeldIs
      <3> QED
        BY <3>1
    <2>2. CASE h # tasks[t].held
      <3>1. counts /\ h = used
        BY <1>1, <1>2, <2>2
      <3> QED
        BY <3>1
    <2> QED
      BY <2>1, <2>2
  <1> QED
    BY <1>1, <1>3, <1>4 DEF HeldIs

\* The last response is not below what the task began with, unless one shrank.
LEMMA LatestAboveBase ==
  ASSUME LinesInv, tasks \in [Task -> TaskRow], NEW t \in Task, Current(t), SteadyIs(t),
         ~tasks[t].shrank
  PROVE  Latest(Replies) >= Base(t)
  <1>1. Replies \subseteq 1..Len(lines) /\ Before(t) \subseteq 1..Len(lines)
    BY LinesNow DEF Replies, Before, LinesInv
  <1>2. MaxContext \in Nat /\ tasks[t].offset \in Nat /\ Len(lines) \in Nat
    BY TaskNow, LinesNow, TranscriptsAssumption DEF TranscriptsAssumption, LinesInv
  <1>3. Latest(Replies) \in 0..MaxContext /\ Base(t) \in 0..MaxContext
    BY <1>1, LatestIs DEF Base
  <1>4. Before(t) \subseteq Replies
    BY LinesNow DEF Before, Replies, HasUsage, LinesInv
  <1>5. CASE Replies = {}
    <2>1. Before(t) = {}
      BY <1>4, <1>5
    <2> QED
      BY <1>2, <1>3, <1>5, <2>1 DEF Base
  <1>6. CASE Replies # {}
    <2>1. PICK m \in Replies : Latest(Replies) = lines[m].usage /\ \A i \in Replies : m >= i
      BY <1>1, <1>6, LatestIs
    <2>2. m \in 1..Len(lines) /\ HasUsage(m)
      BY <1>1 DEF Replies, HasUsage
    <2>3. CASE 2 * m > tasks[t].offset
      <3>1. \A u \in Task : Dispatched(u) => tasks[u].offset <= tasks[t].offset
        BY DEF Current
      <3>2. \A u \in Task : tasks[u].offset \in Nat
        BY TaskNow
      <3>3. \A u \in Task : ~(Dispatched(u) /\ tasks[u].offset > tasks[t].offset)
        BY <1>2, <3>1, <3>2
      <3>4. m \in Begun(t)
        BY <2>2, <2>3, <3>3 DEF Begun
      <3> QED
        BY <2>1, <3>4 DEF SteadyIs
    <2>4. CASE ~(2 * m > tasks[t].offset)
      <3>1. ASSUME NEW i \in Replies PROVE i \in Before(t)
        <4>1. i \in 1..Len(lines) /\ HasUsage(i) /\ m >= i
          BY <1>1, <2>1 DEF Replies, HasUsage
        <4>2. 2 * i <= tasks[t].offset
          BY <1>2, <2>2, <2>4, <4>1
        <4> QED
          BY <4>1, <4>2 DEF Before
      <3>2. Before(t) = Replies
        BY <1>4, <3>1
      <3> QED
        BY <1>2, <1>3, <3>2 DEF Base
    <2> QED
      BY <2>3, <2>4
  <1> QED
    BY <1>5, <1>6

LEMMA ReplyIs ==
  ASSUME tasks \in [Task -> TaskRow], NEW context \in 0..MaxContext, Reply(context),
         NEW t \in Task
  PROVE  /\ Recounted(t)
         /\ ~(~torn' /\ Counts(t, Size)) => tasks'[t].held = tasks[t].held
         /\ ~torn' /\ Counts(t, Size) =>
              /\ tasks'[t].held \in {tasks[t].held, context}
              /\ tasks'[t].held >= tasks[t].held /\ tasks'[t].held >= context
         /\ Current(t) /\ context < Latest(Replies) => tasks'[t].shrank
  <1> DEFINE e == Usage("reply", context)
             counted == IF torn' THEN tasks ELSE Answered(e, Size)
             less == Current(t) /\ context < Latest(Replies)
  <1>1. e \in Line /\ e.usage = context
    BY UsageIs
  <1>2. tasks' = [u \in Task |->
          IF Current(u) /\ context < Latest(Replies)
          THEN [counted[u] EXCEPT !.shrank = TRUE] ELSE counted[u]]
    BY DEF Reply
  <1>3. tasks'[t] = IF less THEN [counted[t] EXCEPT !.shrank = TRUE] ELSE counted[t]
    BY <1>2
  <1>4. tasks[t] \in TaskRow
    OBVIOUS
  <1>5. PICK r : r = counted[t]
    OBVIOUS
  <1>6. /\ r \in TaskRow
        /\ r.state = tasks[t].state /\ r.offset = tasks[t].offset
        /\ r.start = tasks[t].start /\ r.end = tasks[t].end
        /\ r.refused = tasks[t].refused /\ r.shrank = tasks[t].shrank
        /\ ~(~torn' /\ Counts(t, Size)) => r = tasks[t]
        /\ ~torn' /\ Counts(t, Size) =>
             /\ r.held \in {tasks[t].held, context}
             /\ r.held >= tasks[t].held /\ r.held >= context
    <2>1. CASE torn'
      BY <1>4, <1>5, <2>1
    <2>2. CASE ~torn'
      <3>1. r = Answered(e, Size)[t]
        BY <1>5, <2>2
      <3> HIDE DEF e
      <3> QED
        BY <1>1, <2>2, <3>1, AnsweredIs
    <2> QED
      BY <2>1, <2>2
  <1>7. PICK q : q = tasks'[t]
    OBVIOUS
  <1>8. q = IF less THEN [r EXCEPT !.shrank = TRUE] ELSE r
    BY <1>3, <1>5, <1>7
  <1>9. less => Dispatched(t)
    BY DEF Current
  <1>10. Counts(t, Size) => Dispatched(t) /\ tasks[t].state # "calibrated"
    BY DEF Counts, Current
  <1> HIDE DEF less, counted, e
  <1>11. /\ q \in TaskRow /\ q.held = r.held
         /\ q.state = r.state /\ q.offset = r.offset /\ q.start = r.start /\ q.end = r.end
         /\ q.refused = r.refused /\ (r.shrank => q.shrank) /\ (less => q.shrank)
         /\ ~less => q = r
    <2>1. CASE less
      <3>1. q = [r EXCEPT !.shrank = TRUE]
        BY <1>8, <2>1
      <3>2. q \in TaskRow
        BY <1>6, <3>1 DEF TaskRow
      <3>3. /\ q.held = r.held /\ q.state = r.state /\ q.offset = r.offset
            /\ q.start = r.start /\ q.end = r.end /\ q.refused = r.refused /\ q.shrank
        BY <1>6, <3>1 DEF TaskRow
      <3> QED
        BY <2>1, <3>2, <3>3
    <2>2. CASE ~less
      BY <1>6, <1>8, <2>2
    <2> QED
      BY <2>1, <2>2
  <1>12. Recounted(t)
    BY <1>6, <1>7, <1>9, <1>10, <1>11 DEF Recounted
  <1> QED
    BY <1>6, <1>7, <1>11, <1>12 DEF less

\* A reply belongs to the task dispatched last, from when it is there to its end.
LEMMA ReplyKeeps ==
  ASSUME IInv, NEW context \in 0..MaxContext, Reply(context)
  PROVE  /\ LineStep /\ SentInv' /\ \A t \in Task : Recounted(t) /\ TaskInv(t)'
         /\ UNCHANGED <<reader, contextMax, daemon, watch>>
  <1> DEFINE e == Usage("reply", context)
             n == Len(lines)
  <1>1. e \in Line /\ e.kind = "reply" /\ e.usage = context /\ ~e.ours
    BY UsageIs
  <1>2. Writes(<<e>>) /\ UNCHANGED sent /\ agent # "cursor" /\ Records
    BY DEF Reply, Records
  <1>3. LinesInv /\ SentInv /\ TasksInv
    BY DEF IInv
  <1>4. /\ LineStep /\ SentInv'
        /\ UNCHANGED <<agent, reader, contextMax, daemon, watch>>
        /\ Len(lines') = Kept + 1 /\ lines'[Kept + 1] = e
    <2> HIDE DEF e
    <2>1. LineStep /\ SentInv'
      BY <1>1, <1>2, <1>3, WorkKeeps
    <2>2. /\ Len(lines') = Kept + 1 /\ lines'[Kept + 1] = e
          /\ UNCHANGED <<agent, reader, contextMax, daemon, watch>>
      BY <1>1, <1>2, <1>3, OneLine
    <2> QED
      BY <2>1, <2>2
  <1>0. PICK m : m = n + 1
    OBVIOUS
  <1>5. Kept = n /\ n \in Nat /\ ~torn /\ Size = 2 * n /\ m \in Nat
    <2>1. Kept = Len(lines) /\ Len(lines) \in Nat /\ ~torn
      BY <1>2, <1>3, <1>4, NoEnd, LinesNow DEF LinesInv, LineStep
    <2> QED
      BY <1>0, <1>3, <2>1, SizeIs DEF LinesInv
  <1>6. Len(lines') = m /\ lines'[m].kind = "reply" /\ lines'[m].usage = context
    BY <1>0, <1>1, <1>4, <1>5
  <1> HIDE DEF e
  <1>7. /\ tasks \in [Task -> TaskRow]
        /\ \A u \in Task : TaskInv(u) /\ tasks[u].offset <= Size /\ tasks[u].offset \in Nat
    BY <1>3, TaskNow DEF TasksInv, TaskInv
  <1>8. \A u \in Task : Recounted(u)
    BY <1>7, ReplyIs
  <1>9. Frame
    BY <1>8, FrameOfRecounted
  <1>10. LinesInv' /\ Size <= Size'
    BY <1>4 DEF LineStep
  <1>11. ASSUME NEW t \in Task, Dispatched(t)
         PROVE  /\ Base(t)' = Base(t)
                /\ tasks[t].state # "calibrated" => HeldIs(t)'
                /\ SteadyIs(t)'
    <2>1. /\ Base(t)' = Base(t)
          /\ \A i \in Begun(t)' :
               \/ i \in Begun(t) /\ lines'[i] = lines[i]
               \/ 2 * (i - 1) >= Size /\ Current(t)
          /\ \A i \in Period(t)' :
               \/ i \in Period(t) /\ lines'[i] = lines[i]
               \/ 2 * (i - 1) >= Size /\ Current(t)
          /\ \A i \in Period(t) : i \in Period(t)' /\ lines'[i] = lines[i]
      BY <1>3, <1>4, <1>7, <1>9, <1>11, PartsOnWrite
    <2>2. ASSUME NEW i \in 1..Len(lines'), 2 * (i - 1) >= Size PROVE i = m
      BY <1>0, <1>5, <1>6, <2>2
    <2>3. /\ ~(~torn' /\ Counts(t, Size)) => tasks'[t].held = tasks[t].held
          /\ ~torn' /\ Counts(t, Size) =>
               /\ tasks'[t].held \in {tasks[t].held, context}
               /\ tasks'[t].held >= tasks[t].held /\ tasks'[t].held >= context
          /\ Current(t) /\ context < Latest(Replies) => tasks'[t].shrank
      BY <1>7, ReplyIs
    <2>4. MaxContext \in Nat /\ context \in Nat /\ tasks[t].held \in Nat
      BY <1>7, TaskNow, TranscriptsAssumption DEF TranscriptsAssumption
    <2>5. ASSUME tasks[t].state # "calibrated" PROVE HeldIs(t)'
      <3>1. PICK counts \in BOOLEAN : counts <=> (~torn' /\ Counts(t, Size))
        OBVIOUS
      <3>2. HeldIs(t)
        BY <1>7, <1>11, <2>5 DEF TaskInv
      <3>3. \A i \in Period(t) : lines[i].usage \in Nat
        <4>1. \A i \in Period(t) : i \in 1..Len(lines)
          BY <1>3, WholeIs DEF Period
        <4> QED
          BY <1>3, <2>4, <4>1, LinesNow DEF LinesInv
      <3>4. ASSUME NEW i \in Period(t)', ~(i \in Period(t) /\ lines'[i] = lines[i])
            PROVE  i = m /\ counts
        <4>1. 2 * (i - 1) >= Size /\ Current(t)
          BY <2>1, <3>4
        <4>2. i \in 1..Len(lines') /\ ~(torn' /\ i = Len(lines'))
          BY <1>10, WholeNext DEF Period
        <4>3. i = m
          BY <2>2, <4>1, <4>2
        <4>4. ~torn'
          BY <1>6, <4>2, <4>3
        <4> QED
          BY <1>7, <2>5, <3>1, <4>1, <4>3, <4>4 DEF Counts
      <3>5. ASSUME counts PROVE m \in Period(t)' /\ lines'[m].usage = context
        <4>1. ~torn' /\ Current(t)
          BY <3>1, <3>5 DEF Counts
        <4>2. m \in 1..Len(lines')
          BY <1>0, <1>5, <1>6
        <4>3. m \in Whole' /\ HasUsage(m)'
          BY <1>6, <1>10, <4>1, <4>2, WholeNext DEF HasUsage
        <4>4. tasks'[t].offset = tasks[t].offset /\ tasks[t].offset <= 2 * n
          BY <1>5, <1>7, <1>9 DEF Frame
        <4>5. 2 * (m - 1) >= tasks'[t].offset
          BY <1>0, <1>5, <1>7, <4>4
        <4>6. Current(t)'
          BY <1>9, <4>1, FrameKeeps
        <4>7. ASSUME NEW u \in Task, Dispatched(u)', tasks'[u].offset > tasks'[t].offset
              PROVE  FALSE
          <5>1. tasks'[u].offset <= tasks'[t].offset
            BY <4>6, <4>7 DEF Current
          <5>2. tasks'[u].offset \in Nat /\ tasks'[t].offset \in Nat
            BY <1>7, <1>9 DEF Frame
          <5> QED
            BY <4>7, <5>1, <5>2
        <4> QED
          BY <1>6, <4>3, <4>5, <4>7 DEF Period
      <3> QED
        BY <2>1, <2>3, <2>4, <3>1, <3>2, <3>3, <3>4, <3>5, HeldCounts
    <2>6. SteadyIs(t)'
      <3>1. ASSUME ~tasks'[t].shrank, NEW i \in Begun(t)'
            PROVE  lines'[i].usage >= Base(t)
        <4>1. ~tasks[t].shrank
          BY <1>8, <3>1 DEF Recounted
        <4>2. SteadyIs(t)
          BY <1>2, <1>7, <1>11 DEF TaskInv
        <4>3. CASE i \in Begun(t) /\ lines'[i] = lines[i]
          BY <4>1, <4>2, <4>3 DEF SteadyIs
        <4>4. CASE 2 * (i - 1) >= Size /\ Current(t)
          <5>1. i \in 1..Len(lines')
            BY DEF Begun
          <5>2. i = m
            BY <2>2, <4>4, <5>1
          <5>3. ~(context < Latest(Replies))
            BY <2>3, <3>1, <4>4
          <5>4. Latest(Replies) >= Base(t)
            BY <1>3, <1>7, <4>1, <4>2, <4>4, LatestAboveBase
          <5>5. Latest(Replies) \in Nat /\ Base(t) \in Nat
            <6>1. Replies \subseteq 1..Len(lines) /\ Before(t) \subseteq 1..Len(lines)
              BY <1>3, LinesNow DEF Replies, Before, LinesInv
            <6>2. Latest(Replies) \in 0..MaxContext /\ Base(t) \in 0..MaxContext
              BY <1>3, <6>1, LatestIs DEF Base
            <6> QED
              BY <2>4, <6>2
          <5> QED
            BY <1>6, <2>4, <5>2, <5>3, <5>4, <5>5
        <4> QED
          BY <2>1, <4>3, <4>4
      <3> QED
        BY <2>1, <3>1 DEF SteadyIs
    <2> QED
      BY <2>1, <2>5, <2>6
  <1>12. ASSUME NEW t \in Task PROVE TaskInv(t)'
    BY <1>3, <1>4, <1>8, <1>9, <1>10, <1>11, RecountedKeeps
  <1> QED
    BY <1>4, <1>8, <1>12

\* The line that was half written counts for the task dispatched last, unless
\* that task was dispatched while it was.
LEMMA FinishKeepsTasks ==
  ASSUME IInv, Finish
  PROVE  /\ LinesInv' /\ SentInv' /\ \A t \in Task : Recounted(t) /\ TaskInv(t)'
         /\ UNCHANGED <<reader, contextMax, daemon, watch>>
  <1>1. LinesInv /\ SentInv /\ TasksInv
    BY DEF IInv
  <1>0. PICK n : n = Len(lines)
    OBVIOUS
  <1>2. /\ torn /\ ~torn' /\ LinesInv' /\ n \in Nat /\ n >= 1
        /\ Size = 2 * n - 1 /\ Size' = 2 * n
        /\ UNCHANGED <<agent, reader, lines, contextMax, daemon, watch>>
    BY <1>0, <1>1, FinishedLine
  <1>3. SentInv'
    BY <1>1, FinishKeepsSent
  <1>4. PICK e \in Line : e = lines[n]
    BY <1>0, <1>1, <1>2, LinesNow DEF LinesInv
  <1>5. tasks' = IF e.kind = "reply" THEN Answered(e, 2 * (n - 1)) ELSE tasks
    BY <1>0, <1>4 DEF Finish
  <1>6. /\ tasks \in [Task -> TaskRow]
        /\ \A u \in Task : TaskInv(u) /\ tasks[u].offset <= Size /\ tasks[u].offset \in Nat
    BY <1>1, TaskNow DEF TasksInv, TaskInv
  <1>7. ASSUME NEW t \in Task
        PROVE  /\ Recounted(t)
               /\ ~(e.kind = "reply" /\ Counts(t, 2 * (n - 1))) =>
                    tasks'[t].held = tasks[t].held
               /\ e.kind = "reply" /\ Counts(t, 2 * (n - 1)) =>
                    /\ tasks'[t].held \in {tasks[t].held, e.usage}
                    /\ tasks'[t].held >= tasks[t].held /\ tasks'[t].held >= e.usage
               /\ tasks'[t].shrank = tasks[t].shrank
    <2>1. CASE e.kind = "reply"
      <3>1. PICK r : r = Answered(e, 2 * (n - 1))[t]
        OBVIOUS
      <3>2. /\ r \in TaskRow
            /\ r.state = tasks[t].state /\ r.offset = tasks[t].offset
            /\ r.start = tasks[t].start /\ r.end = tasks[t].end
            /\ r.refused = tasks[t].refused /\ r.shrank = tasks[t].shrank
            /\ ~Counts(t, 2 * (n - 1)) => r = tasks[t]
            /\ Counts(t, 2 * (n - 1)) =>
                 /\ r.held \in {tasks[t].held, e.usage}
                 /\ r.held >= tasks[t].held /\ r.held >= e.usage
        BY <1>6, <3>1, AnsweredIs
      <3>3. tasks'[t] = r
        BY <1>5, <2>1, <3>1
      <3>4. Counts(t, 2 * (n - 1)) => Dispatched(t) /\ tasks[t].state # "calibrated"
        BY DEF Counts, Current
      <3>5. Recounted(t)
        BY <3>2, <3>3, <3>4 DEF Recounted
      <3> QED
        BY <2>1, <3>2, <3>3, <3>5
    <2>2. CASE e.kind # "reply"
      <3>1. tasks'[t] = tasks[t]
        BY <1>5, <2>2
      <3> QED
        BY <1>6, <2>2, <3>1 DEF Recounted
    <2> QED
      BY <2>1, <2>2
  <1>8. Frame
    BY <1>7, FrameOfRecounted
  <1>9. Size <= Size'
    BY <1>2
  <1>10. \A i : HasUsage(i)' <=> HasUsage(i)
    BY <1>2 DEF HasUsage
  <1>11. ASSUME NEW t \in Task, Dispatched(t)
         PROVE  /\ Base(t)' = Base(t)
                /\ tasks[t].state # "calibrated" => HeldIs(t)'
                /\ SteadyIs(t) => SteadyIs(t)'
    <2>0. /\ tasks'[t].offset = tasks[t].offset
          /\ \A u \in Task :
               /\ Dispatched(u)' /\ tasks'[u].offset > tasks'[t].offset <=>
                    Dispatched(u) /\ tasks[u].offset > tasks[t].offset
               /\ tasks'[u].offset = tasks[u].offset
      BY <1>8 DEF Frame
    <2>1. Before(t)' = Before(t)
      BY <1>2, <2>0 DEF Before, HasUsage
    <2>2. Base(t)' = Base(t)
      BY <1>2, <2>1 DEF Base, Latest
    <2>3. Begun(t)' = Begun(t)
      <3>1. ASSUME NEW i \in Begun(t)' PROVE i \in Begun(t)
        BY <1>2, <1>10, <2>0 DEF Begun
      <3>2. ASSUME NEW i \in Begun(t) PROVE i \in Begun(t)'
        BY <1>2, <1>10, <2>0 DEF Begun
      <3> QED
        BY <3>1, <3>2
    <2>4. SteadyIs(t) => SteadyIs(t)'
      BY <1>2, <1>7, <2>2, <2>3 DEF SteadyIs
    <2>5. ASSUME tasks[t].state # "calibrated" PROVE HeldIs(t)'
      <3>1. PICK counts \in BOOLEAN : counts <=> (e.kind = "reply" /\ Counts(t, 2 * (n - 1)))
        OBVIOUS
      <3>2. HeldIs(t)
        BY <1>6, <1>11, <2>5 DEF TaskInv
      <3>3. MaxContext \in Nat /\ tasks[t].held \in Nat /\ e.usage \in Nat
        BY <1>6, TaskNow, TranscriptsAssumption DEF TranscriptsAssumption, Line
      <3>4. \A i \in Period(t) : i \in 1..Len(lines) /\ ~(torn /\ i = Len(lines))
        BY <1>1, WholeIs DEF Period
      <3>5. \A i \in Period(t) : lines[i].usage \in Nat
        BY <1>1, <3>3, <3>4, LinesNow DEF LinesInv
      <3>6. ASSUME NEW i \in Period(t) PROVE i \in Period(t)' /\ lines'[i] = lines[i]
        <4>1. i \in Whole'
          BY <1>2, <3>4, WholeNext
        <4> QED
          BY <1>2, <1>10, <2>0, <4>1 DEF Period
      <3>7. ASSUME NEW i \in Period(t)', ~(i \in Period(t) /\ lines'[i] = lines[i])
            PROVE  i = n /\ counts
        <4>1. /\ i \in Whole' /\ HasUsage(i) /\ 2 * (i - 1) >= tasks[t].offset
              /\ \A u \in Task : Dispatched(u) /\ tasks[u].offset > tasks[t].offset =>
                   2 * i <= tasks[u].offset
          BY <1>10, <2>0 DEF Period
        <4>2. i \in 1..Len(lines)
          BY <1>2, <4>1, WholeNext
        <4>3. i \notin Whole
          BY <1>2, <3>7, <4>1 DEF Period
        <4>4. i = n
          BY <1>0, <1>1, <4>2, <4>3, WholeIs
        <4>5. e.kind = "reply"
          BY <1>4, <4>1, <4>4 DEF HasUsage
        <4>6. ASSUME NEW u \in Task, Dispatched(u) PROVE tasks[u].offset <= tasks[t].offset
          <5>1. tasks[u].offset <= 2 * n - 1 /\ tasks[u].offset \in Nat
                /\ tasks[t].offset \in Nat
            BY <1>2, <1>6
          <5> QED
            BY <1>2, <4>1, <4>4, <4>6, <5>1
        <4>7. Current(t) /\ tasks[t].offset <= 2 * (n - 1)
          BY <1>2, <1>6, <1>11, <4>1, <4>4, <4>6 DEF Current
        <4> QED
          BY <2>5, <3>1, <4>4, <4>5, <4>7 DEF Counts
      <3>8. ASSUME counts PROVE n \in Period(t)' /\ lines'[n].usage = e.usage
        <4>1. Current(t) /\ tasks[t].offset <= 2 * (n - 1) /\ e.kind = "reply"
          BY <3>1, <3>8 DEF Counts
        <4>2. n \in 1..Len(lines')
          BY <1>0, <1>2
        <4>3. n \in Whole' /\ HasUsage(n)'
          BY <1>2, <1>4, <4>1, <4>2, WholeNext DEF HasUsage
        <4>4. 2 * (n - 1) >= tasks'[t].offset
          BY <1>2, <1>6, <2>0, <4>1
        <4>5. ASSUME NEW u \in Task, Dispatched(u)', tasks'[u].offset > tasks'[t].offset
              PROVE  FALSE
          <5>1. tasks[u].offset <= tasks[t].offset /\ tasks[u].offset > tasks[t].offset
            BY <2>0, <4>1, <4>5 DEF Current
          <5> QED
            BY <1>6, <5>1
        <4> QED
          BY <1>2, <1>4, <4>3, <4>4, <4>5 DEF Period
      <3> QED
        <4>1. PICK used \in Nat : used = e.usage
          BY <3>3
        <4>2. counts => n \in Period(t)' /\ lines'[n].usage = used
          BY <3>8, <4>1
        <4>3. /\ ~counts => tasks'[t].held = tasks[t].held
              /\ counts => /\ tasks'[t].held \in {tasks[t].held, used}
                           /\ tasks'[t].held >= tasks[t].held /\ tasks'[t].held >= used
          BY <1>7, <3>1, <4>1
        <4> QED
          BY <3>2, <3>3, <3>5, <3>6, <3>7, <4>2, <4>3, HeldCounts
    <2> QED
      BY <2>2, <2>4, <2>5
  <1>12. ASSUME NEW t \in Task PROVE TaskInv(t)'
    <2>1. Dispatched(t) /\ Records => SteadyIs(t)'
      BY <1>6, <1>11 DEF TaskInv
    <2> QED
      BY <1>1, <1>2, <1>7, <1>8, <1>9, <1>11, <2>1, RecountedKeeps
  <1> QED
    BY <1>2, <1>3, <1>7, <1>12

\* The transcript stays, and a task is dispatched where it ends.
Still ==
  /\ UNCHANGED <<agent, lines, torn>> /\ Size' = Size /\ Whole' = Whole
  /\ \A u \in Task :
       /\ Dispatched(u) => Dispatched(u)' /\ tasks'[u].offset = tasks[u].offset
       /\ ~Dispatched(u) /\ Dispatched(u)' => tasks'[u].offset = Size

\* What such a step leaves of the part of a task.
LEMMA PartsStay ==
  ASSUME LinesInv, tasks \in [Task -> TaskRow], Still, NEW t \in Task, Dispatched(t),
         tasks'[t].held = tasks[t].held, tasks'[t].shrank = tasks[t].shrank
  PROVE  /\ Base(t)' = Base(t)
         /\ HeldIs(t) => HeldIs(t)'
         /\ SteadyIs(t) => SteadyIs(t)'
         /\ Ordered(t)' => Ordered(t)
  <1>1. /\ UNCHANGED <<agent, lines, torn>> /\ Size' = Size /\ Whole' = Whole
        /\ tasks'[t].offset = tasks[t].offset
    BY DEF Still
  <1>2. \A u \in Task :
          /\ Dispatched(u) => Dispatched(u)' /\ tasks'[u].offset = tasks[u].offset
          /\ ~Dispatched(u) /\ Dispatched(u)' => tasks'[u].offset = Size
    BY DEF Still
  <1>3. \A i : HasUsage(i)' <=> HasUsage(i)
    BY <1>1 DEF HasUsage
  <1>4. Base(t)' = Base(t)
    BY <1>1 DEF Base, Before, HasUsage, Latest
  <1>5. ASSUME NEW i \in Begun(t)' PROVE i \in Begun(t)
    BY <1>1, <1>2, <1>3 DEF Begun
  <1>6. ASSUME NEW i \in Period(t)' PROVE i \in Period(t)
    BY <1>1, <1>2, <1>3 DEF Period
  <1>7. ASSUME NEW i \in Period(t) PROVE i \in Period(t)'
    <2>1. i \in Whole /\ HasUsage(i)
      BY DEF Period
    <2>2. 2 * i <= Size
      BY <2>1, WholeWithin
    <2> QED
      BY <1>1, <1>2, <1>3, <2>2 DEF Period
  <1>8. HeldIs(t) => HeldIs(t)'
    BY <1>1, <1>6, <1>7 DEF HeldIs
  <1>9. SteadyIs(t) => SteadyIs(t)'
    BY <1>1, <1>4, <1>5 DEF SteadyIs
  <1>10. Ordered(t)' => Ordered(t)
    BY <1>2 DEF Ordered
  <1> QED
    BY <1>4, <1>8, <1>9, <1>10

\* A task whose row such a step leaves alone.
LEMMA StillKeeps ==
  ASSUME LinesInv, TasksInv, Still, NEW t \in Task, tasks'[t] = tasks[t],
         Flying(t) => Current(t)', daemon.blind => daemon'.blind,
         Dispatched(t) /\ ReadSince(t)' => MaxIsPast(t)'
  PROVE  TaskInv(t)'
  <1>1. TaskInv(t) /\ tasks \in [Task -> TaskRow]
    BY DEF TasksInv
  <1>2. Size' = Size /\ agent' = agent
    BY DEF Still
  <1>3. CASE Dispatched(t)
    <2>1. /\ Base(t)' = Base(t) /\ (HeldIs(t) => HeldIs(t)')
          /\ SteadyIs(t) => SteadyIs(t)'
          /\ Ordered(t)' => Ordered(t)
      BY <1>1, <1>3, PartsStay
    <2>2. (StartIs(t)' <=> StartIs(t)) /\ (Records' <=> Records)
      BY <1>2, <2>1 DEF StartIs, Records
    <2>3. (Dispatched(t)' <=> Dispatched(t)) /\ (Flying(t)' <=> Flying(t))
      BY DEF Dispatched, Flying
    <2> QED
      BY <1>1, <1>2, <1>3, <2>1, <2>2, <2>3 DEF TaskInv
  <1>4. CASE ~Dispatched(t)
    <2>1. tasks'[t] = Drafted /\ tasks'[t].offset <= Size'
      BY <1>1, <1>2, <1>4 DEF TaskInv
    <2> QED
      BY <2>1, Undispatched
  <1> QED
    BY <1>3, <1>4

\* A step of the daemon or the lead, which leaves the transcript alone.
LEMMA StillIs ==
  ASSUME LinesInv, SentInv, UNCHANGED <<agent, reader, lines, torn, sent>>, Frame
  PROVE  Still /\ LinesInv' /\ SentInv'
  BY ReadersKeep DEF Still, Frame

LEMMA SizeInSizes ==
  ASSUME LinesInv
  PROVE  Size \in Sizes
  <1>1. /\ Size \in Nat /\ Size <= 2 * Len(lines)
        /\ Len(lines) \in Nat /\ Len(lines) <= MaxLines /\ MaxLines \in Nat
    BY SizeIs, LinesNow, TranscriptsAssumption DEF LinesInv, TranscriptsAssumption
  <1>2. Size <= 2 * MaxLines
    BY <1>1
  <1> QED
    BY <1>1, <1>2 DEF Sizes

\* Whether the context shrank before a task is told by its dispatch: a response
\* that is half written may be the task's, and is compared with what was before.
LEMMA ShrinkingTells ==
  ASSUME LinesInv, ~Shrinking, NEW i \in 1..Len(lines), HasUsage(i), 2 * i > Size
  PROVE  lines[i].usage >= Latest({j \in 1..Len(lines) : HasUsage(j) /\ 2 * j <= Size})
  <1> DEFINE n == Len(lines)
             before == {j \in 1..Len(lines) : HasUsage(j) /\ 2 * j <= Size}
             last == Max({0} \cup Replies)
  <1>1. n \in Nat /\ Size \in Nat /\ 2 * n <= Size + 1 /\ MaxContext \in Nat
    BY LinesNow, SizeIs, TranscriptsAssumption DEF LinesInv, TranscriptsAssumption
  <1>2. i = n
    BY <1>1
  <1>3. Replies \subseteq 1..n /\ i \in Replies
    BY LinesNow DEF Replies, HasUsage, LinesInv
  <1>4. {0} \cup Replies \subseteq 0..n
    BY <1>1, <1>3
  <1> HIDE DEF last
  <1>5. last \in {0} \cup Replies /\ \A j \in {0} \cup Replies : last >= j
    BY <1>1, <1>3, <1>4, MaxIs DEF last
  <1>6. last = n
    <2>1. last \in 0..n /\ last >= n
      BY <1>2, <1>3, <1>4, <1>5
    <2> QED
      BY <1>1, <2>1
  <1>7. ASSUME NEW j PROVE j \in before <=> j \in Replies \ {last}
    <2>1. j \in Replies <=> j \in 1..n /\ HasUsage(j)
      BY LinesNow DEF Replies, HasUsage, LinesInv
    <2>2. ASSUME j \in 1..n PROVE 2 * j <= Size <=> j # n
      BY <1>1, <1>2, <2>2
    <2> QED
      BY <1>6, <2>1, <2>2
  <1>8. before = Replies \ {last}
    BY <1>7
  <1>9. last # 0
    BY <1>2, <1>6
  <1>10. ~(lines[last].usage < Latest(Replies \ {last}))
    BY <1>9 DEF Shrinking, last
  <1>11. Latest(before) \in 0..MaxContext
    BY LatestIs
  <1>12. lines[i].usage \in 0..MaxContext
    BY LinesNow DEF LinesInv
  <1>13. PICK x \in 0..MaxContext, y \in 0..MaxContext : x = Latest(before) /\ y = lines[i].usage
    BY <1>11, <1>12
  <1>14. ~(y < x)
    BY <1>2, <1>6, <1>8, <1>10, <1>13
  <1>15. y >= x
    BY <1>1, <1>14
  <1> QED
    BY <1>13, <1>15

LEMMA DispatchKeeps ==
  ASSUME IInv, NEW t \in Task, Dispatch(t)
  PROVE  LinesInv' /\ SentInv' /\ TasksInv'
  <1>1. LinesInv /\ SentInv /\ TasksInv
    BY DEF IInv
  <1>2. /\ ~Dispatched(t) /\ \A u \in Task : ~Flying(u)
        /\ UNCHANGED <<agent, reader, lines, torn, sent, contextMax, daemon, watch>>
    BY DEF Dispatch
  <1>3. /\ LinesInv' /\ SentInv' /\ Size' = Size /\ Whole' = Whole
    BY <1>1, <1>2, ReadersKeep
  <1>4. PICK s \in Sizes : s = Size
    BY <1>1, SizeInSizes
  <1>5. PICK b \in BOOLEAN : b <=> Shrinking
    OBVIOUS
  <1>6. Shrinking \in BOOLEAN
    BY DEF Shrinking
  <1>7. tasks' = [tasks EXCEPT ![t] = [tasks[t] EXCEPT !.state = "dispatched",
                                         !.offset = s, !.shrank = b]]
    BY <1>1, <1>4, <1>5, <1>6 DEF Dispatch, TasksInv
  <1>8. TaskInv(t) /\ tasks[t] = Drafted /\ tasks \in [Task -> TaskRow]
    BY <1>1, <1>2 DEF TasksInv, TaskInv
  <1>9. PICK r : r = [tasks[t] EXCEPT !.state = "dispatched", !.offset = s, !.shrank = b]
    OBVIOUS
  <1>10. r \in TaskRow
    BY <1>8, <1>9 DEF TaskRow
  <1>11. /\ r.state = "dispatched" /\ r.offset = s /\ r.shrank = b /\ r.held = 0
         /\ ~r.refused
    BY <1>8, <1>9 DEF Drafted, TaskRow
  <1>12. tasks' \in [Task -> TaskRow] /\ tasks'[t] = r
         /\ \A u \in Task \ {t} : tasks'[u] = tasks[u]
    BY <1>7, <1>8, <1>9, <1>10
  <1>13. Still
    BY <1>2, <1>3, <1>4, <1>11, <1>12 DEF Still, Dispatched
  <1>14. \A u \in Task : tasks[u].offset <= Size /\ tasks[u].offset \in Nat
    BY <1>1, <1>8, TaskNow DEF TasksInv, TaskInv
  <1>15. ASSUME NEW u \in Task \ {t} PROVE TaskInv(u)'
    <2>1. tasks'[u] = tasks[u] /\ ~Flying(u)
      BY <1>2, <1>12
    <2>2. ASSUME Dispatched(u), ReadSince(u)' PROVE MaxIsPast(u)'
      <3>1. Base(u)' = Base(u)
        BY <1>1, <1>8, <1>13, <2>1, <2>2, PartsStay
      <3>2. ReadSince(u) /\ MaxIsPast(u)
        BY <1>1, <1>2, <2>1, <2>2 DEF ReadSince, TasksInv, TaskInv
      <3> QED
        BY <1>2, <2>1, <3>1, <3>2 DEF MaxIsPast, Records
    <2> QED
      BY <1>1, <1>2, <1>13, <2>1, <2>2, StillKeeps
  <1>16. TaskInv(t)'
    <2>1. Dispatched(t)' /\ tasks'[t].offset = Size /\ Size \in Nat /\ s \in Nat
      BY <1>1, <1>4, <1>11, <1>12, SizeIs DEF Dispatched, LinesInv
    <2>2. Current(t)'
      <3>1. ASSUME NEW u \in Task, Dispatched(u)' PROVE tasks'[u].offset <= tasks'[t].offset
        <4>1. CASE u = t
          BY <2>1, <4>1
        <4>2. CASE u # t
          BY <1>12, <1>14, <2>1, <4>2
        <4> QED
          BY <4>1, <4>2
      <3> QED
        BY <2>1, <3>1 DEF Current
    <2>3. ASSUME NEW i \in Period(t)' PROVE FALSE
      <3>1. i \in Whole /\ HasUsage(i) /\ 2 * (i - 1) >= Size
        BY <1>2, <1>3, <2>1 DEF Period, HasUsage
      <3>2. i \in 1..Len(lines) /\ 2 * i <= Size
        BY <1>1, <3>1, WholeWithin
      <3>3. Len(lines) \in Nat
        BY <1>1, LinesNow DEF LinesInv
      <3> QED
        BY <2>1, <3>1, <3>2, <3>3
    <2>4. HeldIs(t)'
      BY <1>11, <1>12, <2>3 DEF HeldIs
    <2>5. SteadyIs(t)'
      <3>1. ASSUME ~tasks'[t].shrank, NEW i \in Begun(t)'
            PROVE  lines'[i].usage >= Base(t)'
        <4>1. i \in 1..Len(lines) /\ HasUsage(i) /\ 2 * i > Size
          BY <1>2, <1>3, <2>1 DEF Begun, HasUsage
        <4>2. ~Shrinking
          BY <1>5, <1>11, <1>12, <3>1
        <4>3. lines[i].usage >= Latest({j \in 1..Len(lines) : HasUsage(j) /\ 2 * j <= Size})
          BY <1>1, <4>1, <4>2, ShrinkingTells
        <4>4. Base(t)' = Latest({j \in 1..Len(lines) : HasUsage(j) /\ 2 * j <= Size})
          BY <1>2, <1>3, <2>1 DEF Base, Before, HasUsage, Latest
        <4> QED
          BY <1>2, <4>3, <4>4
      <3> QED
        BY <3>1 DEF SteadyIs
    <2>6. tasks'[t].offset <= Size'
      BY <1>3, <2>1
    <2> QED
      BY <1>11, <1>12, <2>1, <2>2, <2>4, <2>5, <2>6 DEF TaskInv, ReadSince
  <1> QED
    BY <1>1, <1>2, <1>3, <1>12, <1>15, <1>16 DEF TasksInv

\* A task whose row such a step changes.
LEMMA ChangedKeeps ==
  ASSUME LinesInv, TasksInv, Still, Frame, NEW t \in Task, Dispatched(t),
         tasks'[t].held = tasks[t].held, tasks'[t].shrank = tasks[t].shrank,
         Flying(t)' => Flying(t),
         tasks[t].state # "calibrated",
         tasks'[t].state \in {"in_flight", "committed", "calibrated"} => StartIs(t)',
         ReadSince(t)' => MaxIsPast(t)',
         tasks'[t].refused =>
           /\ tasks'[t].state \in {"committed", "calibrated"}
           /\ Ordered(t) => tasks'[t].shrank \/ daemon'.blind,
         tasks'[t].state = "calibrated" /\ tasks'[t].held > 0 /\ Ordered(t) =>
           tasks'[t].end = tasks'[t].held
  PROVE  TaskInv(t)'
  <1>1. TaskInv(t) /\ tasks \in [Task -> TaskRow]
    BY DEF TasksInv
  <1>2. Size' = Size /\ agent' = agent /\ (Records' <=> Records)
    BY DEF Still, Records
  <1>3. Dispatched(t)' /\ tasks'[t].offset = tasks[t].offset
    BY DEF Frame
  <1>4. (Current(t)' <=> Current(t)) /\ (Ordered(t)' <=> Ordered(t))
    BY FrameKeeps
  <1>5. HeldIs(t) => HeldIs(t)'
    BY <1>1, PartsStay
  <1>6. SteadyIs(t) => SteadyIs(t)'
    BY <1>1, PartsStay
  <1> QED
    BY <1>1, <1>2, <1>3, <1>4, <1>5, <1>6 DEF TaskInv

\* What a step leaves of the tasks that changes the row of one.
LEMMA OthersKeep ==
  ASSUME IInv, UNCHANGED <<agent, reader, lines, torn, sent, contextMax, watch>>,
         NEW t \in Task, NEW r \in TaskRow, tasks' = [tasks EXCEPT ![t] = r],
         Dispatched(t), r.state # "drafted", r.offset = tasks[t].offset,
         daemon' \in Daemon, daemon'.blind = daemon.blind,
         daemon'.at = "observing" => daemon.at = "observing"
  PROVE  /\ Still /\ Frame /\ LinesInv' /\ SentInv' /\ tasks'[t] = r
         /\ Base(t)' = Base(t) \/ r.held # tasks[t].held \/ r.shrank # tasks[t].shrank
         /\ TaskInv(t)' => TasksInv'
  <1>1. LinesInv /\ SentInv /\ TasksInv
    BY DEF IInv
  <1>2. tasks \in [Task -> TaskRow] /\ tasks[t] \in TaskRow
    BY <1>1 DEF TasksInv
  <1>3. /\ tasks' \in [Task -> TaskRow] /\ tasks'[t] = r
        /\ \A u \in Task \ {t} : tasks'[u] = tasks[u]
    BY <1>2
  <1>4. Frame
    BY <1>3 DEF Frame, Dispatched
  <1>5. Still /\ LinesInv' /\ SentInv'
    BY <1>1, <1>4, StillIs
  <1>6. ASSUME NEW u \in Task \ {t} PROVE TaskInv(u)'
    <2>1. tasks'[u] = tasks[u] /\ TaskInv(u)
      BY <1>1, <1>3 DEF TasksInv
    <2>2. Flying(u) => Current(u)'
      BY <1>4, <2>1, FrameKeeps DEF TaskInv
    <2>3. ASSUME Dispatched(u), ReadSince(u)' PROVE MaxIsPast(u)'
      <3>1. Base(u)' = Base(u)
        BY <1>1, <1>2, <1>5, <2>1, <2>3, PartsStay
      <3>2. ReadSince(u) /\ MaxIsPast(u)
        BY <2>1, <2>3 DEF ReadSince, TaskInv
      <3> QED
        BY <2>1, <3>1, <3>2 DEF MaxIsPast, Records
    <2> QED
      BY <1>1, <1>5, <2>1, <2>2, <2>3, StillKeeps
  <1>7. TaskInv(t)' => TasksInv'
    BY <1>1, <1>3, <1>6 DEF TasksInv
  <1>8. Base(t)' = Base(t) \/ r.held # tasks[t].held \/ r.shrank # tasks[t].shrank
    BY <1>1, <1>2, <1>3, <1>5, PartsStay
  <1> QED
    BY <1>3, <1>4, <1>5, <1>7, <1>8

LEMMA AbortKeeps ==
  ASSUME IInv, NEW t \in Task, AbortTask(t)
  PROVE  LinesInv' /\ SentInv' /\ TasksInv'
  <1>1. LinesInv /\ SentInv /\ TasksInv
    BY DEF IInv
  <1>2. /\ Flying(t) /\ tasks' = [tasks EXCEPT ![t].state = "aborted"]
        /\ UNCHANGED <<agent, reader, lines, torn, sent, contextMax, daemon, watch>>
    BY DEF AbortTask
  <1>3. TaskInv(t) /\ tasks \in [Task -> TaskRow] /\ tasks[t] \in TaskRow /\ daemon \in Daemon
    BY <1>1 DEF TasksInv
  <1>4. PICK r : r = [tasks[t] EXCEPT !.state = "aborted"]
    OBVIOUS
  <1>5. r \in TaskRow
    BY <1>3, <1>4 DEF TaskRow
  <1>6. /\ r.state = "aborted" /\ r.offset = tasks[t].offset /\ r.held = tasks[t].held
        /\ r.shrank = tasks[t].shrank /\ r.refused = tasks[t].refused
    BY <1>3, <1>4 DEF TaskRow
  <1>7. tasks' = [tasks EXCEPT ![t] = r]
    BY <1>2, <1>4
  <1>8. Dispatched(t) /\ tasks[t].state # "calibrated" /\ ~tasks[t].refused
    BY <1>2, <1>3 DEF Dispatched, Flying, TaskInv
  <1>9. /\ Still /\ Frame /\ LinesInv' /\ SentInv' /\ tasks'[t] = r
        /\ TaskInv(t)' => TasksInv'
    BY <1>2, <1>3, <1>5, <1>6, <1>7, <1>8, OthersKeep
  <1>10. ~ReadSince(t)' /\ ~Flying(t)' /\ ~tasks'[t].refused
    BY <1>6, <1>8, <1>9 DEF ReadSince, Flying
  <1>11. TaskInv(t)'
    BY <1>1, <1>6, <1>8, <1>9, <1>10, ChangedKeeps
  <1> QED
    BY <1>9, <1>11

\* The start that is read of a task is the context before it, whatever was
\* written since the dispatch.
LEMMA StartRead ==
  ASSUME LinesInv, NEW t \in Task, tasks[t].offset <= Size, tasks[t].offset \in Nat
  PROVE  /\ ContextBefore(tasks[t].offset) = IF Records THEN Base(t) ELSE Unknown
         /\ ContextBefore(tasks[t].offset) \in ContextSize
  <1>1. Len(lines) \in Nat /\ Size \in Nat
    BY LinesNow, SizeIs DEF LinesInv
  <1>2. ASSUME NEW i PROVE i \in Usages(0, tasks[t].offset) <=> i \in Before(t)
    <2>1. ASSUME i \in Before(t) PROVE i \in Usages(0, tasks[t].offset)
      <3>1. i \in 1..Len(lines) /\ HasUsage(i) /\ 2 * i <= tasks[t].offset
        BY <2>1 DEF Before
      <3>2. ~(torn /\ i = Len(lines))
        <4>1. torn => Size = 2 * Len(lines) - 1
          BY SizeIs DEF LinesInv
        <4> QED
          BY <1>1, <3>1, <4>1
      <3>3. i \in Whole
        BY <3>1, <3>2, WholeIs
      <3>4. 2 * (i - 1) >= 0
        BY <1>1, <3>1
      <3> QED
        BY <3>1, <3>3, <3>4 DEF Usages, EntriesFrom
    <2>2. ASSUME i \in Usages(0, tasks[t].offset) PROVE i \in Before(t)
      <3>1. i \in Whole /\ HasUsage(i) /\ 2 * i <= tasks[t].offset
        BY <2>2 DEF Usages, EntriesFrom
      <3>2. i \in 1..Len(lines)
        BY <3>1, WholeIs
      <3> QED
        BY <3>1, <3>2 DEF Before
    <2> QED
      BY <2>1, <2>2
  <1>3. Usages(0, tasks[t].offset) = Before(t)
    BY <1>2 DEF Usages, EntriesFrom
  <1>4. Before(t) \in SUBSET (1..Len(lines))
    BY DEF Before
  <1>5. Base(t) \in 0..MaxContext
    BY <1>4, LatestIs DEF Base
  <1> QED
    BY <1>3, <1>5 DEF ContextBefore, Base, ContextSize

LEMMA ObserveKeeps ==
  ASSUME IInv, Observe
  PROVE  LinesInv' /\ SentInv' /\ TasksInv'
  <1>1. LinesInv /\ SentInv /\ TasksInv
    BY DEF IInv
  <1>2. /\ tasks \in [Task -> TaskRow] /\ daemon \in Daemon
        /\ \A u \in Task : /\ TaskInv(u) /\ tasks[u] \in TaskRow
                           /\ tasks[u].offset <= Size /\ tasks[u].offset \in Nat
    BY <1>1, TaskNow DEF TasksInv, TaskInv
  <1>3. /\ daemon.at = "observing" /\ daemon' = [daemon EXCEPT !.at = "reading"]
        /\ UNCHANGED <<agent, reader, lines, torn, sent, contextMax, watch>>
    BY DEF Observe
  <1>4. daemon' \in Daemon /\ daemon'.blind = daemon.blind /\ daemon'.at = "reading"
    BY <1>2, <1>3 DEF Daemon
  <1>5. \/ tasks' = tasks
        \/ \E t \in Task :
             /\ tasks[t].state = "dispatched" /\ Size > tasks[t].offset
             /\ tasks' = [tasks EXCEPT ![t].state = "in_flight",
                                       ![t].start = ContextBefore(tasks[t].offset)]
        \/ \E t \in Task :
             tasks[t].state = "in_flight" /\ tasks' = [tasks EXCEPT ![t].state = "committed"]
    BY DEF Observe
  <1>6. ASSUME tasks' = tasks PROVE LinesInv' /\ SentInv' /\ TasksInv'
    <2>1. Frame
      BY <1>6, FrameOfSame
    <2>2. Still /\ LinesInv' /\ SentInv'
      BY <1>1, <1>3, <2>1, StillIs
    <2>3. ASSUME NEW u \in Task PROVE TaskInv(u)'
      <3>1. Flying(u) => Current(u)'
        BY <1>2, <2>1, FrameKeeps DEF TaskInv
      <3>2. ASSUME Dispatched(u), ReadSince(u)' PROVE MaxIsPast(u)'
        <4>1. Base(u)' = Base(u)
          BY <1>1, <1>2, <1>6, <2>2, <3>2, PartsStay
        <4>2. ReadSince(u) /\ MaxIsPast(u)
          BY <1>2, <1>4, <1>6, <3>2 DEF ReadSince, TaskInv
        <4> QED
          BY <1>3, <1>4, <1>6, <4>1, <4>2 DEF MaxIsPast, Records
      <3> QED
        BY <1>1, <1>4, <1>6, <2>2, <3>1, <3>2, StillKeeps
    <2> QED
      BY <1>1, <1>3, <1>4, <1>6, <2>2, <2>3 DEF TasksInv
  <1>7. ASSUME NEW t \in Task, tasks[t].state = "dispatched",
               tasks' = [tasks EXCEPT ![t].state = "in_flight",
                                      ![t].start = ContextBefore(tasks[t].offset)]
        PROVE  LinesInv' /\ SentInv' /\ TasksInv'
    <2>1. PICK c \in ContextSize : /\ c = ContextBefore(tasks[t].offset)
                                   /\ c = IF Records THEN Base(t) ELSE Unknown
      BY <1>1, <1>2, StartRead
    <2>2. PICK r : r = [tasks[t] EXCEPT !.state = "in_flight", !.start = c]
      OBVIOUS
    <2>3. tasks[t] \in TaskRow
      BY <1>2
    <2>4. r \in TaskRow
      BY <2>2, <2>3 DEF TaskRow
    <2>5. /\ r.state = "in_flight" /\ r.start = c /\ r.offset = tasks[t].offset
          /\ r.held = tasks[t].held /\ r.shrank = tasks[t].shrank
          /\ r.refused = tasks[t].refused
      BY <2>2, <2>3 DEF TaskRow
    <2>6. tasks' = [tasks EXCEPT ![t] = r]
      BY <1>2, <1>7, <2>1, <2>2
    <2>7. Dispatched(t) /\ Flying(t) /\ ~tasks[t].refused
      BY <1>2, <1>7 DEF Dispatched, Flying, TaskInv
    <2>8. /\ Still /\ Frame /\ LinesInv' /\ SentInv' /\ tasks'[t] = r
          /\ TaskInv(t)' => TasksInv'
          /\ Base(t)' = Base(t)
      BY <1>3, <1>4, <2>4, <2>5, <2>6, <2>7, OthersKeep
    <2>9. StartIs(t)' /\ ~ReadSince(t)' /\ ~tasks'[t].refused
      BY <1>3, <1>4, <2>1, <2>5, <2>7, <2>8 DEF StartIs, ReadSince, Records
    <2>10. TaskInv(t)'
      BY <1>1, <1>7, <2>5, <2>7, <2>8, <2>9, ChangedKeeps
    <2> QED
      BY <2>8, <2>10
  <1>8. ASSUME NEW t \in Task, tasks[t].state = "in_flight",
               tasks' = [tasks EXCEPT ![t].state = "committed"]
        PROVE  LinesInv' /\ SentInv' /\ TasksInv'
    <2>1. PICK r : r = [tasks[t] EXCEPT !.state = "committed"]
      OBVIOUS
    <2>2. tasks[t] \in TaskRow
      BY <1>2
    <2>3. r \in TaskRow
      BY <2>1, <2>2 DEF TaskRow
    <2>4. /\ r.state = "committed" /\ r.start = tasks[t].start /\ r.offset = tasks[t].offset
          /\ r.held = tasks[t].held /\ r.shrank = tasks[t].shrank
          /\ r.refused = tasks[t].refused
      BY <2>1, <2>2 DEF TaskRow
    <2>5. tasks' = [tasks EXCEPT ![t] = r]
      BY <1>8, <2>1
    <2>6. Dispatched(t) /\ Flying(t) /\ ~tasks[t].refused /\ StartIs(t)
      BY <1>2, <1>8 DEF Dispatched, Flying, TaskInv
    <2>7. /\ Still /\ Frame /\ LinesInv' /\ SentInv' /\ tasks'[t] = r
          /\ TaskInv(t)' => TasksInv'
          /\ Base(t)' = Base(t)
      BY <1>3, <1>4, <2>3, <2>4, <2>5, <2>6, OthersKeep
    <2>8. ReadSince(t) /\ MaxIsPast(t)
      BY <1>2, <1>3, <1>8 DEF ReadSince, TaskInv
    <2>9. StartIs(t)' /\ MaxIsPast(t)' /\ ~tasks'[t].refused
      BY <1>3, <1>4, <2>4, <2>6, <2>7, <2>8 DEF StartIs, MaxIsPast, Records
    <2>10. ~Flying(t)' /\ tasks'[t].state # "calibrated"
      BY <2>4, <2>7 DEF Flying
    <2>11. TaskInv(t)'
      BY <1>1, <1>8, <2>4, <2>6, <2>7, <2>9, <2>10, ChangedKeeps
    <2> QED
      BY <2>7, <2>11
  <1> QED
    BY <1>5, <1>6, <1>7, <1>8

\* What the daemon reads of the session is the last response, which is not below
\* what a task under way began with.
LEMMA ReadingAboveBase ==
  ASSUME LinesInv, TasksInv, Records, NEW t \in Task, Flying(t), ~tasks[t].shrank,
         ~(ReadContext = 0 /\ Usages(0, Size) # {})
  PROVE  ReadContext >= Base(t)
  <1> DEFINE all == Usages(0, Size)
             seen == {i \in all : i > Len(lines) - Window}
  <1>1. /\ tasks \in [Task -> TaskRow] /\ TaskInv(t) /\ tasks[t].offset \in Nat
        /\ Dispatched(t) /\ Current(t) /\ SteadyIs(t)
    BY TaskNow DEF TasksInv, TaskInv, Flying, Dispatched
  <1>2. Len(lines) \in Nat /\ Window \in Nat /\ MaxContext \in Nat /\ Size \in Nat
    BY LinesNow, SizeIs, TranscriptsAssumption DEF TranscriptsAssumption, LinesInv
  <1>3. ASSUME NEW i PROVE i \in all <=> i \in Whole /\ HasUsage(i)
    <2>1. ASSUME i \in Whole, HasUsage(i) PROVE i \in all
      <3>1. i \in 1..Len(lines) /\ 2 * i <= Size
        BY <2>1, WholeWithin
      <3>2. 2 * (i - 1) >= 0
        BY <1>2, <3>1
      <3> QED
        BY <2>1, <3>1, <3>2 DEF Usages, EntriesFrom
    <2> QED
      BY <2>1 DEF Usages, EntriesFrom
  <1>4. \A i \in all : i \in 1..Len(lines)
    BY <1>3, WholeIs
  <1>5. Before(t) \subseteq all
    <2>1. ASSUME NEW i \in Before(t) PROVE i \in all
      <3>1. i \in 1..Len(lines) /\ HasUsage(i) /\ 2 * i <= tasks[t].offset
        BY DEF Before
      <3>2. tasks[t].offset <= Size
        BY <1>1 DEF TaskInv
      <3>3. ~(torn /\ i = Len(lines))
        <4>1. torn => Size = 2 * Len(lines) - 1
          BY SizeIs DEF LinesInv
        <4> QED
          BY <1>1, <1>2, <3>1, <3>2, <4>1
      <3> QED
        BY <1>3, <3>1, <3>3, WholeIs
    <2> QED
      BY <2>1
  <1>6. ReadContext = Latest(seen)
    BY DEF ReadContext
  <1>7. seen \in SUBSET (1..Len(lines)) /\ Before(t) \in SUBSET (1..Len(lines))
    BY <1>4 DEF Before
  <1>8. Latest(seen) \in 0..MaxContext /\ Base(t) \in 0..MaxContext
    BY <1>7, LatestIs DEF Base
  <1>9. CASE all = {}
    <2>1. Before(t) = {}
      BY <1>5, <1>9
    <2>2. Base(t) = 0
      BY <2>1 DEF Base, Latest
    <2> QED
      BY <1>2, <1>6, <1>8, <2>2
  <1>10. CASE all # {}
    <2>1. seen # {}
      BY <1>6, <1>10, <1>7, LatestIs
    <2>2. PICK m \in seen : Latest(seen) = lines[m].usage /\ \A i \in seen : m >= i
      BY <1>7, <2>1, LatestIs
    <2>3. m \in all /\ m \in 1..Len(lines) /\ m > Len(lines) - Window /\ HasUsage(m)
      BY <1>3, <1>4, <2>2
    <2>4. ASSUME NEW i \in all PROVE m >= i
      <3>1. i \in 1..Len(lines)
        BY <1>4
      <3>2. CASE i > Len(lines) - Window
        BY <2>2, <3>2
      <3>3. CASE ~(i > Len(lines) - Window)
        BY <1>2, <2>3, <3>1, <3>3
      <3> QED
        BY <3>2, <3>3
    <2>5. CASE 2 * m > tasks[t].offset
      <3>1. \A u \in Task : tasks[u].offset \in Nat
        BY <1>1, TaskNow
      <3>2. \A u \in Task : ~(Dispatched(u) /\ tasks[u].offset > tasks[t].offset)
        BY <1>1, <3>1 DEF Current
      <3>3. m \in Begun(t)
        BY <2>3, <2>5, <3>2 DEF Begun
      <3> QED
        BY <1>1, <1>6, <2>2, <3>3 DEF SteadyIs
    <2>6. CASE ~(2 * m > tasks[t].offset)
      <3>1. m \in Before(t)
        BY <1>1, <1>2, <2>3, <2>6 DEF Before
      <3>2. PICK k \in Before(t) : Base(t) = lines[k].usage /\ \A i \in Before(t) : k >= i
        BY <1>7, <3>1, LatestIs DEF Base
      <3>3. k \in 1..Len(lines) /\ m >= k /\ k >= m
        BY <1>5, <1>7, <2>4, <3>1, <3>2
      <3>4. k = m
        BY <1>2, <2>3, <3>3
      <3> QED
        BY <1>2, <1>6, <1>8, <2>2, <3>2, <3>4
    <2> QED
      BY <2>5, <2>6
  <1> QED
    BY <1>9, <1>10

LEMMA ReadSessionKeeps ==
  ASSUME IInv, ReadSession
  PROVE  LinesInv' /\ SentInv' /\ TasksInv'
  <1>1. LinesInv /\ SentInv /\ TasksInv
    BY DEF IInv
  <1>2. /\ tasks \in [Task -> TaskRow] /\ daemon \in Daemon
        /\ contextMax \in ContextSize
        /\ \A u \in Task : TaskInv(u)
    BY <1>1 DEF TasksInv
  <1>3. /\ daemon.at = "reading" /\ contextMax' = Max({contextMax, ReadContext})
        /\ daemon' = [at |-> "observing",
                      blind |-> daemon.blind \/ (ReadContext = 0 /\ Usages(0, Size) # {})]
        /\ UNCHANGED <<agent, reader, lines, torn, sent, tasks, watch>>
    BY DEF ReadSession
  <1>4. PICK b \in BOOLEAN :
          b <=> (daemon.blind \/ (ReadContext = 0 /\ Usages(0, Size) # {}))
    OBVIOUS
  <1>5. daemon' = [at |-> "observing", blind |-> b]
    BY <1>2, <1>3, <1>4 DEF Daemon
  <1>6. daemon' \in Daemon /\ daemon'.blind = b /\ daemon'.at = "observing"
    BY <1>5 DEF Daemon
  <1>7. MaxContext \in Nat /\ Unknown = -1
    BY TranscriptsAssumption DEF TranscriptsAssumption, Unknown
  <1>8. ReadContext \in ContextSize
    <2>1. CASE Records
      <3>1. {i \in Usages(0, Size) : i > Len(lines) - Window} \in SUBSET (1..Len(lines))
        BY <1>1, WholeIs DEF Usages, EntriesFrom
      <3> QED
        BY <1>1, <2>1, <3>1, LatestIs DEF ReadContext, ContextSize
    <2>2. CASE ~Records
      BY <2>2 DEF ReadContext, ContextSize
    <2> QED
      BY <2>1, <2>2
  <1>9. PICK c \in ContextSize : c = contextMax'
    <2>1. contextMax \in Int /\ ReadContext \in Int
      BY <1>2, <1>7, <1>8 DEF ContextSize
    <2>2. Max({contextMax, ReadContext}) \in {contextMax, ReadContext}
      BY <2>1, MaxOfTwo
    <2> QED
      BY <1>2, <1>3, <1>8, <2>2
  <1>10. c >= contextMax /\ c >= ReadContext
    <2>1. contextMax \in Int /\ ReadContext \in Int
      BY <1>2, <1>7, <1>8 DEF ContextSize
    <2>2. \A x, y \in Int : Max({x, y}) >= x /\ Max({x, y}) >= y
      BY MaxOfTwo
    <2> QED
      BY <1>3, <1>9, <2>1, <2>2
  <1>11. tasks' = tasks
    BY <1>3
  <1>12. Frame
    BY <1>11, FrameOfSame
  <1>13. Still /\ LinesInv' /\ SentInv'
    BY <1>1, <1>3, <1>12, StillIs
  <1>14. ASSUME NEW u \in Task PROVE TaskInv(u)'
    <2>1. Flying(u) => Current(u)'
      BY <1>2, <1>12, FrameKeeps DEF TaskInv
    <2>2. ASSUME Dispatched(u), ReadSince(u)' PROVE MaxIsPast(u)'
      <3>1. Base(u)' = Base(u)
        BY <1>1, <1>2, <1>11, <1>13, <2>2, PartsStay
      <3>2. Base(u) \in 0..MaxContext
        <4>1. Before(u) \in SUBSET (1..Len(lines))
          BY DEF Before
        <4> QED
          BY <1>1, <4>1, LatestIs DEF Base
      <3>3. ASSUME Records, ~tasks[u].shrank, ~b PROVE c >= Base(u)
        <4>1. CASE tasks[u].state = "committed"
          <5>1. contextMax >= Base(u)
            BY <1>2, <1>4, <3>3, <4>1 DEF TaskInv, ReadSince, MaxIsPast
          <5>2. contextMax \in Int /\ c \in Int /\ Base(u) \in Int
            BY <1>2, <1>7, <1>9, <3>2 DEF ContextSize
          <5> QED
            BY <1>10, <5>1, <5>2
        <4>2. CASE tasks[u].state = "in_flight"
          <5>1. ReadContext >= Base(u)
            BY <1>1, <1>4, <3>3, <4>2, ReadingAboveBase DEF Flying
          <5>2. ReadContext \in Int /\ c \in Int /\ Base(u) \in Int
            BY <1>7, <1>8, <1>9, <3>2 DEF ContextSize
          <5> QED
            BY <1>10, <5>1, <5>2
        <4> QED
          BY <1>11, <2>2, <4>1, <4>2 DEF ReadSince
      <3> QED
        BY <1>3, <1>6, <1>9, <1>11, <3>1, <3>3 DEF MaxIsPast, Records
    <2> QED
      BY <1>1, <1>4, <1>6, <1>11, <1>13, <2>1, <2>2, StillKeeps
  <1> QED
    BY <1>1, <1>3, <1>6, <1>9, <1>11, <1>13, <1>14 DEF TasksInv

\* The part of a task that was dispatched in order ends where the next one begins.
LEMMA PeriodIs ==
  ASSUME LinesInv, TasksInv, NEW t \in Task, Dispatched(t), Ordered(t)
  PROVE  Usages(tasks[t].offset, NextOffset(t)) = Period(t)
  <1> DEFINE later == {u \in Task : u > t /\ tasks[u].offset > 0}
  <1>1. /\ tasks \in [Task -> TaskRow]
        /\ \A u \in Task : TaskInv(u) /\ tasks[u].offset \in Nat
    BY TaskNow DEF TasksInv
  <1>2. Task \subseteq Nat /\ Size \in Nat
    BY SizeIs, TranscriptsAssumption DEF Task, LinesInv, TranscriptsAssumption
  <1>3. \A u \in later : Dispatched(u)
    BY <1>1 DEF TaskInv, Drafted
  <1>4. ASSUME NEW u \in Task, Dispatched(u), tasks[u].offset > tasks[t].offset
        PROVE  u \in later
    <2>1. ~(u < t) /\ u # t
      BY <1>1, <1>4 DEF Ordered
    <2>2. u \in Nat /\ t \in Nat /\ tasks[u].offset \in Nat /\ tasks[t].offset \in Nat
      BY <1>1, <1>2
    <2> QED
      BY <1>4, <2>1, <2>2
  <1>5. ASSUME NEW i \in Whole, HasUsage(i), 2 * (i - 1) >= tasks[t].offset
        PROVE  2 * i <= NextOffset(t) <=>
                 \A u \in Task : Dispatched(u) /\ tasks[u].offset > tasks[t].offset =>
                   2 * i <= tasks[u].offset
    <2>0. i \in 1..Len(lines) /\ 2 * i <= Size /\ Len(lines) \in Nat
      BY <1>5, WholeWithin, LinesNow DEF LinesInv
    <2>1. CASE later = {}
      <3>1. NextOffset(t) = Size
        BY <2>1 DEF NextOffset
      <3> QED
        BY <1>4, <2>0, <2>1, <3>1
    <2>2. CASE later # {}
      <3>1. PICK v : v = Min(later)
        OBVIOUS
      <3>2. v \in later /\ \A u \in later : v <= u
        BY <1>2, <2>2, <3>1, MinIs
      <3>3. NextOffset(t) = tasks[v].offset
        BY <2>2, <3>1 DEF NextOffset
      <3>4. v \in Task /\ v > t /\ Dispatched(v)
        BY <1>3, <3>2
      <3>5. tasks[v].offset > tasks[t].offset
        BY <3>4, <1>1, <1>2 DEF Ordered
      <3>6. ASSUME NEW u \in later PROVE tasks[v].offset <= tasks[u].offset
        <4>1. CASE u = v
          BY <1>1, <3>4, <4>1
        <4>2. CASE u # v
          <5>1. v <= u /\ u \in Task /\ Dispatched(u)
            BY <1>3, <3>2
          <5>2. v \in Nat /\ u \in Nat
            BY <1>2, <3>4, <5>1
          <5>3. v < u
            BY <4>2, <5>1, <5>2
          <5> QED
            BY <3>4, <5>1, <5>3 DEF Ordered
        <4> QED
          BY <4>1, <4>2
      <3>7. ASSUME 2 * i <= tasks[v].offset, NEW u \in Task, Dispatched(u),
                   tasks[u].offset > tasks[t].offset
            PROVE  2 * i <= tasks[u].offset
        <4>1. tasks[v].offset <= tasks[u].offset
          BY <1>4, <3>6, <3>7
        <4> QED
          BY <1>1, <2>0, <3>4, <3>7, <4>1
      <3> QED
        BY <3>3, <3>4, <3>5, <3>7
    <2> QED
      BY <2>1, <2>2
  <1> HIDE DEF later
  <1> QED
    BY <1>5 DEF Usages, EntriesFrom, Period

\* The peak of a task's part is what the task held.
LEMMA PeakIs ==
  ASSUME LinesInv, TasksInv, NEW t \in Task, Dispatched(t), NEW S, S = Period(t),
         NEW start, NEW end, Usages(start, end) = S
  PROVE  /\ Peak(start, end) \in 0..MaxContext
         /\ Peak(start, end) # 0 => \E i \in S : Peak(start, end) = lines[i].usage
         /\ HeldIs(t) => Peak(start, end) = tasks[t].held
  <1> DEFINE used == {lines[i].usage : i \in S}
  <1>1. MaxContext \in Nat /\ 0 \in Nat /\ tasks[t].held \in 0..MaxContext
    BY TaskNow, TranscriptsAssumption DEF TranscriptsAssumption, TasksInv
  <1>2. \A i \in S : i \in 1..Len(lines)
    BY WholeIs DEF Period
  <1>3. used \subseteq 0..MaxContext
    BY <1>2, LinesNow DEF LinesInv
  <1>4. {0} \cup used \subseteq 0..MaxContext
    BY <1>1, <1>3
  <1>5. PICK p : p = Peak(start, end)
    OBVIOUS
  <1>6. p = Max({0} \cup used)
    BY <1>5 DEF Peak
  <1>7. p \in {0} \cup used /\ \A x \in {0} \cup used : p >= x
    BY <1>1, <1>4, <1>6, MaxIs
  <1>8. p # 0 => \E i \in S : p = lines[i].usage
    BY <1>7
  <1>9. ASSUME HeldIs(t) PROVE p = tasks[t].held
    <2>1. \A i \in S : lines[i].usage <= tasks[t].held
      BY <1>9 DEF HeldIs
    <2>2. tasks[t].held = 0 \/ \E i \in S : lines[i].usage = tasks[t].held
      BY <1>9 DEF HeldIs
    <2>3. p \in 0..MaxContext /\ p >= tasks[t].held
      BY <1>1, <1>4, <1>7, <2>2
    <2>4. p <= tasks[t].held
      BY <1>1, <1>7, <2>1
    <2> QED
      BY <1>1, <2>3, <2>4
  <1>10. p \in 0..MaxContext
    BY <1>4, <1>7
  <1> QED
    BY <1>5, <1>8, <1>9, <1>10

\* The end of a calibration, and why it fits.
LEMMA EndIs ==
  ASSUME LinesInv, TasksInv, NEW t \in Task, tasks[t].state = "committed"
  PROVE  /\ End(t) \in ContextSize
         /\ Ordered(t) /\ ~Fits(tasks[t].start, End(t)) => tasks[t].shrank \/ daemon.blind
         /\ Ordered(t) /\ tasks[t].held > 0 => End(t) = tasks[t].held
  <1> DEFINE o == tasks[t].offset
             peak == ContextPeak(o, NextOffset(t))
  <1>1. /\ tasks \in [Task -> TaskRow] /\ contextMax \in ContextSize /\ TaskInv(t)
        /\ Dispatched(t) /\ HeldIs(t) /\ StartIs(t) /\ MaxIsPast(t)
        /\ Records => SteadyIs(t)
    BY DEF TasksInv, TaskInv, Dispatched, ReadSince
  <1>2. MaxContext \in Nat /\ Unknown = -1
    BY TranscriptsAssumption DEF TranscriptsAssumption, Unknown
  <1>3. PICK p : p = peak
    OBVIOUS
  <1>4. End(t) = IF p > 0 THEN p ELSE IF contextMax # Unknown THEN contextMax ELSE p
    BY <1>3 DEF End
  <1>5. PICK x : x = End(t)
    OBVIOUS
  <1>6. CASE Records
    <2>1. p = Peak(o, NextOffset(t))
      BY <1>3, <1>6 DEF ContextPeak
    <2>2. p \in 0..MaxContext
      <3>1. Usages(o, NextOffset(t)) \subseteq 1..Len(lines)
        BY WholeIs DEF Usages, EntriesFrom
      <3>2. {0} \cup {lines[i].usage : i \in Usages(o, NextOffset(t))} \subseteq 0..MaxContext
        BY <1>2, <3>1, LinesNow DEF LinesInv
      <3>3. Max({0} \cup {lines[i].usage : i \in Usages(o, NextOffset(t))}) \in 0..MaxContext
        BY <1>2, <3>2, MaxIs
      <3> QED
        BY <2>1, <3>3 DEF Peak
    <2>3. x \in ContextSize
      BY <1>1, <1>4, <1>5, <2>2 DEF ContextSize
    <2>4. ASSUME Ordered(t)
          PROVE  /\ p # 0 => \E i \in Period(t) : p = lines[i].usage
                 /\ p = tasks[t].held
      <3>1. Usages(o, NextOffset(t)) = Period(t)
        BY <1>1, <2>4, PeriodIs
      <3> QED
        BY <1>1, <2>1, <3>1, PeakIs
    <2>5. Before(t) \in SUBSET (1..Len(lines))
      BY DEF Before
    <2>6. Base(t) \in 0..MaxContext /\ tasks[t].start = Base(t)
      BY <1>1, <1>6, <2>5, LatestIs DEF Base, StartIs
    <2>7. ASSUME Ordered(t), ~tasks[t].shrank, ~daemon.blind PROVE x >= Base(t)
      <3>1. contextMax >= Base(t)
        BY <1>1, <1>6, <2>7 DEF MaxIsPast
      <3>2. CASE p > 0
        <4>1. PICK i \in Period(t) : p = lines[i].usage
          BY <1>2, <2>2, <2>4, <2>7, <3>2
        <4>2. /\ i \in 1..Len(lines) /\ HasUsage(i) /\ 2 * (i - 1) >= o
              /\ \A u \in Task : Dispatched(u) /\ tasks[u].offset > o =>
                   2 * i <= tasks[u].offset
          BY WholeIs DEF Period
        <4>3. o \in Nat /\ \A u \in Task : tasks[u].offset \in Nat
          BY <1>1, TaskNow
        <4>4. i \in Begun(t)
          BY <4>2, <4>3 DEF Begun
        <4> QED
          BY <1>1, <1>4, <1>5, <1>6, <2>7, <3>2, <4>1, <4>4 DEF SteadyIs
      <3>3. CASE ~(p > 0)
        <4>1. contextMax # Unknown
          BY <1>2, <2>6, <3>1
        <4> QED
          BY <1>4, <1>5, <3>1, <3>3, <4>1
      <3> QED
        BY <3>2, <3>3
    <2>8. ASSUME Ordered(t), ~Fits(tasks[t].start, x) PROVE tasks[t].shrank \/ daemon.blind
      BY <2>6, <2>7, <2>8 DEF Fits
    <2>9. ASSUME Ordered(t), tasks[t].held > 0 PROVE x = tasks[t].held
      <3>1. p = tasks[t].held
        BY <2>4, <2>9
      <3> QED
        BY <1>4, <1>5, <2>9, <3>1
    <2> HIDE DEF peak, o
    <2> QED
      BY <1>5, <2>3, <2>8, <2>9
  <1>7. CASE ~Records
    <2>1. p = Unknown /\ tasks[t].start = Unknown
      BY <1>1, <1>3, <1>7 DEF ContextPeak, StartIs
    <2>2. Fits(tasks[t].start, End(t))
      BY <2>1 DEF Fits
    <2>3. x \in ContextSize
      BY <1>1, <1>2, <1>4, <1>5, <2>1 DEF ContextSize
    <2>4. tasks[t].held = 0
      <3>1. \A i \in Period(t) : lines[i].usage = 0
        BY <1>7, WholeIs DEF Period, Records, LinesInv, Shape
      <3> QED
        BY <1>1, <3>1 DEF HeldIs
    <2> QED
      BY <1>5, <2>2, <2>3, <2>4
  <1> QED
    BY <1>6, <1>7

LEMMA CalibrateKeeps ==
  ASSUME IInv, NEW t \in Task, Calibrate(t)
  PROVE  LinesInv' /\ SentInv' /\ TasksInv'
  <1>1. LinesInv /\ SentInv /\ TasksInv
    BY DEF IInv
  <1>2. /\ tasks[t].state = "committed"
        /\ tasks' = [tasks EXCEPT ![t] = Calibrated(tasks[t], End(t))]
        /\ UNCHANGED <<agent, reader, lines, torn, sent, contextMax, daemon, watch>>
    BY <1>1 DEF Calibrate, TasksInv
  <1>3. TaskInv(t) /\ tasks \in [Task -> TaskRow] /\ tasks[t] \in TaskRow /\ daemon \in Daemon
    BY <1>1 DEF TasksInv
  <1>4. PICK c \in ContextSize :
          /\ c = End(t)
          /\ Ordered(t) /\ ~Fits(tasks[t].start, c) => tasks[t].shrank \/ daemon.blind
          /\ Ordered(t) /\ tasks[t].held > 0 => c = tasks[t].held
    BY <1>1, <1>2, EndIs
  <1>5. PICK r : r = Calibrated(tasks[t], c)
    OBVIOUS
  <1>6. tasks' = [tasks EXCEPT ![t] = r]
    BY <1>2, <1>4, <1>5
  <1>7. /\ r \in TaskRow
        /\ r.offset = tasks[t].offset /\ r.held = tasks[t].held
        /\ r.shrank = tasks[t].shrank /\ r.start = tasks[t].start
        /\ r.state \in {"committed", "calibrated"}
        /\ r.state = "calibrated" => r.end = c
        /\ r.refused => tasks[t].refused \/ ~Fits(tasks[t].start, c)
    <2>1. CASE Fits(tasks[t].start, c)
      <3>1. r = [tasks[t] EXCEPT !.state = "calibrated", !.end = c]
        BY <1>5, <2>1 DEF Calibrated
      <3>2. r \in TaskRow
        BY <1>3, <3>1 DEF TaskRow
      <3>3. /\ r.offset = tasks[t].offset /\ r.held = tasks[t].held
            /\ r.shrank = tasks[t].shrank /\ r.start = tasks[t].start
            /\ r.state = "calibrated" /\ r.end = c /\ r.refused = tasks[t].refused
        BY <1>3, <3>1 DEF TaskRow
      <3> QED
        BY <3>2, <3>3
    <2>2. CASE ~Fits(tasks[t].start, c)
      <3>1. r = [tasks[t] EXCEPT !.refused = TRUE]
        BY <1>5, <2>2 DEF Calibrated
      <3>2. r \in TaskRow
        BY <1>3, <3>1 DEF TaskRow
      <3>3. /\ r.offset = tasks[t].offset /\ r.held = tasks[t].held
            /\ r.shrank = tasks[t].shrank /\ r.start = tasks[t].start
            /\ r.state = "committed"
        BY <1>2, <1>3, <3>1 DEF TaskRow
      <3> QED
        BY <2>2, <3>2, <3>3
    <2> QED
      BY <2>1, <2>2
  <1>8. Dispatched(t) /\ tasks[t].state # "calibrated"
    BY <1>2 DEF Dispatched
  <1>9. daemon' \in Daemon /\ daemon' = daemon
    BY <1>2, <1>3
  <1>10. /\ Still /\ Frame /\ LinesInv' /\ SentInv' /\ tasks'[t] = r
         /\ TaskInv(t)' => TasksInv'
         /\ Base(t)' = Base(t)
    BY <1>2, <1>6, <1>7, <1>8, <1>9, OthersKeep
  <1>11. StartIs(t)' /\ MaxIsPast(t)' /\ ~Flying(t)'
    <2>1. StartIs(t) /\ MaxIsPast(t)
      BY <1>2, <1>3 DEF TaskInv, ReadSince
    <2> QED
      BY <1>2, <1>7, <1>10, <2>1 DEF StartIs, MaxIsPast, Records, Flying
  <1>12. tasks'[t].refused =>
           /\ tasks'[t].state \in {"committed", "calibrated"}
           /\ Ordered(t) => tasks'[t].shrank \/ daemon'.blind
    BY <1>3, <1>4, <1>7, <1>9, <1>10 DEF TaskInv
  <1>13. tasks'[t].state = "calibrated" /\ tasks'[t].held > 0 /\ Ordered(t) =>
           tasks'[t].end = tasks'[t].held
    BY <1>4, <1>7, <1>10
  <1>14. TaskInv(t)'
    BY <1>1, <1>7, <1>8, <1>10, <1>11, <1>12, <1>13, ChangedKeeps
  <1> QED
    BY <1>10, <1>14

\* A step that leaves the tasks and the transcript alone.
LEMMA RestKeeps ==
  ASSUME IInv, UNCHANGED <<agent, lines, torn, tasks, contextMax, daemon>>,
         watch' \in Watch, LinesInv', SentInv'
  PROVE  IInv'
  <1>1. LinesInv /\ SentInv /\ TasksInv
    BY DEF IInv
  <1>2. /\ tasks \in [Task -> TaskRow] /\ contextMax \in ContextSize /\ daemon \in Daemon
        /\ \A u \in Task : TaskInv(u)
    BY <1>1 DEF TasksInv
  <1>3. Size' = Size /\ Whole' = Whole
    BY DEF Size, Whole
  <1>4. Frame
    BY FrameOfSame
  <1>5. Still
    BY <1>3, <1>4 DEF Still, Frame
  <1>6. ASSUME NEW u \in Task PROVE TaskInv(u)'
    <2>1. Flying(u) => Current(u)'
      BY <1>2, <1>4, FrameKeeps DEF TaskInv
    <2>2. ASSUME Dispatched(u), ReadSince(u)' PROVE MaxIsPast(u)'
      <3>1. Base(u)' = Base(u)
        BY <1>1, <1>2, <1>5, <2>2, PartsStay
      <3>2. ReadSince(u) /\ MaxIsPast(u)
        BY <1>2, <2>2 DEF ReadSince, TaskInv
      <3> QED
        BY <3>1, <3>2 DEF MaxIsPast, Records
    <2> QED
      BY <1>1, <1>5, <2>1, <2>2, StillKeeps
  <1> QED
    BY <1>2, <1>6 DEF IInv, TasksInv

\* What an agent's step leaves of the tasks it does not tell of.
LEMMA QuietKeeps ==
  ASSUME IInv, QuietStep, SentInv', UNCHANGED watch
  PROVE  IInv'
  <1>1. \A t \in Task : TaskInv(t)'
    BY QuietKeepsTask DEF IInv
  <1> QED
    BY <1>1 DEF IInv, TasksInv, QuietStep, LineStep

LEMMA RecountedTypes ==
  ASSUME IInv, LinesInv', SentInv', \A t \in Task : Recounted(t) /\ TaskInv(t)',
         UNCHANGED <<contextMax, daemon, watch>>, tasks' = [t \in Task |-> tasks'[t]]
  PROVE  IInv'
  <1>1. tasks' \in [Task -> TaskRow]
    BY DEF Recounted
  <1> QED
    BY <1>1 DEF IInv, TasksInv

-----------------------------------------------------------------------------
(* Every step *)

\* Nothing is written and nothing dispatched.
LEMMA InitHolds == Init => IInv
  <1> SUFFICES ASSUME Init PROVE IInv
    OBVIOUS
  <1>1. /\ MaxLines \in Nat /\ MaxContext \in Nat /\ Unknown = -1
    BY TranscriptsAssumption DEF TranscriptsAssumption, Unknown
  <1>2. lines = <<>> /\ torn = FALSE /\ lines \in Seq(Line) /\ Len(lines) = 0
    BY DEF Init
  <1>3. ~Ends(lines)
    BY <1>2 DEF Ends
  <1>4. LinesInv
    <2>1. 1..Len(lines) = {}
      BY <1>2
    <2>2. Shape
      BY <1>2, <2>1 DEF Shape
    <2>3. agent \in AgentKinds /\ reader \in Readers
      BY DEF Init
    <2>4. lines \in Seq(Line) /\ Len(lines) <= MaxLines
      BY <1>1, <1>2
    <2>5. torn \in BOOLEAN
      BY <1>2
    <2> QED
      BY <2>2, <2>3, <2>4, <2>5, Zenon DEF LinesInv
  <1>5. Size = 0
    BY <1>2, <1>3 DEF Size, SizeOf
  <1>6. 0 \in Sizes
    BY <1>1 DEF Sizes
  <1>7. Whole = {}
    BY <1>2 DEF Whole
  <1>8. \A o \in Nat, kind \in {"prompt", "queued"} : ~Has(kind, o)
    BY <1>7 DEF Has, Entries, EntriesFrom, EntriesFromLineHolding
  <1>9. sent = [offset |-> 0, prompts |-> FALSE, queues |-> FALSE]
    BY DEF Init
  <1>10. sent \in Sent /\ sent.offset = 0 /\ ~sent.prompts /\ ~sent.queues
    BY <1>6, <1>9 DEF Sent
  <1>11. SentInv
    BY <1>5, <1>8, <1>10 DEF SentInv
  <1>12. Unknown \in ContextSize /\ 0 \in 0..MaxContext
    BY <1>1 DEF ContextSize
  <1>13. Drafted \in TaskRow
    BY <1>6, <1>12 DEF Drafted, TaskRow
  <1>14. tasks \in [Task -> TaskRow] /\ \A t \in Task : tasks[t] = Drafted
    BY <1>13 DEF Init
  <1>15. daemon \in Daemon /\ watch \in Watch /\ contextMax \in ContextSize
    BY <1>6, <1>12 DEF Init, Daemon, Watch
  <1>16. ASSUME NEW t \in Task PROVE TaskInv(t)
    BY <1>5, <1>14 DEF TaskInv, Drafted, Dispatched, Flying, ReadSince
  <1> QED
    BY <1>4, <1>11, <1>14, <1>15, <1>16 DEF IInv, TasksInv

LEMMA AgentKeeps ==
  ASSUME IInv, AgentStep
  PROVE  IInv'
  <1>1. LinesInv /\ SentInv /\ TasksInv /\ tasks \in [Task -> TaskRow]
    BY DEF IInv, TasksInv
  <1>2. CASE Other \/ EndTurn \/ \E context \in 1..MaxContext : Aside(context)
    BY <1>1, <1>2, QuietWorkKeeps, QuietKeeps
  <1>3. CASE Finish
    <2>1. /\ LinesInv' /\ SentInv' /\ \A t \in Task : Recounted(t) /\ TaskInv(t)'
          /\ UNCHANGED <<reader, contextMax, daemon, watch>>
      BY <1>3, FinishKeepsTasks
    <2>2. tasks' = [t \in Task |-> tasks'[t]]
      <3>1. tasks' = tasks \/ \E e, start : tasks' = Answered(e, start)
        BY <1>3 DEF Finish
      <3>2. ASSUME NEW e, NEW start, tasks' = Answered(e, start)
            PROVE  tasks' = [t \in Task |-> tasks'[t]]
        BY <3>2 DEF Answered
      <3> QED
        BY <1>1, <3>1, <3>2
    <2> QED
      BY <2>1, <2>2, RecountedTypes
  <1>4. ASSUME NEW ours \in BOOLEAN, TakePrompt(ours) \/ Queue(ours) PROVE IInv'
    BY <1>1, <1>4, TakePromptKeeps, QueueKeeps, QuietKeeps
  <1>5. ASSUME NEW context \in 1..MaxContext, Reply(context) PROVE IInv'
    <2>1. context \in 0..MaxContext
      BY TranscriptsAssumption DEF TranscriptsAssumption
    <2>2. /\ LineStep /\ SentInv' /\ \A t \in Task : Recounted(t) /\ TaskInv(t)'
          /\ UNCHANGED <<reader, contextMax, daemon, watch>>
      BY <1>5, <2>1, ReplyKeeps
    <2>3. tasks' = [t \in Task |-> tasks'[t]]
      BY <1>5 DEF Reply
    <2> QED
      BY <2>2, <2>3, RecountedTypes DEF LineStep
  <1> QED
    BY <1>2, <1>3, <1>4, <1>5 DEF AgentStep

\* Every step of the agent, the lead, the daemon and the watch.
LEMMA Inductive == IInv /\ [Next]_vars => IInv'
  <1> SUFFICES ASSUME IInv, [Next]_vars PROVE IInv'
    OBVIOUS
  <1>1. LinesInv /\ SentInv /\ TasksInv
    BY DEF IInv
  <1>2. CASE AgentStep
    BY <1>2, AgentKeeps
  <1>3. CASE Send
    <2>1. LinesInv' /\ SentInv'
      BY <1>1, <1>3, SendKeeps
    <2>2. watch' \in Watch
      BY <1>1, <1>3 DEF Send, TasksInv
    <2> QED
      BY <1>3, <2>1, <2>2, RestKeeps DEF Send
  <1>4. CASE ReadSession
    BY <1>4, ReadSessionKeeps DEF IInv
  <1>5. CASE Observe
    BY <1>5, ObserveKeeps DEF IInv
  <1>6. ASSUME NEW t \in Task, Dispatch(t) \/ AbortTask(t) \/ Calibrate(t) PROVE IInv'
    BY <1>6, DispatchKeeps, AbortKeeps, CalibrateKeeps DEF IInv
  <1>7. CASE StartWatch \/ Look
    <2>1. PICK s \in Sizes : s = Size
      BY <1>1, SizeInSizes
    <2>2. UNCHANGED <<agent, reader, lines, torn, sent, tasks, contextMax, daemon>>
      BY <1>7 DEF StartWatch, Look
    <2>3. watch \in Watch
      BY <1>1 DEF TasksInv
    <2>4. watch' \in Watch
      <3>1. CASE StartWatch
        <4>1. watch' = [up |-> TRUE, seen |-> s, told |-> s]
          BY <2>1, <3>1 DEF StartWatch
        <4> QED
          BY <4>1 DEF Watch
      <3>2. CASE Look
        <4>1. PICK x \in Sizes : x = IF Size > watch.seen THEN Size ELSE watch.told
          BY <2>1, <2>3 DEF Watch
        <4>2. watch' = [watch EXCEPT !.seen = s, !.told = x]
          BY <2>1, <3>2, <4>1 DEF Look
        <4> QED
          BY <2>3, <4>2 DEF Watch
      <3> QED
        BY <1>7, <3>1, <3>2
    <2>5. LinesInv' /\ SentInv'
      BY <1>1, <2>2, ReadersKeep
    <2> QED
      BY <2>2, <2>4, <2>5, RestKeeps
  <1>8. CASE UNCHANGED vars
    <2>1. UNCHANGED <<agent, reader, lines, torn, sent, tasks, contextMax, daemon, watch>>
      BY <1>8 DEF vars
    <2>2. LinesInv' /\ SentInv'
      BY <1>1, <2>1, ReadersKeep
    <2>3. watch' \in Watch
      BY <1>1, <2>1 DEF TasksInv
    <2> QED
      BY <2>1, <2>2, <2>3, RestKeeps
  <1> QED
    BY <1>2, <1>3, <1>4, <1>5, <1>6, <1>7, <1>8 DEF Next

LEMMA Invariant == Spec => []IInv
  BY InitHolds, Inductive, PTL DEF Spec

\* The transcript, the prompt, the tasks and their readers stay what they are.
THEOREM TypeCorrect == Spec => []TypeOK
  <1>1. IInv => TypeOK
    BY DEF IInv, LinesInv, SentInv, TasksInv, TaskInv, TypeOK
  <1> QED
    BY <1>1, Invariant, PTL

\* prompt_state finds the prompt sent last exactly when the agent has written it
\* since, whatever was sent before and however Cursor's transcript moved back.
THEOREM PromptsRecognised == Spec => []PromptsAreRecognised
  <1>1. IInv => PromptsAreRecognised
    <2> SUFFICES ASSUME IInv PROVE PromptsAreRecognised
      OBVIOUS
    <2>1. PICK o \in Nat : o = sent.offset
      BY SentNow DEF IInv, SentInv
    <2>2. (sent.prompts <=> Has("prompt", o)) /\ (sent.queues <=> Has("queued", o))
      BY <2>1 DEF IInv, SentInv
    <2>3. PromptState(o) = IF Has("prompt", o) THEN "started"
                           ELSE IF Has("queued", o) THEN "queued" ELSE "unseen"
      BY DEF PromptState, Has
    <2> QED
      BY <2>1, <2>2, <2>3 DEF PromptsAreRecognised
  <1> QED
    BY <1>1, Invariant, PTL

\* While tasks are dispatched in the order of their ids, a committed one can be
\* calibrated unless its agent's context shrank or the daemon once did not see it,
\* and its calibration ends with the largest context of a response of its own.
THEOREM CalibrationsAreTheirOwn == Spec => []CalibrationsFit
  <1>1. IInv => CalibrationsFit
    <2> SUFFICES ASSUME IInv, InOrder, NEW t \in Task
                 PROVE  /\ tasks[t].refused => tasks[t].shrank \/ daemon.blind
                        /\ tasks[t].state = "calibrated" /\ tasks[t].held > 0 =>
                             tasks[t].end = tasks[t].held
      BY DEF CalibrationsFit
    <2>1. TaskInv(t) /\ tasks \in [Task -> TaskRow]
      BY DEF IInv, TasksInv
    <2>2. \A u \in Task : tasks[u].offset \in Nat
      BY <2>1, TaskNow
    <2>3. ASSUME tasks[t].state \in {"committed", "calibrated"} PROVE Ordered(t)
      <3>1. ASSUME NEW u \in Task, NEW v \in Task, u < v, Dispatched(u), Dispatched(v)
            PROVE  tasks[u].offset <= tasks[v].offset
        BY <2>2, <3>1 DEF InOrder
      <3>2. ASSUME NEW v \in Task, t < v, Dispatched(v)
            PROVE  tasks[t].offset < tasks[v].offset
        BY <2>2, <2>3, <3>2 DEF InOrder, Dispatched
      <3> QED
        BY <3>1, <3>2 DEF Ordered
    <2> QED
      BY <2>1, <2>3 DEF TaskInv
  <1> QED
    BY <1>1, Invariant, PTL

=============================================================================
