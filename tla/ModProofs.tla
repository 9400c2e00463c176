----------------------------- MODULE ModProofs ------------------------------
(***************************************************************************)
(* Theorems about the mod. Board, for any concepts, tool calls, cooldown   *)
(* and bounds: its types, the order of the chat and the floor, the cooldown *)
(* of remarks, and the banner. GameSync, for any set of sessions and any   *)
(* bounds: its types, what a session shows, that a write loses inputs only *)
(* to a write that overlaps it, that no input disappears unaccounted for,  *)
(* and the order in which inputs are applied.                              *)
(***************************************************************************)
EXTENDS Board, GameSync, SequenceTheorems, SumFacts

(***************************************************************************)
(* Board                                                                   *)
(***************************************************************************)

-----------------------------------------------------------------------------
(* The sequences the module keeps                                          *)

\* Where an entry of RemoveAt(s, i) was in s.
LEMMA RemoveAtEntries ==
  ASSUME NEW S, NEW s \in Seq(S), NEW i \in 1..Len(s)
  PROVE  /\ RemoveAt(s, i) \in Seq(S)
         /\ \A j \in DOMAIN RemoveAt(s, i) : \E k \in DOMAIN s : RemoveAt(s, i)[j] = s[k]
<1>0. Len(s) \in Nat /\ DOMAIN s = 1..Len(s)
  OBVIOUS
<1> DEFINE front == SubSeq(s, 1, i - 1)
           back  == SubSeq(s, i + 1, Len(s))
<1>1. /\ front \in Seq(S) /\ Len(front) = i - 1
      /\ \A j \in 1..(i - 1) : front[j] = s[j]
  <2>1. \A j \in 1..(i - 1) : s[j] \in S
    OBVIOUS
  <2> QED  BY <2>1
<1>2. /\ back \in Seq(S) /\ Len(back) = Len(s) - i
      /\ \A j \in 1..(Len(s) - i) : back[j] = s[i + j]
  <2>1. \A j \in (i + 1)..Len(s) : s[j] \in S
    OBVIOUS
  <2> QED  BY <2>1
<1> HIDE DEF front, back
<1>3. RemoveAt(s, i) = front \o back
  BY DEF RemoveAt, front, back
<1>4. front \o back \in Seq(S) /\ DOMAIN (front \o back) = 1..(Len(s) - 1)
  BY <1>1, <1>2
<1>5. ASSUME NEW j \in 1..(Len(s) - 1)
      PROVE  \E k \in DOMAIN s : (front \o back)[j] = s[k]
  <2>1. CASE j <= i - 1
    <3>1. (front \o back)[j] = s[j] /\ j \in 1..Len(s)
      BY <1>0, <1>1, <1>2, <2>1
    <3> QED  BY <1>0, <3>1
  <2>2. CASE j > i - 1
    <3>1. (front \o back)[j] = back[j - (i - 1)]
      BY <1>1, <1>2, <2>2
    <3>2. back[j - (i - 1)] = s[i + (j - (i - 1))] /\ i + (j - (i - 1)) \in 1..Len(s)
      BY <1>0, <1>2, <2>2
    <3> QED  BY <1>0, <3>1, <3>2
  <2>3. j <= i - 1 \/ j > i - 1
    BY ONLY <1>0, i \in 1..Len(s), j \in 1..(Len(s) - 1)
  <2> QED  BY <2>1, <2>2, <2>3
<1> QED  BY <1>3, <1>4, <1>5

\* The chat is in the order of the calls.
Ordered(lines) == \A i, j \in DOMAIN lines : i < j => lines[i].call <= lines[j].call

\* A line that belongs to no earlier call than those in the chat leaves it in order.
LEMMA Append8Ordered ==
  ASSUME NEW who, NEW n \in Nat,
         NEW lines \in Seq([who : who, call : 1..n]),
         NEW line \in [who : who, call : 1..n],
         Ordered(lines), \A i \in DOMAIN lines : lines[i].call <= line.call
  PROVE  Append8(lines, line) \in Seq([who : who, call : 1..n]) /\ Ordered(Append8(lines, line))
<1> DEFINE L == [who : who, call : 1..n]
<1>a. lines \in Seq(L) /\ line \in L /\ \A x \in L : x.call \in 1..n
  OBVIOUS
<1> HIDE DEF L
<1>1. PICK all : all = Append(lines, line)
  OBVIOUS
<1>2. /\ all \in Seq(L) /\ Len(all) \in Nat /\ Len(all) = Len(lines) + 1
      /\ \A i \in 1..Len(lines) : all[i] = lines[i]
      /\ all[Len(all)] = line
      /\ Len(lines) \in Nat /\ DOMAIN lines = 1..Len(lines) /\ DOMAIN all = 1..Len(all)
  BY ONLY <1>a, <1>1
<1>3. \A i \in 1..Len(all) : all[i] \in L /\ all[i].call \in 1..n
  BY ONLY <1>a, <1>2
<1>4. Ordered(all)
  <2> SUFFICES ASSUME NEW i \in 1..Len(all), NEW j \in 1..Len(all), i < j
               PROVE  all[i].call <= all[j].call
    BY <1>2 DEF Ordered
  <2>1. i \in 1..Len(lines) /\ all[i] = lines[i]
    BY <1>2
  <2>2. CASE j = Len(all)
    BY <1>2, <2>1, <2>2
  <2>3. CASE j # Len(all)
    <3>1. j \in 1..Len(lines) /\ all[j] = lines[j]
      BY <1>2, <2>3
    <3> QED  BY <1>2, <2>1, <3>1 DEF Ordered
  <2> QED  BY <2>2, <2>3
<1>5. PICK m \in Nat \ {0} : Append8(lines, line) = SubSeq(all, m, Len(all))
  <2>1. PICK k \in Int : k = Len(all) - BoardLines + 1
    BY <1>2, BoardAssumption
  <2>2. PICK m : m = Max({1, k})
    OBVIOUS
  <2>3. m \in Nat \ {0}
    <3>1. \E x \in {1, k} : \A y \in {1, k} : x >= y
      BY <2>1
    <3>2. m \in {1, k} /\ m >= 1
      BY <2>1, <2>2, <3>1 DEF Max
    <3> QED  BY ONLY <2>1, <3>2
  <2>4. Append8(lines, line) = SubSeq(all, m, Len(all))
    BY <1>1, <2>1, <2>2 DEF Append8
  <2> QED  BY <2>3, <2>4
<1>6. \A i \in m..Len(all) : all[i] \in L
  BY <1>2, <1>3
<1>7. PICK kept : kept = SubSeq(all, m, Len(all))
  OBVIOUS
<1>8. /\ kept \in Seq(L)
      /\ Len(kept) = IF m <= Len(all) THEN Len(all) - m + 1 ELSE 0
      /\ \A i \in 1..(Len(all) - m + 1) : kept[i] = all[m + i - 1]
  BY ONLY <1>2, <1>6, <1>7, m \in Nat \ {0}, SubSeqProperties
<1>9. Ordered(kept)
  <2> SUFFICES ASSUME NEW i \in DOMAIN kept, NEW j \in DOMAIN kept, i < j
               PROVE  kept[i].call <= kept[j].call
    BY DEF Ordered
  <2>1. i \in 1..(Len(all) - m + 1) /\ j \in 1..(Len(all) - m + 1)
    BY <1>2, <1>8
  <2>2. m + i - 1 \in 1..Len(all) /\ m + j - 1 \in 1..Len(all) /\ m + i - 1 < m + j - 1
    <3> PICK len : len = Len(all)
      OBVIOUS
    <3>1. len \in Nat /\ m \in Int /\ 1 <= m /\ i \in Int /\ j \in Int
      BY ONLY <1>2, <1>5, <2>1, len = Len(all)
    <3>2. 1 <= i /\ i < j /\ i <= len - m + 1 /\ j <= len - m + 1
      BY ONLY <2>1, <3>1, i < j, len = Len(all)
    <3> QED  BY ONLY <3>1, <3>2, len = Len(all)
  <2>3. all[m + i - 1].call <= all[m + j - 1].call
    BY <1>2, <1>4, <2>2 DEF Ordered
  <2> QED  BY <1>8, <2>1, <2>3
<1> QED  BY <1>5, <1>7, <1>8, <1>9 DEF L

-----------------------------------------------------------------------------
(* Type correctness                                                        *)

Line == [who : Answers \cup {"you"}, call : DOMAIN calls]
Speech == [at : {"clock", "panes"}, concept : Concepts \cup {None}, now : Nat]

\* TypeOK in two parts: what Claude Code and the player change, what the board does.
SceneTypes ==
  /\ clock \in 0..MaxClock /\ screen \in Screens /\ onboarded \in BOOLEAN
  /\ needsYou \in Reasons /\ tools \in [Tools -> ToolStates]
  /\ met \subseteq Concepts /\ speaking \in Seq(Speech)
  /\ inputs \in Nat /\ interrupted \in BOOLEAN

Remark == [read : Nat, made : Nat]

BoardTypes ==
  /\ explained \subseteq Concepts /\ calls \in Seq(Calls)
  /\ boardStop \in DOMAIN calls \cup {None} /\ boardLines \in Seq(Line)
  /\ lastReactMs \in Nat \cup {None} /\ remarks \in Seq(Remark)

LEMMA TypeParts == TypeOK <=> SceneTypes /\ BoardTypes
BY DEF TypeOK, SceneTypes, BoardTypes, Line, Speech, Remark

LEMMA TypePartsNext == TypeOK' <=> SceneTypes' /\ BoardTypes'
BY DEF TypeOK, SceneTypes, BoardTypes, Line, Speech, Remark

LEMMA BoardTypesKept ==
  ASSUME BoardTypes, UNCHANGED boardVars
  PROVE  BoardTypes'
BY DEF BoardTypes, boardVars, Line

LEMMA NextConceptType ==
  ASSUME NEW concepts \in SUBSET Concepts
  PROVE  NextConcept(concepts) \in Concepts \cup {None}
<1>1. CASE concepts \subseteq explained
  BY <1>1 DEF NextConcept
<1>2. CASE ~(concepts \subseteq explained)
  <2>1. PICK S : S = concepts \ explained
    OBVIOUS
  <2>2. S \in SUBSET Nat /\ S # {} /\ S \subseteq Concepts
    BY <1>2, <2>1, ConceptsAreNumbers
  <2>3. \E x \in S : \A y \in S : x =< y
    BY <2>2, LeastNatural
  <2>4. Min(S) \in S
    BY <2>3 DEF Min
  <2> QED  BY <1>2, <2>1, <2>2, <2>4 DEF NextConcept
<1> QED  BY <1>1, <1>2

\* What cutting a call does to the calls.
LEMMA CutFacts ==
  ASSUME BoardTypes, NEW who \in {"player", "board", "left"},
         NEW cs, cs = Cut(boardStop, who)
  PROVE  /\ cs \in Seq(Calls) /\ Len(cs) = Len(calls) /\ Len(calls) \in Nat
         /\ DOMAIN calls = 1..Len(calls) /\ DOMAIN cs = 1..Len(calls)
         /\ \A d \in 1..Len(calls) :
              /\ cs[d].at = calls[d].at
              /\ cs[d].cut = IF d = boardStop THEN who ELSE calls[d].cut
<1>1. calls \in Seq(Calls) /\ boardStop \in DOMAIN calls \cup {None}
  BY DEF BoardTypes
<1>2. Len(calls) \in Nat /\ DOMAIN calls = 1..Len(calls) /\ None \notin 1..Len(calls)
  BY <1>1, BoardAssumption
<1>3. \A d \in 1..Len(calls) : calls[d] \in Calls
  BY <1>1, <1>2
<1>4. CASE boardStop = None
  BY <1>1, <1>2, <1>4 DEF Cut
<1>5. CASE boardStop # None
  <2>1. boardStop \in 1..Len(calls) /\ cs = [calls EXCEPT ![boardStop].cut = who]
    BY <1>1, <1>2, <1>5 DEF Cut
  <2>2. PICK call : call = [calls[boardStop] EXCEPT !.cut = who]
    OBVIOUS
  <2>3. calls[boardStop] \in Calls
    BY <1>3, <2>1
  <2>4. /\ call \in Calls /\ call.at = calls[boardStop].at
        /\ call.cut = who
    BY ONLY <2>2, <2>3, who \in {"player", "board", "left"} DEF Calls, CallRecords
  <2>5. cs = [calls EXCEPT ![boardStop] = call]
    BY <2>1, <2>2
  <2>6. cs \in Seq(Calls) /\ Len(cs) = Len(calls) /\ DOMAIN cs = 1..Len(calls)
    BY ONLY <1>1, <1>2, <2>1, <2>4, <2>5
  <2>7. \A d \in 1..Len(calls) : cs[d] = IF d = boardStop THEN call ELSE calls[d]
    BY ONLY <1>1, <1>2, <2>5
  <2> QED  BY ONLY <1>2, <2>4, <2>6, <2>7
<1> QED  BY <1>4, <1>5

\* A new call takes the floor and cuts the one that had it.
Speakers == {"player", "board"}

Asked(who) ==
  LET n == Len(calls)
  IN  /\ calls' \in Seq(Calls) /\ Len(calls') = n + 1 /\ n \in Nat
      /\ DOMAIN calls = 1..n /\ DOMAIN calls' = 1..(n + 1)
      /\ boardStop' = n + 1
      /\ calls'[n + 1].cut = "no"
      /\ \A d \in 1..n : /\ calls'[d].at = calls[d].at
                         /\ calls'[d].cut = IF d = boardStop THEN who ELSE calls[d].cut

LEMMA AskFacts ==
  ASSUME BoardTypes, NEW who \in Speakers, NEW concept \in Concepts \cup {None},
         Ask(who, concept)
  PROVE  Asked(who)
<1> PICK n : n = Len(calls)
  OBVIOUS
<1> PICK cs : cs = Cut(boardStop, who)
  OBVIOUS
<1> PICK new : new = [concept |-> concept, at |-> "asked", answer |-> "none", cut |-> "no"]
  OBVIOUS
<1>1. who \in {"player", "board", "left"}
  BY DEF Speakers
<1>2. /\ cs \in Seq(Calls) /\ Len(cs) = n /\ n \in Nat
      /\ DOMAIN calls = 1..n /\ DOMAIN cs = 1..n
      /\ \A d \in 1..n :
              /\ cs[d].at = calls[d].at
              /\ cs[d].cut = IF d = boardStop THEN who ELSE calls[d].cut
  BY <1>1, CutFacts
<1>3. new \in Calls /\ new.cut = "no"
  BY DEF Calls, CallRecords
<1>4. calls' = Append(cs, new) /\ boardStop' = n + 1
  BY DEF Ask
<1>5. /\ Append(cs, new) \in Seq(Calls) /\ Len(Append(cs, new)) = n + 1
      /\ \A d \in 1..n : Append(cs, new)[d] = cs[d]
      /\ Append(cs, new)[n + 1] = new
      /\ DOMAIN Append(cs, new) = 1..(n + 1)
  BY ONLY <1>2, <1>3
<1> QED  BY ONLY <1>2, <1>3, <1>4, <1>5, n = Len(calls) DEF Asked

\* The lines of a chat stay lines when calls are added.
LEMMA LinesKept ==
  ASSUME NEW n \in Nat, NEW m \in Nat, n <= m, NEW who,
         NEW lines \in Seq([who : who, call : 1..n])
  PROVE  lines \in Seq([who : who, call : 1..m])
<1>1. \A x \in [who : who, call : 1..n] : x \in [who : who, call : 1..m]
  OBVIOUS
<1> DEFINE A == [who : who, call : 1..n]
           B == [who : who, call : 1..m]
<1>2. lines \in Seq(A) /\ \A x \in A : x \in B
  BY <1>1
<1> HIDE DEF A, B
<1>3. lines \in Seq(B)
  BY <1>2
<1> QED  BY <1>3 DEF B

\* A call goes on: where it is, its answer and its concept change, who cut it
\* does not.
Goes(c, at) ==
  LET n == Len(calls)
  IN  /\ calls' \in Seq(Calls) /\ Len(calls') = n /\ n \in Nat
      /\ DOMAIN calls = 1..n /\ DOMAIN calls' = 1..n
      /\ calls'[c].at = at
      /\ \A d \in 1..n : /\ calls'[d].cut = calls[d].cut
                         /\ d # c => calls'[d].at = calls[d].at

LEMMA EditFacts ==
  ASSUME BoardTypes, NEW c \in DOMAIN calls, NEW call \in Calls,
         call.cut = calls[c].cut,
         calls' = [calls EXCEPT ![c] = call]
  PROVE  Goes(c, call.at)
<1> PICK n : n = Len(calls)
  OBVIOUS
<1>1. calls \in Seq(Calls) /\ n \in Nat /\ DOMAIN calls = 1..n
  BY DEF BoardTypes
<1>2. calls' \in Seq(Calls) /\ Len(calls') = n /\ DOMAIN calls' = 1..n
  BY <1>1
<1>3. \A d \in 1..n : calls'[d] = IF d = c THEN call ELSE calls[d]
  BY <1>1
<1> QED  BY ONLY <1>1, <1>2, <1>3, n = Len(calls), c \in DOMAIN calls,
            call.cut = calls[c].cut DEF Goes

LEMMA DoneFacts ==
  ASSUME BoardTypes, NEW c \in DOMAIN calls, calls' = Done(c)
  PROVE  Goes(c, "done")
<1>1. calls \in Seq(Calls) /\ calls[c] \in Calls
  BY DEF BoardTypes
<1> PICK call : call = [calls[c] EXCEPT !.at = "done", !.answer = "none", !.concept = None]
  OBVIOUS
<1>2. /\ call \in Calls /\ call.cut = calls[c].cut
      /\ call.at = "done"
  BY <1>1 DEF Calls, CallRecords
<1>3. calls' = [calls EXCEPT ![c] = call]
  BY <1>1 DEF Done
<1> QED  BY <1>2, <1>3, EditFacts

LEMMA SettlesFacts ==
  ASSUME BoardTypes, NEW c \in DOMAIN calls, NEW answer \in Answers, Settles(c, answer)
  PROVE  Goes(c, "settled")
<1>1. calls \in Seq(Calls) /\ calls[c] \in Calls
  BY DEF BoardTypes
<1> PICK call : call = [calls[c] EXCEPT !.at = "settled", !.answer = answer]
  OBVIOUS
<1>2. /\ call \in Calls /\ call.cut = calls[c].cut
      /\ call.at = "settled"
  BY <1>1 DEF Calls, CallRecords, Answers
<1>3. calls' = [calls EXCEPT ![c] = call]
  BY <1>1 DEF Settles
<1> QED  BY <1>2, <1>3, EditFacts

LEMMA AnsweredFacts ==
  ASSUME BoardTypes, NEW c \in DOMAIN calls, Answered(c)
  PROVE  Goes(c, "explaining") \/ Goes(c, "done")
<1>1. calls \in Seq(Calls) /\ calls[c] \in Calls
  BY DEF BoardTypes
<1>2. CASE calls' = Done(c)
  BY <1>2, DoneFacts
<1>3. CASE calls[c].concept # None /\ calls' = [calls EXCEPT ![c].at = "explaining"]
  <2> PICK call : call = [calls[c] EXCEPT !.at = "explaining"]
    OBVIOUS
  <2>1. /\ call \in Calls /\ call.cut = calls[c].cut
        /\ call.at = "explaining"
    BY <1>1, <1>3 DEF Calls, CallRecords
  <2>2. calls' = [calls EXCEPT ![c] = call]
    BY <1>1, <1>3
  <2>3. Goes(c, call.at)
    BY <2>1, <2>2, EditFacts
  <2> QED  BY <2>1, <2>3
<1> QED  BY <1>2, <1>3 DEF Answered

\* What an input leaves among the speakUps: those there were, and perhaps one that has
\* not asked for the time.
LEMMA RecordFacts ==
  ASSUME SceneTypes, Record
  PROVE  /\ met' \subseteq Concepts /\ speaking' \in Seq(Speech)
         /\ \A i \in DOMAIN speaking' :
              speaking'[i].now = 0 \/ \E k \in DOMAIN speaking : speaking'[i] = speaking[k]
<1>1. PICK concepts \in SUBSET Concepts, moment \in BOOLEAN :
        /\ met' = concepts
        /\ \/ speaking' = Append(speaking, [at |-> "clock", concept |-> NextConcept(concepts),
                                            now |-> 0])
           \/ speaking' = speaking
  BY DEF Record
<1>2. speaking \in Seq(Speech)
  BY DEF SceneTypes
<1>3. CASE speaking' = speaking
  BY <1>1, <1>2, <1>3
<1>4. CASE speaking' = Append(speaking, [at |-> "clock", concept |-> NextConcept(concepts),
                                         now |-> 0])
  <2> PICK new : new = [at |-> "clock", concept |-> NextConcept(concepts), now |-> 0]
    OBVIOUS
  <2>1. new \in Speech /\ new.now = 0
    BY NextConceptType DEF Speech
  <2>2. /\ speaking' \in Seq(Speech) /\ DOMAIN speaking' = 1..(Len(speaking) + 1)
        /\ Len(speaking) \in Nat /\ DOMAIN speaking = 1..Len(speaking)
        /\ \A i \in 1..Len(speaking) : speaking'[i] = speaking[i]
        /\ speaking'[Len(speaking) + 1] = new
    BY <1>2, <1>4, <2>1
  <2> QED  BY <1>1, <2>1, <2>2
<1> QED  BY <1>1, <1>3, <1>4

LEMMA SpeakClockFacts ==
  ASSUME SceneTypes, NEW i \in DOMAIN speaking, SpeakClock(i)
  PROVE  /\ speaking' \in Seq(Speech)
         /\ \A j \in DOMAIN speaking' :
              \/ speaking'[j].now = clock
              \/ \E k \in DOMAIN speaking : speaking'[j] = speaking[k]
<1>1. /\ speaking \in Seq(Speech) /\ clock \in Nat
      /\ Len(speaking) \in Nat /\ DOMAIN speaking = 1..Len(speaking)
  BY BoardAssumption DEF SceneTypes
<1>2. CASE speaking' = RemoveAt(speaking, i)
  <2>1. i \in 1..Len(speaking)
    BY <1>1
  <2>2. /\ RemoveAt(speaking, i) \in Seq(Speech)
        /\ \A m \in DOMAIN RemoveAt(speaking, i) :
             \E k \in DOMAIN speaking : RemoveAt(speaking, i)[m] = speaking[k]
    BY ONLY <1>1, <2>1, RemoveAtEntries
  <2> QED  BY <1>2, <2>2
<1>3. CASE speaking' = [speaking EXCEPT ![i].at = "panes", ![i].now = clock]
  <2> PICK speech : speech = [speaking[i] EXCEPT !.at = "panes", !.now = clock]
    OBVIOUS
  <2>1. speech \in Speech /\ speech.now = clock
    <3>1. speaking[i] \in Speech
      BY <1>1
    <3> QED  BY <1>1, <3>1 DEF Speech
  <2>2. speaking' = [speaking EXCEPT ![i] = speech]
    BY <1>1, <1>3
  <2>3. speaking' \in Seq(Speech) /\ DOMAIN speaking' = 1..Len(speaking)
    BY <1>1, <2>1, <2>2
  <2>4. \A j \in 1..Len(speaking) : speaking'[j] = IF j = i THEN speech ELSE speaking[j]
    BY <1>1, <2>2
  <2> QED  BY <1>1, <2>1, <2>3, <2>4
<1> QED  BY <1>2, <1>3 DEF SpeakClock

LEMMA SpeakPanesFacts ==
  ASSUME SceneTypes, NEW i \in DOMAIN speaking, SpeakPanes(i)
  PROVE  /\ speaking' \in Seq(Speech)
         /\ \A j \in DOMAIN speaking' : \E k \in DOMAIN speaking : speaking'[j] = speaking[k]
<1>1. /\ speaking \in Seq(Speech)
      /\ Len(speaking) \in Nat /\ DOMAIN speaking = 1..Len(speaking)
  BY DEF SceneTypes
<1>2. i \in 1..Len(speaking)
  BY <1>1
<1>3. /\ RemoveAt(speaking, i) \in Seq(Speech)
      /\ \A m \in DOMAIN RemoveAt(speaking, i) :
           \E k \in DOMAIN speaking : RemoveAt(speaking, i)[m] = speaking[k]
  BY ONLY <1>1, <1>2, RemoveAtEntries
<1>4. speaking' = RemoveAt(speaking, i)
  BY DEF SpeakPanes
<1> QED  BY <1>3, <1>4

-----------------------------------------------------------------------------
(* The order of the answers                                                *)

\* What the board's variables keep through every step.
OrderKept == BoardTypes /\ FloorIsNewest /\ AnswersInOrder

LEMMA OrderQuiet ==
  ASSUME OrderKept, UNCHANGED boardVars
  PROVE  OrderKept'
BY BoardTypesKept DEF OrderKept, FloorIsNewest, AnswersInOrder, boardVars

\* A new call, whatever it adds to the chat, has the floor for itself.
LEMMA OrderAsked ==
  ASSUME OrderKept, NEW who \in Speakers, Asked(who),
         explained' \subseteq Concepts, lastReactMs' \in Nat \cup {None},
         remarks' \in Seq(Remark),
         boardLines' \in Seq([who : Answers \cup {"you"}, call : 1..(Len(calls) + 1)]),
         Ordered(boardLines')
  PROVE  OrderKept'
<1> PICK n : n = Len(calls)
  OBVIOUS
<1>1. /\ calls' \in Seq(Calls) /\ Len(calls') = n + 1 /\ n \in Nat
      /\ DOMAIN calls = 1..n /\ DOMAIN calls' = 1..(n + 1)
      /\ boardStop' = n + 1
      /\ \A d \in 1..n : calls'[d].at = calls[d].at
      /\ \A d \in 1..n : d # boardStop => calls'[d].cut = calls[d].cut
      /\ \A d \in 1..n : d = boardStop => calls'[d].cut # "no"
  BY DEF Asked, Speakers
<1>2. BoardTypes'
  BY <1>1 DEF BoardTypes, Line
<1>3. FloorIsNewest'
  BY <1>1 DEF FloorIsNewest
<1>4. \A d \in 1..n : calls[d].at \in {"asked", "settled"} /\ calls[d].cut = "no" => boardStop = d
  BY <1>1 DEF OrderKept, AnswersInOrder
<1>5. ASSUME NEW d \in 1..(n + 1), calls'[d].at \in {"asked", "settled"}, calls'[d].cut = "no"
      PROVE  boardStop' = d
  <2>1. CASE d = n + 1
    BY <1>1, <2>1
  <2>2. CASE d # n + 1
    <3>1. d \in 1..n
      BY <1>1, <2>2
    <3>2. CASE d = boardStop
      BY <1>1, <1>5, <3>1, <3>2
    <3>3. CASE d # boardStop
      BY <1>1, <1>4, <1>5, <3>1, <3>3
    <3> QED  BY <3>2, <3>3
  <2> QED  BY <2>1, <2>2
<1>6. AnswersInOrder'
  BY <1>1, <1>5 DEF AnswersInOrder, Ordered
<1> QED  BY <1>2, <1>3, <1>6 DEF OrderKept

\* The calls' numbers and the chat, as the lemmas about it want them.
LEMMA ChatTypes ==
  ASSUME OrderKept
  PROVE  /\ calls \in Seq(Calls) /\ Len(calls) \in Nat /\ DOMAIN calls = 1..Len(calls)
         /\ boardLines \in Seq([who : Answers \cup {"you"}, call : 1..Len(calls)])
         /\ \A i \in DOMAIN boardLines : boardLines[i].call \in 1..Len(calls)
         /\ Ordered(boardLines)
<1>1. calls \in Seq(Calls) /\ Len(calls) \in Nat /\ DOMAIN calls = 1..Len(calls)
  BY DEF OrderKept, BoardTypes
<1>2. boardLines \in Seq([who : Answers \cup {"you"}, call : 1..Len(calls)])
  BY <1>1 DEF OrderKept, BoardTypes, Line
<1>3. \A i \in DOMAIN boardLines : boardLines[i].call \in 1..Len(calls)
  <2> DEFINE L == [who : Answers \cup {"you"}, call : 1..Len(calls)]
  <2>1. boardLines \in Seq(L) /\ \A x \in L : x.call \in 1..Len(calls)
    BY <1>2
  <2> HIDE DEF L
  <2> QED  BY <2>1
<1>4. Ordered(boardLines)
  BY DEF OrderKept, AnswersInOrder, Ordered
<1> QED  BY <1>1, <1>2, <1>3, <1>4

LEMMA OrderSpeakPanes ==
  ASSUME OrderKept, SceneTypes, NEW i \in DOMAIN speaking, SpeakPanes(i)
  PROVE  OrderKept'
<1>1. CASE UNCHANGED <<lastReactMs, remarks, calls, boardStop>>
  BY <1>1, OrderQuiet DEF SpeakPanes, boardVars
<1>2. CASE /\ Ask("board", speaking[i].concept) /\ lastReactMs' = speaking[i].now
           /\ remarks' = Append(remarks, [read |-> speaking[i].now, made |-> clock])
  <2>2. speaking[i].concept \in Concepts \cup {None} /\ speaking[i].now \in Nat
    <3>1. speaking[i] \in Speech
      BY DEF SceneTypes
    <3> QED  BY <3>1 DEF Speech
  <2>3. Asked("board") /\ "board" \in Speakers
    BY <1>2, <2>2, AskFacts DEF OrderKept, Speakers
  <2>4. explained' \subseteq Concepts /\ boardLines' = boardLines
    BY DEF OrderKept, BoardTypes, SpeakPanes
  <2>8. remarks' \in Seq(Remark)
    <3>1. clock \in Nat /\ remarks \in Seq(Remark)
      BY BoardAssumption DEF SceneTypes, OrderKept, BoardTypes
    <3>2. [read |-> speaking[i].now, made |-> clock] \in Remark
      BY <2>2, <3>1 DEF Remark
    <3> QED  BY <1>2, <3>1, <3>2
  <2> PICK n, m, who : n = Len(calls) /\ m = n + 1 /\ who = Answers \cup {"you"}
    OBVIOUS
  <2>5. /\ n \in Nat /\ m \in Nat /\ n <= m /\ boardLines \in Seq([who : who, call : 1..n])
        /\ Ordered(boardLines)
    BY ChatTypes
  <2>6. boardLines \in Seq([who : who, call : 1..m])
    BY ONLY <2>5, LinesKept
  <2>7. Ordered(boardLines')
    BY <2>4, <2>5 DEF Ordered
  <2> QED  BY <1>2, <2>2, <2>3, <2>4, <2>6, <2>7, <2>8, OrderAsked
<1> QED  BY <1>1, <1>2 DEF SpeakPanes

LEMMA OrderSubmit ==
  ASSUME OrderKept, Submit
  PROVE  OrderKept'
<1> PICK n, m, who : n = Len(calls) /\ m = n + 1 /\ who = Answers \cup {"you"}
  OBVIOUS
<1> PICK line : line = [who |-> "you", call |-> m]
  OBVIOUS
<1>1. Asked("player")
  <2>1. Ask("player", None) /\ "player" \in Speakers /\ BoardTypes
    BY DEF Submit, Speakers, OrderKept
  <2> QED  BY <2>1, AskFacts
<1>2. /\ n \in Nat /\ m \in Nat /\ n <= m /\ boardLines \in Seq([who : who, call : 1..n])
      /\ \A i \in DOMAIN boardLines : boardLines[i].call \in 1..n
      /\ Ordered(boardLines)
  BY ChatTypes
<1>3. boardLines \in Seq([who : who, call : 1..m])
  BY ONLY <1>2, LinesKept
<1>4. line \in [who : who, call : 1..m] /\ \A i \in DOMAIN boardLines : boardLines[i].call <= line.call
  BY <1>2
<1>5. /\ Append8(boardLines, line) \in Seq([who : who, call : 1..m])
      /\ Ordered(Append8(boardLines, line))
  BY ONLY <1>2, <1>3, <1>4, Append8Ordered
<1>6. boardLines' = Append8(boardLines, line)
  BY DEF Submit
<1>7. boardLines' \in Seq([who : who, call : 1..m]) /\ Ordered(boardLines')
  BY <1>5, <1>6 DEF Ordered
<1>8. /\ explained' \subseteq Concepts /\ lastReactMs' \in Nat \cup {None}
      /\ remarks' \in Seq(Remark) /\ "player" \in Speakers
  BY DEF OrderKept, BoardTypes, Submit, Speakers
<1> QED  BY <1>1, <1>7, <1>8, OrderAsked

\* The floor is given up: nobody who had it can speak any more.
LEMMA OrderLeave ==
  ASSUME OrderKept, LeaveBoard
  PROVE  OrderKept'
<1> PICK n : n = Len(calls)
  OBVIOUS
<1> PICK cs : cs = Cut(boardStop, "left")
  OBVIOUS
<1>1. /\ cs \in Seq(Calls) /\ Len(cs) = n /\ n \in Nat
      /\ DOMAIN calls = 1..n /\ DOMAIN cs = 1..n
      /\ \A d \in 1..n : /\ cs[d].at = calls[d].at
                         /\ cs[d].cut = IF d = boardStop THEN "left" ELSE calls[d].cut
  BY CutFacts DEF OrderKept
<1>2. calls' = cs /\ boardStop' = None /\ UNCHANGED <<explained, boardLines, lastReactMs, remarks>>
  BY DEF LeaveBoard
<1>3. BoardTypes'
  BY <1>1, <1>2 DEF OrderKept, BoardTypes, Line
<1>4. FloorIsNewest'
  BY <1>2 DEF FloorIsNewest
<1>5. \A d \in 1..n : calls[d].at \in {"asked", "settled"} /\ calls[d].cut = "no" => boardStop = d
  BY <1>1 DEF OrderKept, AnswersInOrder
<1>6. \A d \in 1..n : ~(calls'[d].at \in {"asked", "settled"} /\ calls'[d].cut = "no")
  BY <1>1, <1>2, <1>5
<1>7. AnswersInOrder'
  BY <1>1, <1>2, <1>6 DEF OrderKept, AnswersInOrder
<1> QED  BY <1>3, <1>4, <1>7 DEF OrderKept

\* A call goes on and leaves the chat alone; the floor stays, or is given up by the call
\* that had it once it can no longer speak.
LEMMA OrderGoes ==
  ASSUME OrderKept, NEW c \in DOMAIN calls, NEW at, Goes(c, at),
         explained' \subseteq Concepts, lastReactMs' = lastReactMs, remarks' = remarks,
         boardLines' \in Seq([who : Answers \cup {"you"}, call : 1..Len(calls)]),
         Ordered(boardLines'),
         boardStop' = boardStop \/ (boardStop' = None /\ boardStop = c),
         at \in {"asked", "settled"} =>
           calls[c].at \in {"asked", "settled"} /\ boardStop' = boardStop
  PROVE  OrderKept'
<1> PICK n : n = Len(calls)
  OBVIOUS
<1>1. /\ calls' \in Seq(Calls) /\ Len(calls') = n /\ n \in Nat
      /\ DOMAIN calls = 1..n /\ DOMAIN calls' = 1..n
      /\ calls'[c].at = at
      /\ \A d \in 1..n : calls'[d].cut = calls[d].cut
      /\ \A d \in 1..n : d # c => calls'[d].at = calls[d].at
  BY DEF Goes
<1>2. BoardTypes'
  BY <1>1 DEF OrderKept, BoardTypes, Line
<1>3. FloorIsNewest'
  BY <1>1 DEF OrderKept, FloorIsNewest
<1>4. \A d \in 1..n : calls[d].at \in {"asked", "settled"} /\ calls[d].cut = "no" => boardStop = d
  BY <1>1 DEF OrderKept, AnswersInOrder
<1>5. ASSUME NEW d \in 1..n, calls'[d].at \in {"asked", "settled"}, calls'[d].cut = "no"
      PROVE  boardStop' = d
  <2>1. calls[d].at \in {"asked", "settled"} /\ calls[d].cut = "no"
    BY <1>1, <1>5
  <2>2. boardStop = d
    BY <1>4, <2>1
  <2> QED  BY <1>1, <1>5, <2>2
<1>6. AnswersInOrder'
  BY <1>1, <1>5 DEF AnswersInOrder, Ordered
<1> QED  BY <1>2, <1>3, <1>6 DEF OrderKept

LEMMA OrderSettles ==
  ASSUME OrderKept, NEW c \in DOMAIN calls, NEW answer \in Answers, Settles(c, answer)
  PROVE  OrderKept'
<1>1. Goes(c, "settled")
  BY SettlesFacts DEF OrderKept
<1>2. calls[c].at = "asked" /\ UNCHANGED <<explained, boardStop, boardLines, lastReactMs, remarks>>
  BY DEF Settles
<1>3. boardLines' \in Seq([who : Answers \cup {"you"}, call : 1..Len(calls)]) /\ Ordered(boardLines')
  BY <1>2, ChatTypes DEF Ordered
<1>4. explained' \subseteq Concepts
  BY <1>2 DEF OrderKept, BoardTypes
<1> QED  BY <1>1, <1>2, <1>3, <1>4, OrderGoes

LEMMA OrderExplains ==
  ASSUME OrderKept, NEW c \in DOMAIN calls, Explains(c)
  PROVE  OrderKept'
<1>1. Goes(c, "done")
  BY DoneFacts DEF OrderKept, Explains
<1>2. UNCHANGED <<boardStop, boardLines, lastReactMs, remarks>>
  BY DEF Explains
<1>3. boardLines' \in Seq([who : Answers \cup {"you"}, call : 1..Len(calls)]) /\ Ordered(boardLines')
  BY <1>2, ChatTypes DEF Ordered
<1>4. explained' \subseteq Concepts
  <2>1. calls[c] \in Calls
    BY DEF OrderKept, BoardTypes
  <2>2. calls[c].concept \in Concepts
    BY <2>1 DEF Calls, CallRecords, Explains
  <2> QED  BY <2>2 DEF OrderKept, BoardTypes, Explains
<1> QED  BY <1>1, <1>2, <1>3, <1>4, OrderGoes

LEMMA OrderAnswered ==
  ASSUME OrderKept, NEW c \in DOMAIN calls, Answered(c)
  PROVE  OrderKept'
<1> PICK n, who : n = Len(calls) /\ who = Answers \cup {"you"}
  OBVIOUS
<1>1. PICK at \in {"explaining", "done"} : Goes(c, at)
  BY AnsweredFacts DEF OrderKept
<1>2. UNCHANGED <<explained, lastReactMs, remarks>> /\ calls[c].at = "settled"
  BY DEF Answered
<1>3. boardStop' = boardStop \/ (boardStop' = None /\ boardStop = c)
  BY DEF Answered, FloorAfter
<1>4. /\ n \in Nat /\ c \in 1..n /\ calls[c] \in Calls
      /\ boardLines \in Seq([who : who, call : 1..n])
      /\ \A i \in DOMAIN boardLines : boardLines[i].call \in 1..n
      /\ Ordered(boardLines)
  BY ChatTypes
<1>5. boardLines' \in Seq([who : who, call : 1..n]) /\ Ordered(boardLines')
  <2>1. CASE boardLines' = boardLines
    BY <1>4, <2>1 DEF Ordered
  <2>2. CASE /\ calls[c].cut = "no" /\ calls[c].answer # "cut"
             /\ boardLines' = Append8(boardLines, [who |-> calls[c].answer, call |-> c])
    <3> PICK line : line = [who |-> calls[c].answer, call |-> c]
      OBVIOUS
    <3>1. c = n
      <4>1. boardStop = c
        BY <1>2, <2>2 DEF OrderKept, AnswersInOrder
      <4> QED  BY <1>4, <4>1, BoardAssumption DEF OrderKept, FloorIsNewest
    <3>2. calls[c].answer \in who
      BY <1>2, <1>4 DEF Calls, CallRecords
    <3>3. line \in [who : who, call : 1..n]
          /\ \A i \in DOMAIN boardLines : boardLines[i].call <= line.call
      BY <1>4, <3>1, <3>2
    <3>4. /\ Append8(boardLines, line) \in Seq([who : who, call : 1..n])
          /\ Ordered(Append8(boardLines, line))
      BY ONLY <1>4, <3>3, Append8Ordered
    <3> QED  BY <2>2, <3>4 DEF Ordered
  <2> QED  BY <2>1, <2>2 DEF Answered
<1>6. explained' \subseteq Concepts
  BY <1>2 DEF OrderKept, BoardTypes
<1> QED  BY <1>1, <1>2, <1>3, <1>5, <1>6, OrderGoes

-----------------------------------------------------------------------------
(* The board's manners                                                     *)

ReactionsKept == ReactionsAreSpaced /\ UnaskedWaitsItsTurn

\* A step of which the cooldown knows nothing: it makes no unasked call, cuts none in the
\* board's name, and starts no speakUp with a time that has not been.
LEMMA ReactionsUntouched ==
  ASSUME TypeOK, TypeOK', ReactionsKept,
         \A c \in DOMAIN calls' : calls'[c].cut # "board",
         UNCHANGED <<lastReactMs, remarks>>, clock' >= clock,
         \A i \in DOMAIN speaking' :
           \/ speaking'[i].now <= clock
           \/ \E k \in DOMAIN speaking : speaking'[i] = speaking[k]
  PROVE  ReactionsKept'
<1>1. clock \in Nat /\ clock' \in Nat /\ lastReactMs \in Nat \cup {None}
  BY BoardAssumption DEF TypeOK
<1>2. \A i \in DOMAIN speaking' : speaking'[i].now <= clock'
  <2>1. \A k \in DOMAIN speaking : speaking[k].now <= clock /\ speaking[k].now \in Nat
    <3>1. \A k \in DOMAIN speaking : speaking[k] \in Speech
      BY TypeParts DEF SceneTypes
    <3> QED  BY <3>1 DEF Speech, ReactionsKept, ReactionsAreSpaced
  <2>2. \A i \in DOMAIN speaking' : speaking'[i].now \in Nat
    <3>1. \A i \in DOMAIN speaking' : speaking'[i] \in Speech
      BY TypePartsNext DEF SceneTypes
    <3> QED  BY <3>1 DEF Speech
  <2> QED  BY <1>1, <2>1, <2>2
<1>3. lastReactMs # None => lastReactMs <= clock'
  BY <1>1 DEF ReactionsKept, ReactionsAreSpaced
<1>4. ReactionsAreSpaced'
  BY <1>2, <1>3 DEF ReactionsKept, ReactionsAreSpaced
<1>5. UnaskedWaitsItsTurn'
  BY DEF ReactionsKept, UnaskedWaitsItsTurn
<1> QED  BY <1>4, <1>5 DEF ReactionsKept

\* A call of the player's cuts the older one in the player's name.
LEMMA ReactionsSubmit ==
  ASSUME TypeOK, TypeOK', ReactionsKept, Submit
  PROVE  ReactionsKept'
<1> PICK n : n = Len(calls)
  OBVIOUS
<1>1. BoardTypes /\ SceneTypes
  BY TypeParts
<1>2. Asked("player")
  BY <1>1, AskFacts DEF Submit, Speakers
<1>3. /\ n \in Nat /\ DOMAIN calls = 1..n /\ DOMAIN calls' = 1..(n + 1)
      /\ calls'[n + 1].cut = "no"
      /\ \A d \in 1..n : calls'[d].cut \in {"player", calls[d].cut}
  BY <1>2 DEF Asked
<1>4. \A d \in DOMAIN calls' : calls'[d].cut # "board"
  <2>1. \A d \in 1..n : calls[d].cut # "board"
    BY <1>3 DEF ReactionsKept, UnaskedWaitsItsTurn
  <2>2. \A d \in 1..(n + 1) : d \in 1..n \/ d = n + 1
    BY <1>3
  <2> QED  BY <1>3, <2>1, <2>2
<1>5. UNCHANGED <<clock, lastReactMs, remarks, speaking>> /\ clock \in Nat
  BY <1>1, BoardAssumption DEF Submit, NoRecord, SceneTypes
<1> QED  BY <1>4, <1>5, ReactionsUntouched

\* Leaving cuts a call in the player's name.
LEMMA ReactionsLeave ==
  ASSUME TypeOK, TypeOK', ReactionsKept, LeaveBoard
  PROVE  ReactionsKept'
<1> PICK cs : cs = Cut(boardStop, "left")
  OBVIOUS
<1>1. BoardTypes /\ SceneTypes
  BY TypeParts
<1>2. /\ DOMAIN cs = DOMAIN calls /\ DOMAIN calls = 1..Len(calls)
      /\ \A d \in 1..Len(calls) : cs[d].cut = IF d = boardStop THEN "left" ELSE calls[d].cut
  BY <1>1, CutFacts
<1>3. calls' = cs /\ UNCHANGED <<lastReactMs, remarks, clock, speaking>> /\ clock \in Nat
  BY <1>1, BoardAssumption DEF LeaveBoard, NoRecord, SceneTypes
<1>4. \A c \in DOMAIN calls' : calls'[c].cut # "board"
  BY <1>2, <1>3 DEF ReactionsKept, UnaskedWaitsItsTurn
<1> QED  BY <1>3, <1>4, ReactionsUntouched

\* A call that goes on keeps who cut it.
LEMMA ReactionsGoes ==
  ASSUME TypeOK, TypeOK', ReactionsKept, NEW c, NEW at, Goes(c, at),
         UNCHANGED <<lastReactMs, remarks, clock, speaking>>
  PROVE  ReactionsKept'
<1>1. \A d \in DOMAIN calls' : calls'[d].cut # "board"
  BY DEF Goes, ReactionsKept, UnaskedWaitsItsTurn
<1>2. clock \in Nat
  BY BoardAssumption DEF TypeOK
<1> QED  BY <1>1, <1>2, ReactionsUntouched

\* The board speaks unasked: nobody has the floor, and the last time is a cooldown ago.
LEMMA ReactionsSpeakPanes ==
  ASSUME TypeOK, TypeOK', ReactionsKept, NEW i \in DOMAIN speaking, SpeakPanes(i)
  PROVE  ReactionsKept'
<1> PICK n, now : n = Len(calls) /\ now = speaking[i].now
  OBVIOUS
<1> PICK new : new = [read |-> now, made |-> clock]
  OBVIOUS
<1>1. BoardTypes /\ SceneTypes
  BY TypeParts
<1>2. now \in Nat /\ now <= clock /\ clock \in Nat /\ speaking[i].concept \in Concepts \cup {None}
  <2>1. speaking[i] \in Speech
    BY <1>1 DEF SceneTypes
  <2> QED  BY <1>1, <2>1, BoardAssumption DEF Speech, SceneTypes, ReactionsKept, ReactionsAreSpaced
<1>3. clock' = clock
  BY DEF SpeakPanes
<1>4. /\ speaking' \in Seq(Speech)
      /\ \A j \in DOMAIN speaking' : \E k \in DOMAIN speaking : speaking'[j] = speaking[k]
  BY <1>1, SpeakPanesFacts
<1>5. CASE UNCHANGED <<lastReactMs, remarks, calls, boardStop>>
  <2>1. clock' >= clock
    BY <1>2, <1>3
  <2>2. \A c \in DOMAIN calls' : calls'[c].cut # "board"
    BY <1>5 DEF ReactionsKept, UnaskedWaitsItsTurn
  <2> QED  BY <1>4, <1>5, <2>1, <2>2, ReactionsUntouched
<1>6. CASE /\ StillQuiet(now)
           /\ lastReactMs' = now
           /\ remarks' = Append(remarks, new)
           /\ Ask("board", speaking[i].concept)
  <2>1. Asked("board")
    BY <1>1, <1>2, <1>6, AskFacts DEF Speakers
  <2>2. boardStop = None /\ CanReact(now)
    BY <1>6 DEF StillQuiet
  <2>3. \A d \in DOMAIN calls' : calls'[d].cut # "board"
    <3>1. /\ n \in Nat /\ DOMAIN calls = 1..n /\ DOMAIN calls' = 1..(n + 1)
          /\ calls'[n + 1].cut = "no"
          /\ \A d \in 1..n : d # boardStop => calls'[d].cut = calls[d].cut
      BY <2>1 DEF Asked
    <3>2. \A d \in 1..n : d # boardStop /\ calls[d].cut # "board"
      BY <2>2, <3>1, BoardAssumption DEF ReactionsKept, UnaskedWaitsItsTurn
    <3>3. \A d \in 1..(n + 1) : d \in 1..n \/ d = n + 1
      BY <3>1
    <3> QED  BY <3>1, <3>2, <3>3
  <2>4. /\ Len(remarks) \in Nat /\ DOMAIN remarks = 1..Len(remarks)
        /\ DOMAIN remarks' = 1..(Len(remarks) + 1)
        /\ \A j \in 1..Len(remarks) : remarks'[j] = remarks[j] /\ remarks[j] \in Remark
        /\ remarks'[Len(remarks) + 1] = new
    BY <1>1, <1>6 DEF BoardTypes
  \* The readings of the calls before are a cooldown behind this one's.
  <2>5. \A j \in 1..Len(remarks) : /\ remarks[j].read \in Nat /\ remarks[j].made \in Nat
                                   /\ remarks[j].read + Cooldown <= now
                                   /\ remarks[j].read <= remarks[j].made
    <3> SUFFICES ASSUME NEW j \in 1..Len(remarks)
                 PROVE  /\ remarks[j].read \in Nat /\ remarks[j].made \in Nat
                        /\ remarks[j].read + Cooldown <= now
                        /\ remarks[j].read <= remarks[j].made
      OBVIOUS
    <3>1. remarks[j].read \in Nat /\ remarks[j].made \in Nat
      BY <2>4 DEF Remark
    <3>2. lastReactMs # None
      BY <2>4 DEF ReactionsKept, ReactionsAreSpaced
    <3>3. lastReactMs \in Nat /\ now >= lastReactMs + Cooldown
      BY <1>1, <2>2, <3>2 DEF BoardTypes, CanReact
    <3>4. remarks[j].read <= lastReactMs /\ remarks[j].read <= remarks[j].made
      BY <2>4 DEF ReactionsKept, ReactionsAreSpaced
    <3> QED  BY <1>2, <3>1, <3>3, <3>4, CooldownIsPositive
  <2>6. ReactionsAreSpaced'
    <3>1. \A j \in DOMAIN speaking' : speaking'[j].now <= clock'
      BY <1>3, <1>4 DEF ReactionsKept, ReactionsAreSpaced
    <3>2. lastReactMs' # None /\ lastReactMs' <= clock'
      BY <1>2, <1>3, <1>6, BoardAssumption
    <3>3. ASSUME NEW j \in DOMAIN remarks'
          PROVE  remarks'[j].read <= lastReactMs' /\ remarks'[j].read <= remarks'[j].made
      <4>1. CASE j = Len(remarks) + 1
        BY <1>2, <1>6, <2>4, <4>1
      <4>2. CASE j # Len(remarks) + 1
        <5>1. j \in 1..Len(remarks)
          BY <2>4, <4>2
        <5> QED  BY <1>2, <1>6, <2>4, <2>5, <5>1, CooldownIsPositive
      <4> QED  BY <4>1, <4>2
    <3> QED  BY <3>1, <3>2, <3>3 DEF ReactionsAreSpaced
  <2>7. UnaskedWaitsItsTurn'
    <3>1. ASSUME NEW j \in DOMAIN remarks', NEW k \in DOMAIN remarks', j < k
          PROVE  /\ remarks'[k].read >= remarks'[j].read + Cooldown
                 /\ remarks'[k].made + (remarks'[j].made - remarks'[j].read)
                      >= remarks'[j].made + Cooldown
      <4>1. j \in 1..Len(remarks)
        BY <2>4, <3>1
      <4>2. CASE k = Len(remarks) + 1
        BY <1>2, <2>4, <2>5, <4>1, <4>2, CooldownIsPositive
      <4>3. CASE k # Len(remarks) + 1
        <5>1. k \in 1..Len(remarks)
          BY <2>4, <4>3
        <5> QED  BY <2>4, <3>1, <4>1, <5>1 DEF ReactionsKept, UnaskedWaitsItsTurn
      <4> QED  BY <4>2, <4>3
    <3> QED  BY <2>3, <3>1 DEF UnaskedWaitsItsTurn
  <2> QED  BY <2>6, <2>7 DEF ReactionsKept
<1>7. UNCHANGED <<lastReactMs, remarks, calls, boardStop>>
      \/ (/\ StillQuiet(now)
          /\ lastReactMs' = now
          /\ remarks' = Append(remarks, new)
          /\ Ask("board", speaking[i].concept))
  BY DEF SpeakPanes
<1> QED  BY <1>5, <1>6, <1>7

-----------------------------------------------------------------------------
(* The banner                                                              *)

\* The tool calls that will take down a banner that says why.
WillClear(ts, t, why) ==
  \/ ts[t].at = "clearing"
  \/ ts[t].at \in {"prompted", "returned"} /\ (why = "permission" \/ ts[t].isMain)
  \/ ts[t].at = "running" /\ ts[t].isMain /\ why = "question"

Cause(ts, why) == why \in {"permission", "question"} => \E t \in Tools : WillClear(ts, t, why)

LEMMA BannerHasCauseIs ==
  BannerHasCause <=> (~interrupted => Cause(tools, needsYou))
BY DEF BannerHasCause, Cause, WillClear

LEMMA BannerHasCauseIsNext ==
  BannerHasCause' <=> (~interrupted' => Cause(tools', needsYou'))
BY DEF BannerHasCause, Cause, WillClear

\* A step of one tool call that keeps the banner keeps a cause for it, if the call itself
\* goes on to take the banner down whenever it would have.
LEMMA CauseKept ==
  ASSUME NEW ts \in [Tools -> ToolStates], NEW t \in Tools, NEW x \in ToolStates,
         NEW why, Cause(ts, why),
         why \in {"permission", "question"} /\ WillClear(ts, t, why) =>
           WillClear([ts EXCEPT ![t] = x], t, why)
  PROVE  Cause([ts EXCEPT ![t] = x], why)
<1> PICK us : us = [ts EXCEPT ![t] = x]
  OBVIOUS
<1>1. \A u \in Tools : u # t => us[u] = ts[u]
  OBVIOUS
<1>2. \A u \in Tools : u # t /\ WillClear(ts, u, why) => WillClear(us, u, why)
  BY <1>1 DEF WillClear
<1> QED  BY <1>2 DEF Cause

LEMMA ToolBanner ==
  ASSUME TypeOK, BannerHasCause, NEW t \in Tools, ToolStep(t)
  PROVE  BannerHasCause'
<1>1. tools \in [Tools -> ToolStates] /\ tools[t] \in ToolStates /\ needsYou \in Reasons
  BY DEF TypeOK
<1>2. ~interrupted => Cause(tools, needsYou)
  BY BannerHasCauseIs
<1>3. ASSUME NEW isMain \in BOOLEAN, NEW isQuestion \in BOOLEAN, ToolCall(t, isMain, isQuestion)
      PROVE  BannerHasCause'
  <2> PICK x : x = [at |-> "running", isMain |-> isMain]
    OBVIOUS
  <2>1. /\ x \in ToolStates /\ tools[t].at = "idle" /\ interrupted' = interrupted
        /\ tools' = [tools EXCEPT ![t] = x]
        /\ needsYou' = IF isMain /\ isQuestion THEN "question" ELSE needsYou
    BY <1>3 DEF ToolCall, ToolStates
  <2>2. CASE isMain /\ isQuestion
    <3>1. WillClear(tools', t, "question")
      BY <1>1, <2>1, <2>2 DEF WillClear
    <3> QED  BY <2>1, <2>2, <3>1, BannerHasCauseIsNext DEF Cause
  <2>3. CASE ~(isMain /\ isQuestion)
    <3>1. ~WillClear(tools, t, needsYou)
      BY <2>1 DEF WillClear
    <3>2. ~interrupted => Cause([tools EXCEPT ![t] = x], needsYou)
      BY <1>1, <1>2, <2>1, <3>1, CauseKept
    <3> QED  BY <2>1, <2>3, <3>2, BannerHasCauseIsNext
  <2> QED  BY <2>2, <2>3
<1>4. CASE ToolCheckAsks(t)
  <2>1. WillClear(tools', t, "permission") /\ needsYou' = "permission"
    BY <1>1, <1>4 DEF ToolCheckAsks, WillClear
  <2> QED  BY <2>1, BannerHasCauseIsNext DEF Cause
<1>5. CASE ToolReturns(t)
  <2> PICK x : x = [tools[t] EXCEPT !.at = "returned"]
    OBVIOUS
  <2>1. /\ x \in ToolStates /\ x.at = "returned" /\ x.isMain = tools[t].isMain
        /\ tools[t].at \in {"running", "prompted"}
        /\ tools' = [tools EXCEPT ![t] = x]
        /\ needsYou' = needsYou /\ interrupted' = interrupted
    BY <1>1, <1>5 DEF ToolReturns, ToolStates
  <2>2. needsYou \in {"permission", "question"} /\ WillClear(tools, t, needsYou) =>
          WillClear([tools EXCEPT ![t] = x], t, needsYou)
    BY <1>1, <2>1 DEF WillClear
  <2>3. ~interrupted => Cause([tools EXCEPT ![t] = x], needsYou)
    BY <1>1, <1>2, <2>1, <2>2, CauseKept
  <2> QED  BY <2>1, <2>3, BannerHasCauseIsNext
<1>6. CASE ToolThrows(t)
  BY <1>6 DEF ToolThrows, BannerHasCause
<1>7. CASE ToolReadsBanner(t)
  <2> PICK x : x = IF TakesDown(tools[t].isMain, needsYou)
                   THEN [tools[t] EXCEPT !.at = "clearing", !.isMain = TRUE]
                   ELSE Idle
    OBVIOUS
  <2>1. /\ x \in ToolStates /\ tools[t].at = "returned"
        /\ TakesDown(tools[t].isMain, needsYou) => x.at = "clearing"
        /\ tools' = [tools EXCEPT ![t] = x]
        /\ needsYou' = needsYou /\ interrupted' = interrupted
    BY <1>1, <1>7 DEF ToolReadsBanner, ToolStates, Idle
  <2>2. needsYou \in {"permission", "question"} /\ WillClear(tools, t, needsYou) =>
          WillClear([tools EXCEPT ![t] = x], t, needsYou)
    BY <1>1, <2>1 DEF WillClear, TakesDown
  <2>3. ~interrupted => Cause([tools EXCEPT ![t] = x], needsYou)
    BY <1>1, <1>2, <2>1, <2>2, CauseKept
  <2> QED  BY <2>1, <2>3, BannerHasCauseIsNext
<1>8. CASE ToolClearsBanner(t)
  BY <1>8 DEF ToolClearsBanner, BannerHasCause
<1> QED  BY <1>3, <1>4, <1>5, <1>6, <1>7, <1>8 DEF ToolStep

-----------------------------------------------------------------------------
(* Every step                                                              *)

LEMMA ToolScene ==
  ASSUME SceneTypes, NEW t \in Tools, ToolStep(t)
  PROVE  SceneTypes' /\ UNCHANGED boardVars
<1>1. tools \in [Tools -> ToolStates] /\ tools[t] \in ToolStates
  BY DEF SceneTypes
<1>2. PICK x : /\ tools' = [tools EXCEPT ![t] = x]
               /\ x \in ToolStates
  <2>1. ASSUME NEW isMain \in BOOLEAN, NEW isQuestion \in BOOLEAN, ToolCall(t, isMain, isQuestion)
        PROVE  \E x \in ToolStates : tools' = [tools EXCEPT ![t] = x]
    BY <2>1 DEF ToolCall, ToolStates
  <2>2. CASE ToolCheckAsks(t)
    <3>1. [tools[t] EXCEPT !.at = "prompted"] \in ToolStates
      BY <1>1 DEF ToolStates
    <3> QED  BY <1>1, <2>2, <3>1 DEF ToolCheckAsks
  <2>3. CASE ToolReturns(t)
    <3>1. [tools[t] EXCEPT !.at = "returned"] \in ToolStates
      BY <1>1 DEF ToolStates
    <3> QED  BY <1>1, <2>3, <3>1 DEF ToolReturns
  <2>4. CASE ToolThrows(t) \/ ToolClearsBanner(t)
    <3>1. Idle \in ToolStates
      BY DEF ToolStates, Idle
    <3> QED  BY <2>4, <3>1 DEF ToolThrows, ToolClearsBanner
  <2>5. CASE ToolReadsBanner(t)
    <3>1. [tools[t] EXCEPT !.at = "clearing", !.isMain = TRUE] \in ToolStates /\ Idle \in ToolStates
      BY <1>1 DEF ToolStates, Idle
    <3> QED  BY <1>1, <2>5, <3>1 DEF ToolReadsBanner
  <2> QED  BY <2>1, <2>2, <2>3, <2>4, <2>5 DEF ToolStep
<1>3. tools' \in [Tools -> ToolStates]
  BY <1>1, <1>2
<1>4. Record \/ NoRecord
  BY DEF ToolStep, ToolCall, ToolCheckAsks, ToolReturns, ToolThrows, ToolReadsBanner, ToolClearsBanner
<1>5. met' \subseteq Concepts /\ speaking' \in Seq(Speech)
  BY <1>4, RecordFacts DEF SceneTypes, NoRecord
<1>6. inputs' = inputs \/ inputs' = inputs + 1
  BY DEF ToolStep, ToolCall, ToolCheckAsks, ToolReturns, ToolThrows, ToolReadsBanner,
         ToolClearsBanner, Input
<1>7. needsYou' \in Reasons /\ interrupted' \in BOOLEAN
  BY DEF SceneTypes, Reasons, ToolStep, ToolCall, ToolCheckAsks, ToolReturns, ToolThrows,
         ToolReadsBanner, ToolClearsBanner
<1>8. UNCHANGED <<clock, screen, onboarded>> /\ UNCHANGED boardVars
  BY DEF ToolStep, ToolCall, ToolCheckAsks, ToolReturns, ToolThrows, ToolReadsBanner, ToolClearsBanner
<1>9. inputs' \in Nat
  BY <1>6 DEF SceneTypes
<1> QED  BY <1>3, <1>5, <1>7, <1>8, <1>9 DEF SceneTypes

LEMMA SceneStep ==
  ASSUME TypeOK, [Next]_vars
  PROVE  SceneTypes'
<1>1. SceneTypes
  BY TypeParts
<1>2. CASE TurnStart \/ Telemetry \/ TurnComplete \/ Act
  <2>1. Record /\ inputs' = inputs + 1
    BY <1>2 DEF TurnStart, Telemetry, TurnComplete, Act, Input
  <2>2. met' \subseteq Concepts /\ speaking' \in Seq(Speech)
    BY <1>1, <2>1, RecordFacts
  <2>3. screen' \in Screens /\ needsYou' \in Reasons /\ interrupted' \in BOOLEAN
    BY <1>1, <1>2 DEF TurnStart, Telemetry, TurnComplete, Act, SceneTypes, Screens, Reasons
  <2>4. UNCHANGED <<clock, onboarded, tools>>
    BY <1>2 DEF TurnStart, Telemetry, TurnComplete, Act
  <2> QED  BY <1>1, <2>1, <2>2, <2>3, <2>4 DEF SceneTypes
<1>3. ASSUME NEW t \in Tools, ToolStep(t)
      PROVE  SceneTypes'
  BY <1>1, <1>3, ToolScene
<1>4. CASE Buttons /\ ~Act
  <2>1. UNCHANGED <<clock, needsYou, tools, interrupted, met, speaking>> /\ inputs' = inputs + 1
    BY <1>4 DEF Buttons, Shows, HelpDone, Submit, LeaveBoard, Input, NoRecord
  <2>2. screen' \in Screens /\ onboarded' \in BOOLEAN
    BY <1>1, <1>4 DEF Buttons, Shows, HelpDone, Submit, LeaveBoard, SceneTypes, Screens
  <2> QED  BY <1>1, <2>1, <2>2 DEF SceneTypes
<1>5. CASE BoardStep
  <2>1. UNCHANGED <<clock, screen, onboarded, needsYou, tools, met, inputs, interrupted>>
    BY <1>5 DEF BoardStep, Settles, Answered, Explains, SpeakClock, SpeakPanes
  <2>2. speaking' \in Seq(Speech)
    <3>1. CASE speaking' = speaking
      BY <1>1, <3>1 DEF SceneTypes
    <3>2. CASE \E i \in DOMAIN speaking : SpeakClock(i) \/ SpeakPanes(i)
      BY <1>1, <3>2, SpeakClockFacts, SpeakPanesFacts
    <3> QED  BY <1>5, <3>1, <3>2 DEF BoardStep, Settles, Answered, Explains
  <2> QED  BY <1>1, <2>1, <2>2 DEF SceneTypes
<1>6. CASE Tick
  <2>1. clock' \in 0..MaxClock
    BY <1>1, <1>6, BoardAssumption DEF Tick, SceneTypes
  <2> QED  BY <1>1, <1>6, <2>1 DEF Tick, SceneTypes
<1>7. CASE UNCHANGED vars
  BY <1>1, <1>7 DEF vars, SceneTypes
<1> QED  BY <1>2, <1>3, <1>4, <1>5, <1>6, <1>7 DEF Next, Buttons

LEMMA OrderStep ==
  ASSUME TypeOK, OrderKept, [Next]_vars
  PROVE  OrderKept'
<1>1. SceneTypes
  BY TypeParts
<1>2. CASE UNCHANGED boardVars
  BY <1>2, OrderQuiet
<1>3. CASE TurnStart \/ Telemetry \/ TurnComplete \/ Act \/ HelpDone \/ Tick \/ UNCHANGED vars
  BY <1>3, <1>2 DEF TurnStart, Telemetry, TurnComplete, Act, HelpDone, Tick, vars, boardVars
<1>4. ASSUME NEW t \in Tools, ToolStep(t)
      PROVE  OrderKept'
  BY <1>1, <1>2, <1>4, ToolScene
<1>5. ASSUME NEW from, NEW to, Shows(from, to)
      PROVE  OrderKept'
  BY <1>2, <1>5 DEF Shows
<1>6. ASSUME BoardStep
      PROVE  OrderKept'
  <2>1. ASSUME NEW i \in DOMAIN speaking, SpeakClock(i)
        PROVE  OrderKept'
    BY <1>2, <2>1 DEF SpeakClock, boardVars
  <2> QED  BY <1>1, <1>6, <2>1, OrderSettles, OrderAnswered, OrderExplains, OrderSpeakPanes DEF BoardStep
<1> QED  BY <1>3, <1>4, <1>5, <1>6, OrderSubmit, OrderLeave DEF Next, Buttons

LEMMA ReactionsStep ==
  ASSUME TypeOK, TypeOK', ReactionsKept, [Next]_vars
  PROVE  ReactionsKept'
<1>1. SceneTypes /\ BoardTypes /\ clock \in Nat /\ clock >= 0
  BY TypeParts, BoardAssumption DEF SceneTypes
\* Steps that leave the board's variables alone, whatever they record.
<1>2. CASE /\ UNCHANGED boardVars /\ clock' >= clock
           /\ Record \/ UNCHANGED speaking
  <2>1. UNCHANGED <<lastReactMs, remarks>>
    BY <1>2 DEF boardVars
  <2>2. \A c \in DOMAIN calls' : calls'[c].cut # "board"
    BY <1>2 DEF boardVars, ReactionsKept, UnaskedWaitsItsTurn
  <2>3. \A i \in DOMAIN speaking' :
          \/ speaking'[i].now <= clock
          \/ \E k \in DOMAIN speaking : speaking'[i] = speaking[k]
    <3>1. CASE Record
      BY <1>1, <3>1, RecordFacts
    <3>2. CASE UNCHANGED speaking
      BY <3>2
    <3> QED  BY <1>2, <3>1, <3>2
  <2> QED  BY <1>2, <2>1, <2>2, <2>3, ReactionsUntouched
<1>3. CASE TurnStart \/ Telemetry \/ TurnComplete \/ Act \/ HelpDone \/ Tick \/ UNCHANGED vars
  <2>1. UNCHANGED boardVars /\ (Record \/ UNCHANGED speaking)
    BY <1>3 DEF TurnStart, Telemetry, TurnComplete, Act, HelpDone, Tick, vars, boardVars, NoRecord
  <2>2. clock' = clock \/ clock' = clock + 1
    BY <1>3 DEF TurnStart, Telemetry, TurnComplete, Act, HelpDone, Tick, vars
  <2>3. clock' >= clock
    BY <1>1, <2>2
  <2> QED  BY <1>2, <2>1, <2>3
<1>4. ASSUME NEW t \in Tools, ToolStep(t)
      PROVE  ReactionsKept'
  <2>1. UNCHANGED boardVars
    BY <1>1, <1>4, ToolScene
  <2>2. (Record \/ UNCHANGED speaking) /\ clock' = clock
    BY <1>4 DEF ToolStep, ToolCall, ToolCheckAsks, ToolReturns, ToolThrows, ToolReadsBanner,
                ToolClearsBanner, NoRecord
  <2> QED  BY <1>1, <1>2, <2>1, <2>2
<1>5. ASSUME NEW from, NEW to, Shows(from, to)
      PROVE  ReactionsKept'
  <2>1. UNCHANGED boardVars /\ UNCHANGED speaking /\ clock' = clock
    BY <1>5 DEF Shows, NoRecord
  <2> QED  BY <1>1, <1>2, <2>1
<1>6. CASE BoardStep
  <2>1. ASSUME NEW c \in DOMAIN calls,
               Answered(c) \/ Explains(c) \/ \E answer \in Answers : Settles(c, answer)
        PROVE  ReactionsKept'
    <3>1. \E at : Goes(c, at)
      BY <1>1, <2>1, AnsweredFacts, DoneFacts, SettlesFacts DEF Explains
    <3>2. UNCHANGED <<lastReactMs, remarks, clock, speaking>>
      BY <2>1 DEF Answered, Explains, Settles
    <3> QED  BY <3>1, <3>2, ReactionsGoes
  <2>2. ASSUME NEW i \in DOMAIN speaking, SpeakClock(i)
        PROVE  ReactionsKept'
    <3>1. UNCHANGED <<lastReactMs, remarks>> /\ clock' >= clock
      BY <1>1, <2>2 DEF SpeakClock
    <3>2. \A c \in DOMAIN calls' : calls'[c].cut # "board"
      BY <2>2 DEF SpeakClock, ReactionsKept, UnaskedWaitsItsTurn
    <3>3. \A j \in DOMAIN speaking' :
            \/ speaking'[j].now <= clock
            \/ \E k \in DOMAIN speaking : speaking'[j] = speaking[k]
      BY <1>1, <2>2, SpeakClockFacts
    <3> QED  BY <3>1, <3>2, <3>3, ReactionsUntouched
  <2> QED  BY <1>6, <2>1, <2>2, ReactionsSpeakPanes DEF BoardStep
<1> QED  BY <1>3, <1>4, <1>5, <1>6, ReactionsSubmit, ReactionsLeave DEF Next, Buttons

LEMMA BannerStep ==
  ASSUME TypeOK, BannerHasCause, [Next]_vars
  PROVE  BannerHasCause'
<1>1. CASE TurnStart \/ TurnComplete
  BY <1>1 DEF TurnStart, TurnComplete, BannerHasCause
<1>2. CASE UNCHANGED <<tools, needsYou, interrupted>>
  BY <1>2 DEF BannerHasCause
<1>3. CASE Telemetry \/ Tick \/ UNCHANGED vars \/ Buttons \/ BoardStep
  <2>1. UNCHANGED <<tools, needsYou, interrupted>>
    BY <1>3 DEF Telemetry, Tick, vars, Buttons, Shows, HelpDone, Act, Submit, LeaveBoard,
                BoardStep, Settles, Answered, Explains, SpeakClock, SpeakPanes
  <2> QED  BY <1>2, <2>1
<1> QED  BY <1>1, <1>3, ToolBanner DEF Next

-----------------------------------------------------------------------------
(* The theorems                                                            *)

BoardInvariant == TypeOK /\ BoardInv

LEMMA InvParts ==
  BoardInvariant <=> TypeOK /\ OrderKept /\ ReactionsKept /\ BannerHasCause
BY TypeParts DEF BoardInvariant, BoardInv, OrderKept, ReactionsKept

LEMMA InitInv == Init => BoardInvariant
<1> SUFFICES ASSUME Init
             PROVE  BoardInvariant
  OBVIOUS
<1>1. calls = << >> /\ boardLines = << >> /\ speaking = << >> /\ remarks = << >>
  BY DEF Init
<1>2. DOMAIN calls = {} /\ DOMAIN boardLines = {} /\ DOMAIN speaking = {} /\ DOMAIN remarks = {}
  BY <1>1
<1>3. TypeOK
  <2>1. /\ calls \in Seq(Calls) /\ boardLines \in Seq(Line) /\ speaking \in Seq(Speech)
        /\ remarks \in Seq(Remark)
    BY <1>1
  <2>2. tools \in [Tools -> ToolStates]
    BY DEF Init, Idle, ToolStates
  <2>3. clock \in 0..MaxClock /\ inputs \in Nat
    <3>1. clock = 0 /\ inputs = 0
      BY DEF Init
    <3> QED  BY <3>1, BoardAssumption
  <2>4. screen \in Screens /\ needsYou \in Reasons
    BY DEF Init, Screens, Reasons
  <2> QED  BY <2>1, <2>2, <2>3, <2>4, TypeParts DEF SceneTypes, BoardTypes, Init
<1>4. FloorIsNewest /\ ReactionsAreSpaced /\ BannerHasCause /\ AnswersInOrder
  BY <1>2 DEF FloorIsNewest, ReactionsAreSpaced, BannerHasCause, AnswersInOrder, Init
<1>5. UnaskedWaitsItsTurn
  BY <1>2 DEF UnaskedWaitsItsTurn
<1> QED  BY <1>3, <1>4, <1>5 DEF BoardInvariant, BoardInv

LEMMA NextInv == BoardInvariant /\ [Next]_vars => BoardInvariant'
<1> SUFFICES ASSUME BoardInvariant, [Next]_vars
             PROVE  BoardInvariant'
  OBVIOUS
<1>1. TypeOK /\ OrderKept /\ ReactionsKept /\ BannerHasCause
  BY InvParts
<1>2. OrderKept' /\ SceneTypes'
  BY <1>1, OrderStep, SceneStep
<1>3. TypeOK'
  BY <1>2, TypePartsNext DEF OrderKept
<1>4. ReactionsKept' /\ BannerHasCause'
  BY <1>1, <1>3, ReactionsStep, BannerStep
<1> QED  BY <1>2, <1>3, <1>4 DEF BoardInvariant, BoardInv, OrderKept, ReactionsKept

\* The invariant of a session of the mod: types, and what keeps its promises.
THEOREM BoardInvariantHolds == Spec => []BoardInvariant
<1> QED  BY InitInv, NextInv, PTL DEF Spec

\* Every variable of the mod's session keeps its type: the floor is held by a call that
\* was made, and each line of the chat belongs to one (register.tsx, askBoard).
THEOREM BoardTypeCorrect == Spec => []TypeOK
<1>1. BoardInvariant => TypeOK
  BY DEF BoardInvariant
<1> QED  BY <1>1, BoardInvariantHolds, PTL

\* However calls are made, cut and answered, only the newest can still speak, and the chat
\* is in the order of the questions.
THEOREM AnswersStayInOrder == Spec => []AnswersInOrder
<1>1. BoardInvariant => AnswersInOrder
  BY DEF BoardInvariant, BoardInv
<1> QED  BY <1>1, BoardInvariantHolds, PTL

\* However many inputs arrive while speakUp awaits the clock and the panes, the readings of
\* the clock that the board's unasked calls were decided by are a cooldown apart, the calls
\* themselves short of one by no more than the earlier waited, and they cut nobody.
THEOREM BoardWaitsItsTurn == Spec => []UnaskedWaitsItsTurn
<1>1. BoardInvariant => UnaskedWaitsItsTurn
  BY DEF BoardInvariant, BoardInv
<1> QED  BY <1>1, BoardInvariantHolds, PTL

\* However many tool calls overlap, the banner does not outlive them.
THEOREM BannerAlwaysEnds == Spec => []BannerEnds
<1>1. BoardInvariant => BannerEnds
  <2> SUFFICES ASSUME BoardInvariant, \A t \in Tools : tools[t].at = "idle", ~interrupted
               PROVE  needsYou \notin {"permission", "question"}
    BY DEF BannerEnds
  <2>1. ~\E t \in Tools : tools[t].at \in {"running", "prompted", "returned", "clearing"}
    OBVIOUS
  <2> QED  BY <2>1 DEF BoardInvariant, BoardInv, BannerHasCause
<1> QED  BY <1>1, BoardInvariantHolds, PTL

(***************************************************************************)
(* GameSync                                                                *)
(***************************************************************************)

USE SyncAssumption

-----------------------------------------------------------------------------
(* Games as sequences of inputs                                            *)

LEMMA ConcatIsGame ==
  ASSUME NEW a \in Games, NEW b \in Games
  PROVE  a \o b \in Games
BY DEF Games

LEMMA InputsOfConcat ==
  ASSUME NEW a \in Games, NEW b \in Games
  PROVE  InputsOf(a \o b) = InputsOf(a) \cup InputsOf(b)
<1>1. \A i \in 1..Len(a) : (a \o b)[i] = a[i]  BY DEF Games
<1>2. \A i \in 1..Len(b) : (a \o b)[Len(a) + i] = b[i]  BY DEF Games
<1>3. Len(a \o b) = Len(a) + Len(b) /\ Len(a) \in Nat /\ Len(b) \in Nat  BY DEF Games
<1>4. \A i \in 1..Len(a \o b) : i \in 1..Len(a) \/ (i - Len(a) \in 1..Len(b) /\ i = Len(a) + (i - Len(a)))
  BY <1>3
<1>5. InputsOf(a \o b) \subseteq InputsOf(a) \cup InputsOf(b)
  BY <1>1, <1>2, <1>4 DEF InputsOf
<1>6. \A i \in 1..Len(a) : i \in 1..Len(a \o b)  BY <1>3
<1>7. \A i \in 1..Len(b) : Len(a) + i \in 1..Len(a \o b)  BY <1>3
<1>8. InputsOf(a) \subseteq InputsOf(a \o b)  BY <1>1, <1>6 DEF InputsOf
<1>9. InputsOf(b) \subseteq InputsOf(a \o b)  BY <1>2, <1>7 DEF InputsOf
<1> QED  BY <1>5, <1>8, <1>9

LEMMA Remainder ==
  ASSUME NEW q \in Games, NEW n \in Nat
  PROVE  SubSeq(q, n + 1, Len(q)) \in Games
BY DEF Games

LEMMA RemainderFacts ==
  ASSUME NEW q \in Games, NEW n \in 0..Len(q)
  PROVE  /\ Len(SubSeq(q, n + 1, Len(q))) = Len(q) - n
         /\ \A k \in 1..Len(SubSeq(q, n + 1, Len(q))) : SubSeq(q, n + 1, Len(q))[k] = q[n + k]
<1> DEFINE rest == SubSeq(q, n + 1, Len(q))
<1>1. Len(q) \in Nat /\ \A i \in 1..Len(q) : q[i] \in Inputs  BY DEF Games
<1>2. Len(rest) = Len(q) - n /\ \A k \in 1..(Len(q) - n) : rest[k] = q[n + k]  BY <1>1
<1> HIDE DEF rest
<1>3. Len(rest) = Len(q) - n /\ \A k \in 1..Len(rest) : rest[k] = q[n + k]  BY <1>2
<1> QED  BY <1>3 DEF rest

\* Cutting a queue in two loses none of its inputs.
LEMMA InputsOfCut ==
  ASSUME NEW q \in Games, NEW n \in 0..Len(q)
  PROVE  InputsOf(q) \subseteq InputsOf(SubSeq(q, 1, n)) \cup InputsOf(SubSeq(q, n + 1, Len(q)))
<1> DEFINE front == SubSeq(q, 1, n)
           back == SubSeq(q, n + 1, Len(q))
<1>1. Len(q) \in Nat /\ \A i \in 1..Len(q) : q[i] \in Inputs  BY DEF Games
<1>2. Len(front) = n /\ \A i \in 1..n : front[i] = q[i]  BY <1>1
<1>3. Len(back) = Len(q) - n /\ \A i \in 1..(Len(q) - n) : back[i] = q[n + i]  BY <1>1
<1>4. ASSUME NEW i \in 1..Len(q) PROVE q[i] \in InputsOf(front) \cup InputsOf(back)
  <2>1. CASE i <= n
    <3>1. i \in 1..Len(front) /\ front[i] = q[i]  BY <1>1, <1>2, <2>1
    <3> QED  BY <3>1 DEF InputsOf
  <2>2. CASE i > n
    <3>1. i - n \in 1..Len(back) /\ back[i - n] = q[i]  BY <1>1, <1>3, <2>2
    <3> QED  BY <3>1 DEF InputsOf
  <2> QED  BY <1>1, <2>1, <2>2
<1> QED  BY <1>4 DEF InputsOf

\* Pushing an input leaves a batch at the front of the queue as it is.
LEMMA FrontOfAppend ==
  ASSUME NEW q \in Games, NEW input \in Inputs, NEW n \in Nat, n <= Len(q)
  PROVE  SubSeq(Append(q, input), 1, n) = SubSeq(q, 1, n)
<1>1. Append(q, input) \in Games  BY DEF Games
<1>2. \A i \in 1..n : Append(q, input)[i] = q[i]  BY DEF Games
<1> QED  BY <1>1, <1>2 DEF Games

LEMMA WholeIsFront ==
  ASSUME NEW q \in Games
  PROVE  SubSeq(q, 1, Len(q)) = q
BY DEF Games

\* Pushing on a view is pushing on its queue.
LEMMA AppendToQueue ==
  ASSUME NEW a \in Games, NEW q \in Games, NEW input \in Inputs
  PROVE  Append(a \o q, input) = a \o Append(q, input)
BY DEF Games

-----------------------------------------------------------------------------
(* Type correctness                                                        *)

LEMMA RebaseType ==
  ASSUME SyncTypeOK, NEW w \in Writers, NEW record \in Records, NEW queued \in Games,
         Rebase(w, record, queued)
  PROVE  base' \in [Writers -> Games] /\ baseStamp' \in [Writers -> Stamps]
         /\ view' \in [Writers -> Games]
<1>1. record.game \in Games /\ record.stamp \in Stamps  BY DEF Records
<1>2. record.game \o queued \in Games  BY <1>1, ConcatIsGame
<1> QED  BY <1>1, <1>2 DEF SyncTypeOK, Rebase

LEMMA EndJobType ==
  ASSUME SyncTypeOK, NEW w \in Writers, chain[w] # <<>>, EndJob(w)
  PROVE  /\ chain' \in [Writers -> Seq(Jobs)] /\ step' \in [Writers -> Steps]
         /\ batch' \in [Writers -> Nat] /\ next' \in [Writers -> Records]
         /\ readStamp' \in [Writers -> Stamps]
<1>1. Tail(chain[w]) \in Seq(Jobs)  BY DEF SyncTypeOK
<1>2. NothingStored \in Records /\ <<>> \in Stamps
  BY EmptySeq DEF NothingStored, InitialGame, Records, Stamps, Games
<1> QED  BY <1>1, <1>2 DEF SyncTypeOK, EndJob, Steps

LEMMA SerialType ==
  ASSUME SyncTypeOK, NEW w \in Writers, NEW job \in Jobs, Serial(w, job)
  PROVE  chain' \in [Writers -> Seq(Jobs)]
BY DEF SyncTypeOK, Serial

LEMMA TypeStep ==
  ASSUME SyncTypeOK, WorkHasJob, [SyncNext]_syncVars
  PROVE  SyncTypeOK' /\ WorkHasJob'
<1>1. ASSUME NEW w \in Writers, Push(w) PROVE SyncTypeOK' /\ WorkHasJob'
  <2>1. <<w, pushes[w] + 1>> \in Inputs  BY DEF SyncTypeOK, Inputs
  <2>2. view' \in [Writers -> Games] /\ pending' \in [Writers -> Games]
    BY <1>1, <2>1 DEF Push, SyncTypeOK, Games
  <2>3. pushes' \in [Writers -> Nat]  BY <1>1 DEF Push, SyncTypeOK
  <2> QED  BY <1>1, <2>2, <2>3 DEF Push, SyncTypeOK, WorkHasJob, jobVars
<1>2. ASSUME NEW w \in Writers, Flush(w) \/ Refresh(w) PROVE SyncTypeOK' /\ WorkHasJob'
  <2>1. PICK job \in Jobs : Serial(w, job)  BY <1>2 DEF Flush, Refresh, Jobs
  <2>2. chain' \in [Writers -> Seq(Jobs)]  BY <2>1, SerialType
  <2>3. UNCHANGED <<store, economyVars, step, batch, next, readStamp, historyVars>>
    BY <1>2 DEF Flush, Refresh
  <2>4. SyncTypeOK'  BY <2>2, <2>3 DEF SyncTypeOK, economyVars, historyVars
  <2>5. ASSUME NEW v \in Writers, step[v] # "idle" PROVE chain'[v] # <<>>
    <3>1. chain[v] # <<>>  BY <2>5 DEF WorkHasJob
    <3>2. chain[w] \in Seq(Jobs)  BY DEF SyncTypeOK
    <3>3. Append(chain[w], job) # <<>>  BY <3>2, AppendProperties
    <3> QED  BY <2>1, <3>1, <3>3 DEF Serial, SyncTypeOK
  <2> QED  BY <2>3, <2>4, <2>5 DEF WorkHasJob
<1>3. ASSUME NEW w \in Writers, RunRefresh(w) PROVE SyncTypeOK' /\ WorkHasJob'
  <2>1. chain[w] # <<>> /\ EndJob(w)  BY <1>3 DEF RunRefresh
  <2>2. base' \in [Writers -> Games] /\ baseStamp' \in [Writers -> Stamps] /\ view' \in [Writers -> Games]
    <3>1. CASE Rebase(w, store, pending[w])
      <4>1. store \in Records /\ pending[w] \in Games  BY DEF SyncTypeOK
      <4> QED  BY <3>1, <4>1, RebaseType
    <3>2. CASE UNCHANGED <<base, baseStamp, view>>  BY <3>2 DEF SyncTypeOK
    <3> QED  BY <1>3, <3>1, <3>2 DEF RunRefresh
  <2>3. UNCHANGED <<store, pending, historyVars>>  BY <1>3 DEF RunRefresh
  <2>4. SyncTypeOK'  BY <2>1, <2>2, <2>3, EndJobType DEF SyncTypeOK, historyVars
  <2>5. WorkHasJob'  BY <2>1 DEF EndJob, WorkHasJob, SyncTypeOK
  <2> QED  BY <2>4, <2>5
<1>4. ASSUME NEW w \in Writers, SkipFlush(w) PROVE SyncTypeOK' /\ WorkHasJob'
  <2>1. chain[w] # <<>> /\ EndJob(w)  BY <1>4 DEF SkipFlush
  <2>2. UNCHANGED <<store, economyVars, historyVars>>  BY <1>4 DEF SkipFlush
  <2>3. SyncTypeOK'  BY <2>1, <2>2, EndJobType DEF SyncTypeOK, historyVars, economyVars
  <2>4. WorkHasJob'  BY <2>1 DEF EndJob, WorkHasJob, SyncTypeOK
  <2> QED  BY <2>3, <2>4
<1>5. ASSUME NEW w \in Writers, ReadAndReplay(w) PROVE SyncTypeOK' /\ WorkHasJob'
  <2> DEFINE game == IF store.stamp = <<>> THEN base[w] ELSE store.game
             record == [stamp |-> Stamp(w), game |-> game \o pending[w]]
  <2>1. game \in Games /\ pending[w] \in Games /\ store.stamp \in Stamps  BY DEF SyncTypeOK, Records
  <2>2. game \o pending[w] \in Games  BY <2>1, ConcatIsGame
  <2>3. Stamp(w) \in Stamps  BY DEF Stamp, Stamps, SyncTypeOK
  <2>4. record \in Records  BY <2>2, <2>3 DEF Records
  <2>5. next' = [next EXCEPT ![w] = record]  BY <1>5 DEF ReadAndReplay
  <2>6. next' \in [Writers -> Records]
    <3> HIDE DEF record
    <3> QED  BY <2>4, <2>5 DEF SyncTypeOK
  <2>7. batch' \in [Writers -> Nat]  BY <1>5, <2>1, LenProperties DEF ReadAndReplay, SyncTypeOK, Games
  <2>8. readStamp' \in [Writers -> Stamps]  BY <1>5, <2>1 DEF ReadAndReplay, SyncTypeOK
  <2>9. writes' \in [Writers -> Nat] /\ step' \in [Writers -> Steps]
    BY <1>5 DEF ReadAndReplay, SyncTypeOK, Steps
  <2>10. SyncTypeOK'  BY <1>5, <2>6, <2>7, <2>8, <2>9 DEF ReadAndReplay, SyncTypeOK, economyVars
  <2>11. WorkHasJob'  BY <1>5 DEF ReadAndReplay, WorkHasJob, SyncTypeOK
  <2> QED  BY <2>10, <2>11
<1>6. ASSUME NEW w \in Writers, Land(w) PROVE SyncTypeOK' /\ WorkHasJob'
  <2>1. store' \in Records /\ step' \in [Writers -> Steps]  BY <1>6 DEF Land, SyncTypeOK, Steps
  <2>2. InputsOf(store.game) \subseteq Inputs  BY DEF InputsOf, SyncTypeOK, Records, Games
  <2>3. gone' \subseteq Inputs  BY <1>6, <2>2 DEF Land, SyncTypeOK
  <2>4. SyncTypeOK'  BY <1>6, <2>1, <2>3 DEF Land, SyncTypeOK, economyVars
  <2>5. WorkHasJob'  BY <1>6 DEF Land, WorkHasJob, SyncTypeOK
  <2> QED  BY <2>4, <2>5
<1>7. ASSUME NEW w \in Writers, Finish(w) PROVE SyncTypeOK' /\ WorkHasJob'
  <2> DEFINE queued == SubSeq(pending[w], batch[w] + 1, Len(pending[w]))
  <2>1. chain[w] # <<>> /\ EndJob(w)  BY <1>7 DEF Finish, WorkHasJob
  <2>2. pending[w] \in Games /\ batch[w] \in Nat /\ next[w] \in Records  BY DEF SyncTypeOK
  <2>3. queued \in Games  BY <2>2, Remainder
  <2>4. pending' = [pending EXCEPT ![w] = queued] /\ Rebase(w, next[w], queued)  BY <1>7 DEF Finish
  <2> HIDE DEF queued
  <2>5. base' \in [Writers -> Games] /\ baseStamp' \in [Writers -> Stamps] /\ view' \in [Writers -> Games]
    BY <2>2, <2>3, <2>4, RebaseType
  <2>6. pending' \in [Writers -> Games]  BY <2>3, <2>4 DEF SyncTypeOK
  <2>7. UNCHANGED <<store, historyVars>>  BY <1>7 DEF Finish
  <2>8. SyncTypeOK'  BY <2>1, <2>5, <2>6, <2>7, EndJobType DEF SyncTypeOK, historyVars
  <2>9. WorkHasJob'  BY <2>1 DEF EndJob, WorkHasJob, SyncTypeOK
  <2> QED  BY <2>8, <2>9
<1>8. ASSUME NEW w \in Writers, Reject(w) PROVE SyncTypeOK' /\ WorkHasJob'
  <2>1. chain[w] # <<>> /\ EndJob(w)  BY <1>8 DEF Reject, WorkHasJob
  <2>2. upsets' \in 0..MaxUpsets /\ ambiguous' \subseteq Writers  BY <1>8 DEF Reject, SyncTypeOK
  <2>3. UNCHANGED <<store, economyVars, pushes, writes, gone>>  BY <1>8 DEF Reject
  <2>4. SyncTypeOK'  BY <2>1, <2>2, <2>3, EndJobType DEF SyncTypeOK, economyVars
  <2>5. WorkHasJob'  BY <2>1 DEF EndJob, WorkHasJob, SyncTypeOK
  <2> QED  BY <2>4, <2>5
<1>9. ASSUME NEW w \in Writers, Exit(w) PROVE SyncTypeOK' /\ WorkHasJob'
  <2>1. <<>> \in Games /\ <<>> \in Stamps /\ NothingStored \in Records /\ <<"refresh">> \in Seq(Jobs)
    BY DEF Games, Stamps, NothingStored, InitialGame, Records, Jobs
  <2>2. InputsOf(pending[w]) \subseteq Inputs  BY DEF InputsOf, SyncTypeOK, Games
  <2>3. gone' \subseteq Inputs /\ upsets' \in 0..MaxUpsets  BY <1>9, <2>2 DEF Exit, SyncTypeOK
  <2>4. /\ base' \in [Writers -> Games] /\ view' \in [Writers -> Games]
        /\ pending' \in [Writers -> Games] /\ baseStamp' \in [Writers -> Stamps]
    BY <1>9, <2>1 DEF Exit, SyncTypeOK, InitialGame
  <2>5. chain' \in [Writers -> Seq(Jobs)]  BY <1>9, <2>1 DEF Exit, SyncTypeOK
  <2>6. /\ step' \in [Writers -> Steps] /\ batch' \in [Writers -> Nat]
        /\ next' \in [Writers -> Records] /\ readStamp' \in [Writers -> Stamps]
    BY <1>9, <2>1 DEF Exit, SyncTypeOK, Steps
  <2>7. SyncTypeOK'  BY <1>9, <2>3, <2>4, <2>5, <2>6 DEF Exit, SyncTypeOK
  <2>8. WorkHasJob'  BY <1>9 DEF Exit, WorkHasJob, SyncTypeOK
  <2> QED  BY <2>7, <2>8
<1>10. CASE UNCHANGED syncVars
  BY <1>10 DEF syncVars, economyVars, jobVars, historyVars, SyncTypeOK, WorkHasJob
<1> QED
  BY <1>1, <1>2, <1>3, <1>4, <1>5, <1>6, <1>7, <1>8, <1>9, <1>10 DEF SyncNext, Work

(***************************************************************************)
(* Every reachable state is well typed.                                    *)
(***************************************************************************)
THEOREM SyncTypeCorrect == SyncSpec => [](SyncTypeOK /\ WorkHasJob)
<1>1. SyncInit => SyncTypeOK /\ WorkHasJob
  <2> SUFFICES ASSUME SyncInit PROVE SyncTypeOK /\ WorkHasJob
    OBVIOUS
  <2>1. <<>> \in Games /\ <<>> \in Stamps /\ NothingStored \in Records /\ <<"refresh">> \in Seq(Jobs)
    BY DEF Games, Stamps, NothingStored, InitialGame, Records, Jobs
  <2>2. SyncTypeOK  BY <2>1 DEF SyncInit, SyncTypeOK, InitialGame, Steps
  <2>3. WorkHasJob  BY DEF SyncInit, WorkHasJob
  <2> QED  BY <2>2, <2>3
<1>2. SyncTypeOK /\ WorkHasJob /\ [SyncNext]_syncVars => (SyncTypeOK /\ WorkHasJob)'
  BY TypeStep
<1> QED  BY <1>1, <1>2, PTL DEF SyncSpec

-----------------------------------------------------------------------------
(* What a session shows                                                    *)

LEMMA ViewStep ==
  ASSUME SyncTypeOK, ViewIsBasePlusQueue, [SyncNext]_syncVars
  PROVE  ViewIsBasePlusQueue'
<1>1. ASSUME NEW w \in Writers, Push(w) PROVE ViewIsBasePlusQueue'
  <2> DEFINE input == <<w, pushes[w] + 1>>
  <2>1. input \in Inputs /\ base[w] \in Games /\ pending[w] \in Games  BY DEF SyncTypeOK, Inputs
  <2>2. Append(base[w] \o pending[w], input) = base[w] \o Append(pending[w], input)
    BY <2>1, AppendToQueue
  <2>3. view[w] = base[w] \o pending[w]  BY DEF ViewIsBasePlusQueue
  <2>4. /\ view' = [view EXCEPT ![w] = Append(view[w], input)]
        /\ pending' = [pending EXCEPT ![w] = Append(pending[w], input)]
        /\ base' = base
    BY <1>1 DEF Push
  <2> HIDE DEF input
  <2>5. view'[w] = base'[w] \o pending'[w]  BY <2>2, <2>3, <2>4 DEF SyncTypeOK
  <2>6. \A v \in Writers \ {w} : view'[v] = base'[v] \o pending'[v]
    BY <2>4 DEF SyncTypeOK, ViewIsBasePlusQueue
  <2> QED  BY <2>5, <2>6 DEF ViewIsBasePlusQueue
<1>2. ASSUME NEW w \in Writers, NEW record \in Records, NEW queued \in Games,
             Rebase(w, record, queued),
             pending' = [pending EXCEPT ![w] = queued]
      PROVE  ViewIsBasePlusQueue'
  <2>1. view'[w] = base'[w] \o pending'[w]  BY <1>2 DEF SyncTypeOK, Rebase
  <2>2. \A v \in Writers \ {w} : view'[v] = base'[v] \o pending'[v]
    BY <1>2 DEF SyncTypeOK, Rebase, ViewIsBasePlusQueue
  <2> QED  BY <2>1, <2>2 DEF ViewIsBasePlusQueue
<1>3. CASE UNCHANGED <<base, view, pending>>  BY <1>3 DEF ViewIsBasePlusQueue
<1>4. ASSUME NEW w \in Writers, RunRefresh(w) PROVE ViewIsBasePlusQueue'
  <2>1. CASE Rebase(w, store, pending[w])
    <3>1. store \in Records /\ pending[w] \in Games  BY DEF SyncTypeOK
    <3>2. pending' = [pending EXCEPT ![w] = pending[w]]  BY <1>4 DEF RunRefresh, SyncTypeOK
    <3> QED  BY <1>2, <2>1, <3>1, <3>2
  <2>2. CASE UNCHANGED <<base, baseStamp, view>>  BY <1>3, <1>4, <2>2 DEF RunRefresh
  <2> QED  BY <1>4, <2>1, <2>2 DEF RunRefresh
<1>5. ASSUME NEW w \in Writers, Finish(w) PROVE ViewIsBasePlusQueue'
  <2> DEFINE queued == SubSeq(pending[w], batch[w] + 1, Len(pending[w]))
  <2>1. next[w] \in Records /\ pending[w] \in Games /\ batch[w] \in Nat  BY DEF SyncTypeOK
  <2>2. queued \in Games  BY <2>1, Remainder
  <2>3. pending' = [pending EXCEPT ![w] = queued] /\ Rebase(w, next[w], queued)
    BY <1>5 DEF Finish
  <2> HIDE DEF queued
  <2> QED  BY <1>2, <2>1, <2>2, <2>3
<1>6. ASSUME NEW w \in Writers, Exit(w) PROVE ViewIsBasePlusQueue'
  <2>1. base'[w] = <<>> /\ pending'[w] = <<>> /\ view'[w] = <<>>
    BY <1>6 DEF Exit, SyncTypeOK, InitialGame
  <2>2. view'[w] = base'[w] \o pending'[w]  BY <2>1
  <2>3. \A v \in Writers \ {w} : view'[v] = base'[v] \o pending'[v]
    BY <1>6 DEF Exit, SyncTypeOK, ViewIsBasePlusQueue
  <2> QED  BY <2>2, <2>3 DEF ViewIsBasePlusQueue
<1>7. ASSUME NEW w \in Writers,
             Flush(w) \/ Refresh(w) \/ SkipFlush(w) \/ ReadAndReplay(w) \/ Land(w) \/ Reject(w)
      PROVE  ViewIsBasePlusQueue'
  <2>1. UNCHANGED <<base, view, pending>>
    BY <1>7 DEF Flush, Refresh, SkipFlush, ReadAndReplay, Land, Reject, economyVars
  <2> QED  BY <1>3, <2>1
<1>8. CASE UNCHANGED syncVars  BY <1>3, <1>8 DEF syncVars, economyVars
<1> QED  BY <1>1, <1>4, <1>5, <1>6, <1>7, <1>8 DEF SyncNext, Work

(***************************************************************************)
(* The economy a session shows is the game it last synced with its queue   *)
(* on top, whatever was pushed while a flush was in flight.                *)
(***************************************************************************)
THEOREM ViewIsSynced == SyncSpec => []ViewIsBasePlusQueue
<1>1. SyncInit => ViewIsBasePlusQueue
  BY EmptySeq DEF SyncInit, ViewIsBasePlusQueue, InitialGame
<1>2. SyncTypeOK /\ ViewIsBasePlusQueue /\ [SyncNext]_syncVars => ViewIsBasePlusQueue'
  BY ViewStep
<1> QED  BY <1>1, <1>2, SyncTypeCorrect, PTL DEF SyncSpec

-----------------------------------------------------------------------------
(* What a write loses                                                      *)

\* A stamp once settled stays so.
LEMMA SettledGrows ==
  ASSUME SyncTypeOK, WorkHasJob, [SyncNext]_syncVars
  PROVE  SettledStamps \subseteq SettledStamps'
<1>1. \A w \in Writers : LastSettled(w) <= LastSettled(w)'
  <2>1. CASE UNCHANGED <<step, writes>>  BY <2>1 DEF LastSettled, SyncTypeOK
  <2>2. ASSUME NEW v \in Writers, ReadAndReplay(v) PROVE \A w \in Writers : LastSettled(w) <= LastSettled(w)'
    BY <2>2 DEF ReadAndReplay, LastSettled, SyncTypeOK
  <2>3. ASSUME NEW v \in Writers, UNCHANGED writes, step' = [step EXCEPT ![v] = "idle"]
                                                    \/ step' = [step EXCEPT ![v] = "landed"]
        PROVE \A w \in Writers : LastSettled(w) <= LastSettled(w)'
    BY <2>3 DEF LastSettled, SyncTypeOK
  <2>4. ASSUME NEW v \in Writers, RunRefresh(v) \/ SkipFlush(v) \/ Land(v) \/ Finish(v) \/ Reject(v) \/ Exit(v)
        PROVE \A w \in Writers : LastSettled(w) <= LastSettled(w)'
    BY <2>3, <2>4 DEF RunRefresh, SkipFlush, Land, Finish, Reject, Exit, EndJob, historyVars
  <2>5. ASSUME NEW v \in Writers, Push(v) \/ Flush(v) \/ Refresh(v)
        PROVE \A w \in Writers : LastSettled(w) <= LastSettled(w)'
    BY <2>1, <2>5 DEF Push, Flush, Refresh, jobVars, historyVars
  <2>6. CASE UNCHANGED syncVars  BY <2>1, <2>6 DEF syncVars, jobVars, historyVars
  <2> QED  BY <2>2, <2>4, <2>5, <2>6 DEF SyncNext, Work
<1>2. \A w \in Writers : LastSettled(w) \in Int /\ LastSettled(w)' \in Int
  <2>1. SyncTypeOK'  BY TypeStep
  <2> QED  BY <2>1 DEF LastSettled, SyncTypeOK
<1>3. ASSUME NEW s \in SettledStamps, s # <<>> PROVE s \in SettledStamps'
  <2>1. s \in Writers \X Nat /\ s[2] <= LastSettled(s[1])  BY <1>3 DEF SettledStamps
  <2>2. s[1] \in Writers /\ s[2] \in Nat  BY <2>1
  <2>3. s[2] <= LastSettled(s[1])'  BY <1>1, <1>2, <2>1, <2>2
  <2> QED  BY <2>1, <2>3 DEF SettledStamps
<1>4. <<>> \in SettledStamps'  BY DEF SettledStamps
<1> QED  BY <1>3, <1>4

LEMMA FreshStep ==
  ASSUME SyncTypeOK, WorkHasJob, StampsAreFresh, [SyncNext]_syncVars
  PROVE  StampsAreFresh'
<1>1. SettledStamps \subseteq SettledStamps'  BY SettledGrows
<1>2. <<>> \in SettledStamps'  BY DEF SettledStamps
<1>3. store.stamp \in SettledStamps' /\ \A w \in Writers : readStamp[w] \in SettledStamps'
  BY <1>1 DEF StampsAreFresh
<1> DEFINE Reads == \A w \in Writers : readStamp'[w] \in SettledStamps'
           Flights == \A w \in Writers :
                        step'[w] # "idle" => writes'[w] > 0 /\ next'[w].stamp = <<w, writes'[w]>>
<1>4. CASE UNCHANGED <<store, readStamp, step, writes, next>>
  BY <1>3, <1>4 DEF StampsAreFresh
<1>5. ASSUME NEW v \in Writers, EndJob(v), UNCHANGED <<store, writes>> PROVE StampsAreFresh'
  <2>1. Reads  BY <1>2, <1>3, <1>5 DEF EndJob, SyncTypeOK
  <2>2. Flights  BY <1>5 DEF EndJob, SyncTypeOK, StampsAreFresh
  <2> QED  BY <1>3, <1>5, <2>1, <2>2 DEF StampsAreFresh
<1>6. ASSUME NEW v \in Writers, RunRefresh(v) \/ SkipFlush(v) \/ Finish(v) \/ Reject(v) PROVE StampsAreFresh'
  <2>1. EndJob(v) /\ UNCHANGED <<store, writes>>
    BY <1>6 DEF RunRefresh, SkipFlush, Finish, Reject, historyVars
  <2> QED  BY <1>5, <2>1
<1>7. ASSUME NEW v \in Writers, Push(v) \/ Flush(v) \/ Refresh(v) PROVE StampsAreFresh'
  <2>1. UNCHANGED <<store, readStamp, step, writes, next>>
    BY <1>7 DEF Push, Flush, Refresh, jobVars, historyVars
  <2> QED  BY <1>4, <2>1
<1>8. ASSUME NEW v \in Writers, ReadAndReplay(v) PROVE StampsAreFresh'
  <2> DEFINE record == [stamp |-> Stamp(v),
                        game |-> (IF store.stamp = <<>> THEN base[v] ELSE store.game) \o pending[v]]
  <2>1. readStamp' = [readStamp EXCEPT ![v] = store.stamp] /\ store' = store
    BY <1>8 DEF ReadAndReplay
  <2>2. next' = [next EXCEPT ![v] = record] /\ record.stamp = <<v, writes[v] + 1>>
    BY <1>8 DEF ReadAndReplay, Stamp
  <2>3. step' = [step EXCEPT ![v] = "writing"] /\ writes' = [writes EXCEPT ![v] = writes[v] + 1]
    BY <1>8 DEF ReadAndReplay
  <2> HIDE DEF record
  <2>4. Reads  BY <1>3, <2>1 DEF SyncTypeOK
  <2>5. Flights  BY <2>2, <2>3 DEF SyncTypeOK, StampsAreFresh
  <2> QED  BY <1>3, <2>1, <2>4, <2>5 DEF StampsAreFresh
<1>9. ASSUME NEW v \in Writers, Land(v) PROVE StampsAreFresh'
  <2>1. store' = next[v] /\ step' = [step EXCEPT ![v] = "landed"] /\ step[v] = "writing"
    BY <1>9 DEF Land
  <2>2. UNCHANGED <<readStamp, writes, next>>  BY <1>9 DEF Land
  <2>3. next[v].stamp = <<v, writes[v]>>  BY <2>1 DEF StampsAreFresh
  <2>4. LastSettled(v)' = writes[v]  BY <2>1, <2>2 DEF LastSettled, SyncTypeOK
  <2>5. store'.stamp \in SettledStamps'  BY <2>1, <2>3, <2>4 DEF SettledStamps, SyncTypeOK
  <2>6. Reads  BY <1>3, <2>2
  <2>7. Flights  BY <2>1, <2>2 DEF SyncTypeOK, StampsAreFresh
  <2> QED  BY <2>5, <2>6, <2>7 DEF StampsAreFresh
<1>10. ASSUME NEW v \in Writers, Exit(v) PROVE StampsAreFresh'
  <2>1. /\ readStamp' = [readStamp EXCEPT ![v] = <<>>] /\ step' = [step EXCEPT ![v] = "idle"]
        /\ next' = [next EXCEPT ![v] = NothingStored] /\ UNCHANGED <<store, writes>>
    BY <1>10 DEF Exit
  <2>2. Reads  BY <1>2, <1>3, <2>1 DEF SyncTypeOK
  <2>3. Flights  BY <2>1 DEF SyncTypeOK, StampsAreFresh
  <2> QED  BY <1>3, <2>1, <2>2, <2>3 DEF StampsAreFresh
<1>11. CASE UNCHANGED syncVars  BY <1>4, <1>11 DEF syncVars, jobVars, historyVars
<1> QED  BY <1>6, <1>7, <1>8, <1>9, <1>10, <1>11 DEF SyncNext, Work

LEMMA KeptStep ==
  ASSUME SyncTypeOK, StampsAreFresh, ReadIsKept, [SyncNext]_syncVars
  PROVE  ReadIsKept'
<1> DEFINE Kept(w) == step[w] = "writing" /\ readStamp[w] = store.stamp
                        => InputsOf(store.game) \subseteq InputsOf(next[w].game)
<1>1. CASE UNCHANGED <<store, step, readStamp, next>>  BY <1>1 DEF ReadIsKept
<1>2. ASSUME NEW v \in Writers, UNCHANGED store,
             step' = [step EXCEPT ![v] = "idle"], readStamp' = [readStamp EXCEPT ![v] = <<>>],
             next' = [next EXCEPT ![v] = NothingStored]
      PROVE  ReadIsKept'
  <2>1. \A w \in Writers : Kept(w)'  BY <1>2 DEF SyncTypeOK, ReadIsKept
  <2> QED  BY <1>2, <2>1 DEF ReadIsKept
<1>3. ASSUME NEW v \in Writers,
             RunRefresh(v) \/ SkipFlush(v) \/ Finish(v) \/ Reject(v) \/ Exit(v)
      PROVE  ReadIsKept'
  BY <1>2, <1>3 DEF RunRefresh, SkipFlush, Finish, Reject, Exit, EndJob
<1>4. ASSUME NEW v \in Writers, Push(v) \/ Flush(v) \/ Refresh(v) PROVE ReadIsKept'
  BY <1>1, <1>4 DEF Push, Flush, Refresh, jobVars
<1>5. ASSUME NEW v \in Writers, ReadAndReplay(v) PROVE ReadIsKept'
  <2> DEFINE game == IF store.stamp = <<>> THEN base[v] ELSE store.game
             record == [stamp |-> Stamp(v), game |-> game \o pending[v]]
  <2>1. /\ readStamp' = [readStamp EXCEPT ![v] = store.stamp] /\ store' = store
        /\ next' = [next EXCEPT ![v] = record] /\ step' = [step EXCEPT ![v] = "writing"]
    BY <1>5 DEF ReadAndReplay
  <2>2. game \in Games /\ pending[v] \in Games  BY DEF SyncTypeOK, Records
  <2>3. InputsOf(store.game) \subseteq InputsOf(game)
    <3>1. CASE store.stamp = <<>>
      <4>1. store.game = <<>>  BY <3>1 DEF ReadIsKept, InitialGame
      <4> QED  BY <4>1 DEF InputsOf
    <3> QED  BY <3>1
  <2>4. record.game = game \o pending[v]  OBVIOUS
  <2>5. InputsOf(store.game) \subseteq InputsOf(record.game)
    <3> HIDE DEF game
    <3> QED  BY <2>2, <2>3, <2>4, InputsOfConcat
  <2> HIDE DEF record, game
  <2>6. Kept(v)'  BY <2>1, <2>5 DEF SyncTypeOK
  <2>7. \A w \in Writers \ {v} : Kept(w)'  BY <2>1 DEF SyncTypeOK, ReadIsKept
  <2> QED  BY <2>1, <2>6, <2>7 DEF ReadIsKept
<1>6. ASSUME NEW v \in Writers, Land(v) PROVE ReadIsKept'
  <2>1. store' = next[v] /\ step' = [step EXCEPT ![v] = "landed"] /\ step[v] = "writing"
    BY <1>6 DEF Land
  <2>2. readStamp' = readStamp /\ next' = next  BY <1>6 DEF Land
  <2>3. store'.stamp = <<v, writes[v]>>  BY <2>1 DEF StampsAreFresh
  <2>4. <<v, writes[v]>> \notin SettledStamps
    <3>1. LastSettled(v) = writes[v] - 1 /\ writes[v] \in Nat  BY <2>1 DEF LastSettled, SyncTypeOK
    <3> QED  BY <3>1 DEF SettledStamps
  <2>5. ASSUME NEW w \in Writers PROVE ~(step'[w] = "writing" /\ readStamp'[w] = store'.stamp)
    BY <2>2, <2>3, <2>4 DEF StampsAreFresh
  <2>6. store'.stamp # <<>>  BY <2>3
  <2> QED  BY <2>5, <2>6 DEF ReadIsKept
<1>7. CASE UNCHANGED syncVars  BY <1>1, <1>7 DEF syncVars, jobVars
<1> QED  BY <1>3, <1>4, <1>5, <1>6, <1>7 DEF SyncNext, Work

THEOREM ReadsAreKept == SyncSpec => [](StampsAreFresh /\ ReadIsKept)
<1>1. SyncInit => StampsAreFresh /\ ReadIsKept
  BY DEF SyncInit, StampsAreFresh, ReadIsKept, SettledStamps, NothingStored, InitialGame
<1>2. SyncTypeOK /\ WorkHasJob /\ (StampsAreFresh /\ ReadIsKept) /\ [SyncNext]_syncVars
        => (StampsAreFresh /\ ReadIsKept)'
  BY FreshStep, KeptStep
<1> QED  BY <1>1, <1>2, SyncTypeCorrect, PTL DEF SyncSpec

(***************************************************************************)
(* A write takes an input out of the store only if somebody else has       *)
(* written since the flush read it.                                        *)
(***************************************************************************)
THEOREM LossIsOverlap == SyncSpec => LossNeedsOverlap
<1> DEFINE Keeps == \A w \in Writers :
                      step[w] = "writing" /\ step'[w] = "landed" /\ readStamp[w] = store.stamp
                        => InputsOf(store.game) \subseteq InputsOf(store'.game)
<1>1. SyncTypeOK /\ ReadIsKept /\ [SyncNext]_syncVars => [Keeps]_syncVars
  <2> SUFFICES ASSUME SyncTypeOK, ReadIsKept, [SyncNext]_syncVars PROVE [Keeps]_syncVars
    OBVIOUS
  <2>1. ASSUME NEW w \in Writers, step[w] = "writing", step'[w] = "landed",
               readStamp[w] = store.stamp
        PROVE  InputsOf(store.game) \subseteq InputsOf(store'.game)
    <3>1. InputsOf(store.game) \subseteq InputsOf(next[w].game)  BY <2>1 DEF ReadIsKept
    <3>2. CASE UNCHANGED store  BY <3>2
    <3>3. ASSUME NEW v \in Writers, Land(v) PROVE InputsOf(store.game) \subseteq InputsOf(store'.game)
      <4>1. store' = next[v] /\ step' = [step EXCEPT ![v] = "landed"]  BY <3>3 DEF Land
      <4>2. v = w  BY <2>1, <4>1 DEF SyncTypeOK
      <4> QED  BY <3>1, <4>1, <4>2
    <3>4. UNCHANGED store \/ \E v \in Writers : Land(v)
      BY DEF SyncNext, Work, Push, Flush, Refresh, RunRefresh, SkipFlush, ReadAndReplay, Finish,
             Reject, Exit, syncVars
    <3> QED  BY <3>2, <3>3, <3>4
  <2> QED  BY <2>1
<1>2. SyncSpec => [][Keeps]_syncVars
  BY <1>1, SyncTypeCorrect, ReadsAreKept, PTL DEF SyncSpec
<1> QED  BY <1>2 DEF LossNeedsOverlap

-----------------------------------------------------------------------------
(* No input disappears                                                     *)

LEMMA BatchStep ==
  ASSUME SyncTypeOK, BatchIsWritten, [SyncNext]_syncVars
  PROVE  BatchIsWritten'
<1> DEFINE Written(w) == step[w] # "idle" =>
             /\ batch[w] <= Len(pending[w])
             /\ InputsOf(Batch(w)) \subseteq InputsOf(next[w].game)
             /\ step[w] = "landed" => InputsOf(Batch(w)) \subseteq InputsOf(store.game) \cup gone
<1>1. CASE UNCHANGED <<store, gone, step, batch, next, pending>>
  BY <1>1 DEF BatchIsWritten, Batch
<1>2. ASSUME NEW v \in Writers, step'[v] = "idle", store' = store, gone \subseteq gone',
             \A w \in Writers \ {v} : /\ step'[w] = step[w] /\ batch'[w] = batch[w]
                                      /\ next'[w] = next[w] /\ pending'[w] = pending[w]
      PROVE  BatchIsWritten'
  <2>1. Written(v)'  BY <1>2
  <2>2. ASSUME NEW w \in Writers \ {v} PROVE Written(w)'
    <3>1. Batch(w)' = Batch(w)  BY <1>2 DEF Batch
    <3> QED  BY <1>2, <3>1 DEF BatchIsWritten
  <2> QED  BY <2>1, <2>2 DEF BatchIsWritten
<1>3. ASSUME NEW v \in Writers,
             RunRefresh(v) \/ SkipFlush(v) \/ Finish(v) \/ Reject(v) \/ Exit(v)
      PROVE  BatchIsWritten'
  <2>1. /\ step' = [step EXCEPT ![v] = "idle"] /\ batch' = [batch EXCEPT ![v] = 0]
        /\ next' = [next EXCEPT ![v] = NothingStored] /\ store' = store
    BY <1>3 DEF RunRefresh, SkipFlush, Finish, Reject, Exit, EndJob
  <2>2. gone \subseteq gone'
    BY <1>3 DEF RunRefresh, SkipFlush, Finish, Reject, Exit, historyVars
  <2>3. \A w \in Writers \ {v} : pending'[w] = pending[w]
    BY <1>3 DEF RunRefresh, SkipFlush, Finish, Reject, Exit, economyVars, SyncTypeOK
  <2> QED  BY <1>2, <2>1, <2>2, <2>3 DEF SyncTypeOK
<1>4. ASSUME NEW v \in Writers, Flush(v) \/ Refresh(v) PROVE BatchIsWritten'
  BY <1>1, <1>4 DEF Flush, Refresh, economyVars, historyVars
<1>5. ASSUME NEW v \in Writers, Push(v) PROVE BatchIsWritten'
  <2> DEFINE input == <<v, pushes[v] + 1>>
  <2>1. pending' = [pending EXCEPT ![v] = Append(pending[v], input)]  BY <1>5 DEF Push
  <2>2. UNCHANGED <<store, gone, step, batch, next>>  BY <1>5 DEF Push, jobVars
  <2>3. input \in Inputs /\ pending[v] \in Games /\ batch[v] \in Nat  BY DEF SyncTypeOK, Inputs
  <2> HIDE DEF input
  <2>4. Written(v)'
    <3>1. CASE step[v] # "idle"
      <4>1. batch[v] <= Len(pending[v])  BY <3>1 DEF BatchIsWritten
      <4>2. pending'[v] = Append(pending[v], input)  BY <2>1 DEF SyncTypeOK
      <4>3. Len(pending[v]) \in Nat /\ Len(pending'[v]) = Len(pending[v]) + 1
        BY <2>3, <4>2 DEF Games
      <4>4. Batch(v)' = Batch(v)
        BY <2>2, <2>3, <4>1, <4>2, FrontOfAppend DEF Batch
      <4>5. batch'[v] <= Len(pending'[v])  BY <2>2, <2>3, <4>1, <4>3
      <4> QED  BY <2>2, <3>1, <4>4, <4>5 DEF BatchIsWritten
    <3> QED  BY <2>2, <3>1
  <2>5. ASSUME NEW w \in Writers \ {v} PROVE Written(w)'
    <3>1. pending'[w] = pending[w]  BY <2>1 DEF SyncTypeOK
    <3>2. Batch(w)' = Batch(w)  BY <2>2, <3>1 DEF Batch
    <3> QED  BY <2>2, <3>1, <3>2 DEF BatchIsWritten
  <2> QED  BY <2>4, <2>5 DEF BatchIsWritten
<1>6. ASSUME NEW v \in Writers, ReadAndReplay(v) PROVE BatchIsWritten'
  <2> DEFINE game == IF store.stamp = <<>> THEN base[v] ELSE store.game
             record == [stamp |-> Stamp(v), game |-> game \o pending[v]]
  <2>1. /\ batch' = [batch EXCEPT ![v] = Len(pending[v])]
        /\ next' = [next EXCEPT ![v] = record] /\ step' = [step EXCEPT ![v] = "writing"]
    BY <1>6 DEF ReadAndReplay
  <2>2. UNCHANGED <<store, pending, gone>>  BY <1>6 DEF ReadAndReplay, economyVars
  <2>3. game \in Games /\ pending[v] \in Games /\ Len(pending[v]) \in Nat
    BY DEF SyncTypeOK, Records, Games
  <2>4. InputsOf(pending[v]) \subseteq InputsOf(record.game)
    <3>1. record.game = game \o pending[v]  OBVIOUS
    <3> HIDE DEF game, record
    <3> QED  BY <2>3, <3>1, InputsOfConcat
  <2> HIDE DEF record
  <2>5. Batch(v)' = pending[v]
    <3>1. Batch(v)' = SubSeq(pending[v], 1, Len(pending[v]))  BY <2>1, <2>2 DEF Batch, SyncTypeOK
    <3> QED  BY <2>3, <3>1, WholeIsFront
  <2>6. Written(v)'  BY <2>1, <2>2, <2>3, <2>4, <2>5 DEF SyncTypeOK
  <2>7. ASSUME NEW w \in Writers \ {v} PROVE Written(w)'
    <3>1. step'[w] = step[w] /\ batch'[w] = batch[w] /\ next'[w] = next[w]  BY <2>1 DEF SyncTypeOK
    <3>2. Batch(w)' = Batch(w)  BY <2>2, <3>1 DEF Batch
    <3> QED  BY <2>2, <3>1, <3>2 DEF BatchIsWritten
  <2> QED  BY <2>6, <2>7 DEF BatchIsWritten
<1>7. ASSUME NEW v \in Writers, Land(v) PROVE BatchIsWritten'
  <2>1. /\ store' = next[v] /\ step' = [step EXCEPT ![v] = "landed"] /\ step[v] = "writing"
        /\ gone' = gone \cup (InputsOf(store.game) \ InputsOf(next[v].game))
    BY <1>7 DEF Land
  <2>2. UNCHANGED <<pending, batch, next>>  BY <1>7 DEF Land, economyVars
  <2>3. ASSUME NEW w \in Writers PROVE Batch(w)' = Batch(w)  BY <2>2 DEF Batch
  <2>4. Written(v)'  BY <2>1, <2>2, <2>3 DEF SyncTypeOK, BatchIsWritten
  <2>5. ASSUME NEW w \in Writers \ {v} PROVE Written(w)'
    <3>1. step'[w] = step[w]  BY <2>1 DEF SyncTypeOK
    <3>2. InputsOf(store.game) \cup gone \subseteq InputsOf(store'.game) \cup gone'  BY <2>1
    <3> QED  BY <2>2, <2>3, <3>1, <3>2 DEF BatchIsWritten
  <2> QED  BY <2>4, <2>5 DEF BatchIsWritten
<1>8. CASE UNCHANGED syncVars  BY <1>1, <1>8 DEF syncVars, jobVars, economyVars, historyVars
<1> QED  BY <1>3, <1>4, <1>5, <1>6, <1>7, <1>8 DEF SyncNext, Work

LEMMA AccountedStep ==
  ASSUME SyncTypeOK, BatchIsWritten, EveryInputAccounted, [SyncNext]_syncVars
  PROVE  EveryInputAccounted'
<1> DEFINE Queued == (UNION {InputsOf(pending[w]) : w \in Writers})
           Kept == Queued \cup InputsOf(store.game) \cup gone
<1>1. Pushed \subseteq Kept  BY DEF EveryInputAccounted
\* Without a push, it is enough that the places to be in lose nothing.
<1>2. ASSUME UNCHANGED pushes, Kept \subseteq Kept' PROVE EveryInputAccounted'
  <2>1. Pushed' = Pushed  BY <1>2 DEF Pushed
  <2> HIDE DEF Kept
  <2>2. Pushed' \subseteq Kept'  BY <1>1, <1>2, <2>1
  <2> QED  BY <2>2 DEF EveryInputAccounted, Kept
<1>3. ASSUME UNCHANGED <<pushes, pending, store, gone>> PROVE EveryInputAccounted'
  BY <1>2, <1>3
\* What leaves one queue has to be in the store or gone.
<1>4. ASSUME NEW v \in Writers, UNCHANGED <<pushes, store>>, gone \subseteq gone',
             \A w \in Writers \ {v} : pending'[w] = pending[w],
             InputsOf(pending[v]) \subseteq InputsOf(pending'[v]) \cup InputsOf(store.game) \cup gone'
      PROVE  EveryInputAccounted'
  <2>1. ASSUME NEW input \in Queued PROVE input \in Kept'
    <3>1. PICK w \in Writers : input \in InputsOf(pending[w])  BY <2>1
    <3>2. CASE w = v  BY <1>4, <3>1, <3>2
    <3>3. CASE w # v  BY <1>4, <3>1, <3>3
    <3> QED  BY <3>2, <3>3
  <2>2. InputsOf(store.game) \cup gone \subseteq Kept'  BY <1>4
  <2>3. Kept \subseteq Kept'  BY <2>1, <2>2
  <2> QED  BY <1>2, <1>4, <2>3
<1>5. ASSUME NEW v \in Writers, Push(v) PROVE EveryInputAccounted'
  <2> DEFINE input == <<v, pushes[v] + 1>>
  <2>1. pending' = [pending EXCEPT ![v] = Append(pending[v], input)]  BY <1>5 DEF Push
  <2>2. pushes' = [pushes EXCEPT ![v] = pushes[v] + 1]  BY <1>5 DEF Push
  <2>3. UNCHANGED <<store, gone>>  BY <1>5 DEF Push
  <2>4. input \in Inputs /\ pending[v] \in Games  BY DEF SyncTypeOK, Inputs
  <2>5. InputsOf(pending'[v]) = InputsOf(pending[v]) \cup {input}
    <3>1. pending'[v] = pending[v] \o <<input>>
      <4> HIDE DEF input
      <4> QED  BY <2>1, <2>4, AppendIsConcat DEF SyncTypeOK, Games
    <3>2. InputsOf(<<input>>) = {input} /\ <<input>> \in Games
      <4> HIDE DEF input
      <4> QED  BY <2>4 DEF InputsOf, Games
    <3> HIDE DEF input
    <3> QED  BY <2>4, <3>1, <3>2, InputsOfConcat
  <2>6. Pushed' \subseteq Pushed \cup {input}
    <3>1. ASSUME NEW w \in Writers PROVE {w} \X (1..pushes'[w]) \subseteq Pushed \cup {input}
      <4>1. CASE w = v
        <5>1. 1..pushes'[v] = (1..pushes[v]) \cup {pushes[v] + 1}  BY <2>2 DEF SyncTypeOK
        <5> QED  BY <4>1, <5>1 DEF Pushed
      <4>2. CASE w # v
        <5>1. pushes'[w] = pushes[w]  BY <2>2, <4>2 DEF SyncTypeOK
        <5> QED  BY <5>1 DEF Pushed
      <4> QED  BY <4>1, <4>2
    <3> QED  BY <3>1 DEF Pushed
  <2>7. \A w \in Writers : InputsOf(pending[w]) \subseteq InputsOf(pending'[w])
    <3>1. \A w \in Writers \ {v} : pending'[w] = pending[w]  BY <2>1 DEF SyncTypeOK
    <3> QED  BY <2>5, <3>1
  <2> HIDE DEF input
  <2>8. Kept \subseteq Kept' /\ input \in Kept'  BY <2>3, <2>5, <2>7
  <2> HIDE DEF Kept
  <2>9. Pushed' \subseteq Kept'  BY <1>1, <2>6, <2>8
  <2> QED  BY <2>9 DEF EveryInputAccounted, Kept
<1>6. ASSUME NEW v \in Writers,
             Flush(v) \/ Refresh(v) \/ RunRefresh(v) \/ SkipFlush(v) \/ ReadAndReplay(v) \/ Reject(v)
      PROVE  EveryInputAccounted'
  <2>1. UNCHANGED <<pushes, pending, store, gone>>
    BY <1>6 DEF Flush, Refresh, RunRefresh, SkipFlush, ReadAndReplay, Reject, economyVars, historyVars
  <2> QED  BY <1>3, <2>1
<1>7. ASSUME NEW v \in Writers, Land(v) PROVE EveryInputAccounted'
  <2>1. /\ store' = next[v] /\ gone' = gone \cup (InputsOf(store.game) \ InputsOf(next[v].game))
        /\ UNCHANGED <<pending, pushes>>
    BY <1>7 DEF Land, economyVars
  <2>2. Kept \subseteq Kept'  BY <2>1
  <2> QED  BY <1>2, <2>1, <2>2
<1>8. ASSUME NEW v \in Writers, Finish(v) PROVE EveryInputAccounted'
  <2> DEFINE queued == SubSeq(pending[v], batch[v] + 1, Len(pending[v]))
  <2>1. pending' = [pending EXCEPT ![v] = queued] /\ step[v] = "landed"  BY <1>8 DEF Finish
  <2>2. UNCHANGED <<pushes, store, gone>>  BY <1>8 DEF Finish, historyVars
  <2>3. pending[v] \in Games /\ batch[v] \in 0..Len(pending[v])
    BY <2>1 DEF SyncTypeOK, Games, BatchIsWritten
  <2>4. InputsOf(pending[v]) \subseteq InputsOf(Batch(v)) \cup InputsOf(queued)
    BY <2>3, InputsOfCut DEF Batch
  <2>5. InputsOf(Batch(v)) \subseteq InputsOf(store.game) \cup gone  BY <2>1 DEF BatchIsWritten
  <2> HIDE DEF queued
  <2>6. pending'[v] = queued /\ \A w \in Writers \ {v} : pending'[w] = pending[w]
    BY <2>1 DEF SyncTypeOK
  <2> QED  BY <1>4, <2>2, <2>4, <2>5, <2>6
<1>9. ASSUME NEW v \in Writers, Exit(v) PROVE EveryInputAccounted'
  <2>1. /\ pending' = [pending EXCEPT ![v] = <<>>] /\ UNCHANGED <<pushes, store>>
        /\ gone' = gone \cup (InputsOf(pending[v]) \ InputsOf(store.game))
    BY <1>9 DEF Exit
  <2>2. \A w \in Writers \ {v} : pending'[w] = pending[w]  BY <2>1 DEF SyncTypeOK
  <2> QED  BY <1>4, <2>1, <2>2
<1>10. CASE UNCHANGED syncVars  BY <1>3, <1>10 DEF syncVars, economyVars, historyVars
<1> QED  BY <1>5, <1>6, <1>7, <1>8, <1>9, <1>10 DEF SyncNext, Work

(***************************************************************************)
(* No input disappears: it is queued, in the store, or among those that    *)
(* were overwritten or dropped with a session's queue.                     *)
(***************************************************************************)
THEOREM NothingDisappears == SyncSpec => []EveryInputAccounted
<1>1. SyncInit => BatchIsWritten /\ EveryInputAccounted
  BY DEF SyncInit, BatchIsWritten, EveryInputAccounted, Pushed
<1>2. SyncTypeOK /\ (BatchIsWritten /\ EveryInputAccounted) /\ [SyncNext]_syncVars
        => (BatchIsWritten /\ EveryInputAccounted)'
  BY BatchStep, AccountedStep
<1> QED  BY <1>1, <1>2, SyncTypeCorrect, PTL DEF SyncSpec

-----------------------------------------------------------------------------
(* The order of a session's inputs                                         *)

LEMMA OrderedMore ==
  ASSUME NEW g \in Games, NEW w, NEW m \in Int, NEW n \in Int, m <= n, InputsOrdered(g, w, m)
  PROVE  InputsOrdered(g, w, n)
<1>1. \A i \in 1..Len(g) : g[i][2] \in Nat  BY DEF Games, Inputs
<1> QED  BY <1>1 DEF InputsOrdered

\* The latest inputs of w, in order, may be replayed on a game that has the others.
LEMMA OrderedReplay ==
  ASSUME NEW g \in Games, NEW q \in Games, NEW w \in Writers, NEW n \in Int, InputsOrdered(g, w, n),
         \A k \in 1..Len(q) : q[k] = <<w, n + k>>
  PROVE  InputsOrdered(g \o q, w, n + Len(q))
<1> DEFINE all == g \o q
<1>1. Len(g) \in Nat /\ Len(q) \in Nat /\ Len(all) = Len(g) + Len(q)  BY DEF Games
<1>2. \A i \in 1..Len(g) : all[i] = g[i] /\ g[i][2] \in Nat  BY DEF Games, Inputs
<1>3. ASSUME NEW i \in 1..Len(all), ~(i <= Len(g))
      PROVE  all[i][1] = w /\ all[i][2] = n + (i - Len(g))
  <2>1. i - Len(g) \in 1..Len(q)  BY <1>1, <1>3
  <2>2. all[i] = q[i - Len(g)]  BY <1>1, <1>3 DEF Games
  <2>3. all[i] = <<w, n + (i - Len(g))>>  BY <2>1, <2>2
  <2> HIDE DEF all
  <2> QED  BY <2>3
<1> HIDE DEF all
<1>4. ASSUME NEW i \in 1..Len(all), all[i][1] = w PROVE all[i][2] <= n + Len(q)
  <2>1. CASE i <= Len(g)
    <3>1. i \in 1..Len(g)  BY <1>1, <2>1
    <3>2. g[i][2] <= n  BY <1>2, <1>4, <3>1 DEF InputsOrdered
    <3> QED  BY <1>1, <1>2, <3>1, <3>2
  <2>2. CASE ~(i <= Len(g))  BY <1>1, <1>3, <2>2
  <2> QED  BY <2>1, <2>2
<1>5. ASSUME NEW i \in 1..Len(all), NEW j \in 1..Len(all), i < j, all[i][1] = w, all[j][1] = w
      PROVE  all[i][2] < all[j][2]
  <2>1. CASE j <= Len(g)
    <3>1. i \in 1..Len(g) /\ j \in 1..Len(g)  BY <1>1, <1>5, <2>1
    <3> QED  BY <1>2, <1>5, <3>1 DEF InputsOrdered
  <2>2. CASE i <= Len(g) /\ ~(j <= Len(g))
    <3>1. i \in 1..Len(g)  BY <1>1, <2>2
    <3>2. all[i][2] <= n /\ all[i][2] \in Nat  BY <1>2, <1>5, <3>1 DEF InputsOrdered
    <3>3. all[j][2] = n + (j - Len(g))  BY <1>3, <2>2
    <3> QED  BY <1>1, <2>2, <3>2, <3>3
  <2>3. CASE ~(i <= Len(g))
    <3>1. all[i][2] = n + (i - Len(g))  BY <1>3, <2>3
    <3>2. ~(j <= Len(g))  BY <1>1, <1>5, <2>3
    <3>3. all[j][2] = n + (j - Len(g))  BY <1>3, <3>2
    <3> QED  BY <1>1, <1>5, <3>1, <3>3
  <2> QED  BY <1>1, <2>1, <2>2, <2>3
<1> QED  BY <1>4, <1>5 DEF InputsOrdered, all

\* The inputs of one session do not disturb the order of another's.
LEMMA OrderedBesides ==
  ASSUME NEW g \in Games, NEW q \in Games, NEW w \in Writers, NEW n \in Int, InputsOrdered(g, w, n),
         \A k \in 1..Len(q) : q[k][1] # w
  PROVE  InputsOrdered(g \o q, w, n)
<1> DEFINE all == g \o q
<1>1. Len(g) \in Nat /\ Len(q) \in Nat /\ Len(all) = Len(g) + Len(q)  BY DEF Games
<1>2. \A i \in 1..Len(g) : all[i] = g[i]  BY DEF Games
<1>3. ASSUME NEW i \in 1..Len(all), all[i][1] = w PROVE i \in 1..Len(g)
  <2>1. CASE ~(i <= Len(g))
    <3>1. i - Len(g) \in 1..Len(q)  BY <1>1, <2>1
    <3>2. all[i] = q[i - Len(g)]  BY <1>1, <2>1 DEF Games
    <3> HIDE DEF all
    <3> QED  BY <1>3, <3>1, <3>2
  <2> QED  BY <1>1, <2>1
<1> HIDE DEF all
<1> QED  BY <1>2, <1>3 DEF InputsOrdered, all

LEMMA AppliedType ==
  ASSUME SyncTypeOK, NEW w \in Writers
  PROVE  Applied(w) \in Int /\ Stored(w) \in Nat /\ \A v \in Writers : Brought(w, v) \in Nat
BY DEF SyncTypeOK, Games, Applied, Stored, Brought

LEMMA AppliedTypeAfter ==
  ASSUME SyncTypeOK', NEW w \in Writers
  PROVE  Applied(w)' \in Int /\ Stored(w)' \in Nat /\ \A v \in Writers : Brought(w, v)' \in Nat
<1>1. /\ batch'[w] \in Nat /\ pushes'[w] \in Nat /\ Len(pending'[w]) \in Nat
  BY DEF SyncTypeOK, Games
<1> QED  BY <1>1 DEF Applied, Stored, Brought

LEMMA LatestStep ==
  ASSUME SyncTypeOK, BatchIsWritten, QueueIsLatest, [SyncNext]_syncVars
  PROVE  QueueIsLatest'
<1> DEFINE Latest(w) == /\ Len(pending[w]) <= pushes[w]
                        /\ \A k \in 1..Len(pending[w]) : pending[w][k] = <<w, Applied(w) + k>>
<1>1. \A w \in Writers : pending[w] \in Games /\ Len(pending[w]) \in Nat /\ pushes[w] \in Nat
  BY DEF SyncTypeOK, Games
<1>2. \A w \in Writers : Latest(w)  BY DEF QueueIsLatest
<1>3. ASSUME NEW v \in Writers, Latest(v)',
             \A w \in Writers \ {v} : pending'[w] = pending[w] /\ pushes'[w] = pushes[w]
      PROVE  QueueIsLatest'
  <2>1. \A w \in Writers \ {v} : Latest(w)'  BY <1>2, <1>3 DEF Applied
  <2> QED  BY <1>3, <2>1 DEF QueueIsLatest
<1>4. CASE UNCHANGED <<pushes, pending>>  BY <1>4 DEF QueueIsLatest, Applied
<1>5. ASSUME NEW v \in Writers, Push(v) PROVE QueueIsLatest'
  <2> DEFINE input == <<v, pushes[v] + 1>>
  <2>1. pending' = [pending EXCEPT ![v] = Append(pending[v], input)]
        /\ pushes' = [pushes EXCEPT ![v] = pushes[v] + 1]
    BY <1>5 DEF Push
  <2> HIDE DEF input
  <2>2. /\ pending'[v] = Append(pending[v], input) /\ pushes'[v] = pushes[v] + 1
        /\ \A w \in Writers \ {v} : pending'[w] = pending[w] /\ pushes'[w] = pushes[w]
    BY <2>1 DEF SyncTypeOK
  <2>3. input \in Inputs  BY DEF input, Inputs, SyncTypeOK
  <2>4. /\ Len(pending'[v]) = Len(pending[v]) + 1 /\ pending'[v][Len(pending[v]) + 1] = input
        /\ \A k \in 1..Len(pending[v]) : pending'[v][k] = pending[v][k]
    BY <1>1, <2>2, <2>3 DEF Games
  <2>5. Applied(v)' = Applied(v) /\ Len(pending'[v]) <= pushes'[v]
    BY <1>1, <1>2, <2>2, <2>4 DEF Applied
  <2>6. ASSUME NEW k \in 1..Len(pending'[v]) PROVE pending'[v][k] = <<v, Applied(v)' + k>>
    <3>1. CASE k \in 1..Len(pending[v])  BY <1>2, <2>4, <2>5, <3>1
    <3>2. CASE k = Len(pending[v]) + 1
      <4>1. Applied(v) + k = pushes[v] + 1  BY <1>1, <3>2 DEF Applied
      <4> QED  BY <2>4, <2>5, <3>2, <4>1 DEF input
    <3> QED  BY <1>1, <2>4, <3>1, <3>2
  <2>7. Latest(v)'  BY <2>5, <2>6
  <2> QED  BY <1>3, <2>2, <2>7
<1>6. ASSUME NEW v \in Writers, Finish(v) PROVE QueueIsLatest'
  <2> DEFINE queued == SubSeq(pending[v], batch[v] + 1, Len(pending[v]))
  <2>1. pending' = [pending EXCEPT ![v] = queued] /\ step[v] = "landed" /\ pushes' = pushes
    BY <1>6 DEF Finish, historyVars
  <2>2. batch[v] \in 0..Len(pending[v])  BY <1>1, <2>1 DEF SyncTypeOK, BatchIsWritten
  <2>3. /\ Len(queued) = Len(pending[v]) - batch[v]
        /\ \A k \in 1..Len(queued) : queued[k] = pending[v][batch[v] + k]
    BY <1>1, <2>2, RemainderFacts
  <2> HIDE DEF queued
  <2>4. /\ pending'[v] = queued /\ \A w \in Writers \ {v} : pending'[w] = pending[w]
    BY <2>1 DEF SyncTypeOK
  <2>5. Applied(v)' = Applied(v) + batch[v]  BY <1>1, <2>1, <2>2, <2>3, <2>4 DEF Applied
  <2>6. ASSUME NEW k \in 1..Len(queued) PROVE queued[k] = <<v, Applied(v)' + k>>
    <3>1. batch[v] + k \in 1..Len(pending[v])  BY <1>1, <2>2, <2>3
    <3>2. pending[v][batch[v] + k] = <<v, Applied(v) + (batch[v] + k)>>  BY <1>2, <3>1
    <3>3. Applied(v) \in Int  BY AppliedType
    <3>4. Applied(v) + (batch[v] + k) = Applied(v)' + k
      BY <1>1, <2>2, <2>3, <2>5, <3>3
    <3> QED  BY <2>3, <3>2, <3>4
  <2>7. Len(pending'[v]) <= pushes'[v]  BY <1>1, <1>2, <2>1, <2>2, <2>3, <2>4
  <2>8. Latest(v)'  BY <2>4, <2>6, <2>7
  <2> QED  BY <1>3, <2>1, <2>4, <2>8
<1>7. ASSUME NEW v \in Writers, Exit(v) PROVE QueueIsLatest'
  <2>1. /\ pending'[v] = <<>> /\ pushes' = pushes
        /\ \A w \in Writers \ {v} : pending'[w] = pending[w]
    BY <1>7 DEF Exit, SyncTypeOK
  <2>2. Len(pending'[v]) = 0  BY <2>1
  <2>3. Latest(v)'  BY <1>1, <2>1, <2>2
  <2> QED  BY <1>3, <2>1, <2>3
<1>8. ASSUME NEW v \in Writers,
             Flush(v) \/ Refresh(v) \/ RunRefresh(v) \/ SkipFlush(v) \/ ReadAndReplay(v)
               \/ Land(v) \/ Reject(v)
      PROVE  QueueIsLatest'
  <2>1. UNCHANGED <<pushes, pending>>
    BY <1>8 DEF Flush, Refresh, RunRefresh, SkipFlush, ReadAndReplay, Land, Reject, economyVars, historyVars
  <2> QED  BY <1>4, <2>1
<1>9. CASE UNCHANGED syncVars  BY <1>4, <1>9 DEF syncVars, economyVars, historyVars
<1> QED  BY <1>5, <1>6, <1>7, <1>8, <1>9 DEF SyncNext, Work

LEMMA AdoptedStep ==
  ASSUME SyncTypeOK, StampsAreFresh, NothingAdopted, [SyncNext]_syncVars
  PROVE  NothingAdopted'
<1>1. CASE UNCHANGED <<store, base, step>>  BY <1>1 DEF NothingAdopted
<1>2. ASSUME NEW v \in Writers, UNCHANGED store, step' = [step EXCEPT ![v] = "idle"],
             base' = [base EXCEPT ![v] = InitialGame] \/ store.stamp # <<>> \/ base' = base
      PROVE  NothingAdopted'
  BY <1>2 DEF NothingAdopted, SyncTypeOK
<1>3. ASSUME NEW v \in Writers, ReadAndReplay(v) PROVE NothingAdopted'
  <2>1. UNCHANGED <<store, base>> /\ step' = [step EXCEPT ![v] = "writing"]
    BY <1>3 DEF ReadAndReplay, economyVars
  <2> QED  BY <2>1 DEF NothingAdopted, SyncTypeOK
<1>4. ASSUME NEW v \in Writers, Land(v) PROVE NothingAdopted'
  <2>1. store' = next[v] /\ step[v] = "writing"  BY <1>4 DEF Land
  <2>2. next[v].stamp = <<v, writes[v]>>  BY <2>1 DEF StampsAreFresh
  <2>3. store'.stamp # <<>>  BY <2>1, <2>2
  <2> QED  BY <2>3 DEF NothingAdopted
<1>5. ASSUME NEW v \in Writers, RunRefresh(v) \/ SkipFlush(v) \/ Reject(v) \/ Exit(v)
      PROVE  NothingAdopted'
  <2>1. UNCHANGED store /\ step' = [step EXCEPT ![v] = "idle"]
    BY <1>5 DEF RunRefresh, SkipFlush, Reject, Exit, EndJob
  <2>2. base' = [base EXCEPT ![v] = InitialGame] \/ store.stamp # <<>> \/ base' = base
    BY <1>5 DEF RunRefresh, SkipFlush, Reject, Exit, economyVars
  <2> QED  BY <1>2, <2>1, <2>2
<1>6. ASSUME NEW v \in Writers, Finish(v) PROVE NothingAdopted'
  <2>1. UNCHANGED store /\ step' = [step EXCEPT ![v] = "idle"] /\ step[v] = "landed"
    BY <1>6 DEF Finish, EndJob
  <2>2. store.stamp # <<>>  BY <2>1 DEF NothingAdopted
  <2> QED  BY <1>2, <2>1, <2>2
<1>7. ASSUME NEW v \in Writers, Push(v) \/ Flush(v) \/ Refresh(v) PROVE NothingAdopted'
  <2>1. UNCHANGED <<store, base, step>>
    BY <1>7 DEF Push, Flush, Refresh, economyVars, jobVars
  <2> QED  BY <1>1, <2>1
<1>8. CASE UNCHANGED syncVars  BY <1>1, <1>8 DEF syncVars, economyVars, jobVars
<1> QED  BY <1>3, <1>4, <1>5, <1>6, <1>7, <1>8 DEF SyncNext, Work

\* What a step has to keep besides the store and the games about to be written.
LEMMA GamesStayOrdered ==
  ASSUME SyncTypeOK, SyncTypeOK', GamesOrdered, store' = store, ambiguous \subseteq ambiguous',
         \A v \in Writers : step'[v] = "writing" => step[v] = "writing" /\ next'[v] = next[v],
         \A w \in Writers \ ambiguous' : Applied(w) + Stored(w) <= Applied(w)' + Stored(w)',
         \A w \in Writers \ ambiguous' : \A v \in Writers :
           step'[v] = "writing" => Applied(w) + Brought(w, v) <= Applied(w)' + Brought(w, v)'
  PROVE  GamesOrdered'
<1> SUFFICES ASSUME NEW w \in Writers \ ambiguous'
             PROVE  /\ InputsOrdered(store'.game, w, Applied(w)' + Stored(w)')
                    /\ \A v \in Writers : step'[v] = "writing" =>
                         InputsOrdered(next'[v].game, w, Applied(w)' + Brought(w, v)')
  BY DEF GamesOrdered
<1>1. w \in Writers \ ambiguous  OBVIOUS
<1>2. Applied(w) \in Int /\ Stored(w) \in Nat /\ \A v \in Writers : Brought(w, v) \in Nat
  BY AppliedType
<1>3. Applied(w)' \in Int /\ Stored(w)' \in Nat /\ \A v \in Writers : Brought(w, v)' \in Nat
  BY AppliedTypeAfter
<1>4. InputsOrdered(store'.game, w, Applied(w)' + Stored(w)')
  <2>1. InputsOrdered(store.game, w, Applied(w) + Stored(w))  BY <1>1 DEF GamesOrdered
  <2>2. store.game \in Games  BY DEF SyncTypeOK, Records
  <2> QED  BY <1>2, <1>3, <2>1, <2>2, OrderedMore
<1>5. ASSUME NEW v \in Writers, step'[v] = "writing"
      PROVE  InputsOrdered(next'[v].game, w, Applied(w)' + Brought(w, v)')
  <2>1. InputsOrdered(next[v].game, w, Applied(w) + Brought(w, v))  BY <1>1, <1>5 DEF GamesOrdered
  <2>2. next[v].game \in Games  BY DEF SyncTypeOK, Records
  <2> QED  BY <1>2, <1>3, <1>5, <2>1, <2>2, OrderedMore
<1> QED  BY <1>4, <1>5

\* What EndJob does to a flush and to the others.
LEMMA EndJobFacts ==
  ASSUME SyncTypeOK, NEW v \in Writers, EndJob(v)
  PROVE  /\ step'[v] = "idle" /\ Stored(v)' = 0
         /\ \A w \in Writers \ {v} :
              step'[w] = step[w] /\ batch'[w] = batch[w] /\ next'[w] = next[w]
BY DEF SyncTypeOK, EndJob, Stored

LEMMA ReadStep ==
  ASSUME SyncTypeOK, SyncTypeOK', QueueIsLatest, NothingAdopted, ReadIsKept, GamesOrdered,
         NEW v \in Writers, ReadAndReplay(v)
  PROVE  GamesOrdered'
<1>1. /\ UNCHANGED <<store, pending, pushes, ambiguous>> /\ step[v] = "idle"
      /\ step' = [step EXCEPT ![v] = "writing"] /\ batch' = [batch EXCEPT ![v] = Len(pending[v])]
  BY DEF ReadAndReplay, economyVars
<1>2. /\ step'[v] = "writing" /\ batch'[v] = Len(pending[v])
      /\ \A u \in Writers \ {v} : step'[u] = step[u] /\ batch'[u] = batch[u]
  BY <1>1 DEF SyncTypeOK
<1> DEFINE record == [stamp |-> Stamp(v), game |-> store.game \o pending[v]]
<1>3. next' = [next EXCEPT ![v] = record]
  <2>1. (IF store.stamp = <<>> THEN base[v] ELSE store.game) = store.game
    BY DEF NothingAdopted, ReadIsKept
  <2> QED  BY <2>1 DEF ReadAndReplay
<1>4. record.game = store.game \o pending[v]  OBVIOUS
<1> HIDE DEF record
<1>5. next'[v] = record /\ \A u \in Writers \ {v} : next'[u] = next[u]
  BY <1>3 DEF SyncTypeOK
<1>6. store.game \in Games /\ pending[v] \in Games /\ Len(pending[v]) \in Nat
  BY DEF SyncTypeOK, Records, Games
<1>7. \A w \in Writers : Applied(w)' = Applied(w)  BY <1>1 DEF Applied
<1>8. \A w \in Writers : Stored(w)' = Stored(w)
  <2>1. Stored(v) = 0 /\ Stored(v)' = 0  BY <1>1, <1>2 DEF Stored
  <2> QED  BY <1>2, <2>1 DEF Stored
<1> SUFFICES ASSUME NEW w \in Writers \ ambiguous
             PROVE  /\ InputsOrdered(store'.game, w, Applied(w)' + Stored(w)')
                    /\ \A u \in Writers : step'[u] = "writing" =>
                         InputsOrdered(next'[u].game, w, Applied(w)' + Brought(w, u)')
  BY <1>1 DEF GamesOrdered
<1>9. Applied(w) \in Int /\ Stored(w) \in Nat  BY AppliedType
<1>10. InputsOrdered(store.game, w, Applied(w) + Stored(w))  BY DEF GamesOrdered
<1>11. InputsOrdered(store'.game, w, Applied(w)' + Stored(w)')
  BY <1>1, <1>7, <1>8, <1>10
<1>12. ASSUME NEW u \in Writers, step'[u] = "writing"
       PROVE  InputsOrdered(next'[u].game, w, Applied(w)' + Brought(w, u)')
  <2>1. CASE u # v
    <3>1. step[u] = "writing"  BY <1>2, <1>12, <2>1
    <3>2. InputsOrdered(next[u].game, w, Applied(w) + Brought(w, u))  BY <3>1 DEF GamesOrdered
    <3>3. Brought(w, u)' = Brought(w, u)  BY <1>2, <1>8, <2>1 DEF Brought
    <3> QED  BY <1>5, <1>7, <2>1, <3>2, <3>3
  <2>2. CASE u = v /\ w = v
    <3>1. Stored(v) = 0  BY <1>1 DEF Stored
    <3>2. InputsOrdered(store.game, v, Applied(v))  BY <1>9, <1>10, <2>2, <3>1
    <3>3. \A k \in 1..Len(pending[v]) : pending[v][k] = <<v, Applied(v) + k>>
      BY DEF QueueIsLatest
    <3>4. InputsOrdered(store.game \o pending[v], v, Applied(v) + Len(pending[v]))
      BY <1>6, <1>9, <2>2, <3>2, <3>3, OrderedReplay
    <3>5. Brought(v, v)' = Len(pending[v])  BY <1>2 DEF Brought
    <3> QED  BY <1>4, <1>5, <1>7, <2>2, <3>4, <3>5
  <2>3. CASE u = v /\ w # v
    <3>1. \A k \in 1..Len(pending[v]) : pending[v][k] = <<v, Applied(v) + k>>
      BY DEF QueueIsLatest
    <3>2. \A k \in 1..Len(pending[v]) : pending[v][k][1] # w  BY <2>3, <3>1
    <3>3. Applied(w) + Stored(w) \in Int  BY <1>9
    <3>4. InputsOrdered(store.game \o pending[v], w, Applied(w) + Stored(w))
      BY <1>6, <1>10, <3>2, <3>3, OrderedBesides
    <3>5. Brought(w, v)' = Stored(w)  BY <1>8, <2>3 DEF Brought
    <3> QED  BY <1>4, <1>5, <1>7, <2>3, <3>4, <3>5
  <2> QED  BY <2>1, <2>2, <2>3
<1> QED  BY <1>11, <1>12

LEMMA LandStep ==
  ASSUME SyncTypeOK, SyncTypeOK', GamesOrdered, NEW v \in Writers, Land(v)
  PROVE  GamesOrdered'
<1>1. /\ UNCHANGED <<pending, pushes, ambiguous, batch, next>> /\ step[v] = "writing"
      /\ step' = [step EXCEPT ![v] = "landed"] /\ store' = next[v]
  BY DEF Land, economyVars
<1>2. step'[v] = "landed" /\ \A u \in Writers \ {v} : step'[u] = step[u]
  BY <1>1 DEF SyncTypeOK
<1>3. \A w \in Writers : Applied(w)' = Applied(w)  BY <1>1 DEF Applied
<1> SUFFICES ASSUME NEW w \in Writers \ ambiguous
             PROVE  /\ InputsOrdered(store'.game, w, Applied(w)' + Stored(w)')
                    /\ \A u \in Writers : step'[u] = "writing" =>
                         InputsOrdered(next'[u].game, w, Applied(w)' + Brought(w, u)')
  BY <1>1 DEF GamesOrdered
<1>4. InputsOrdered(store'.game, w, Applied(w)' + Stored(w)')
  <2>1. InputsOrdered(next[v].game, w, Applied(w) + Brought(w, v))  BY <1>1 DEF GamesOrdered
  <2>2. Stored(w)' = Brought(w, v)  BY <1>1, <1>2 DEF Stored, Brought
  <2> QED  BY <1>1, <1>3, <2>1, <2>2
<1>5. ASSUME NEW u \in Writers, step'[u] = "writing"
      PROVE  InputsOrdered(next'[u].game, w, Applied(w)' + Brought(w, u)')
  <2>1. u # v /\ step[u] = "writing"  BY <1>2, <1>5
  <2>2. InputsOrdered(next[u].game, w, Applied(w) + Brought(w, u))  BY <2>1 DEF GamesOrdered
  <2>3. Applied(w) \in Int /\ Brought(w, u) \in Nat /\ Applied(w)' \in Int /\ Brought(w, u)' \in Nat
    <3>1. Applied(w) \in Int /\ \A x \in Writers : Brought(w, x) \in Nat  BY AppliedType
    <3>2. Applied(w)' \in Int /\ \A x \in Writers : Brought(w, x)' \in Nat  BY AppliedTypeAfter
    <3> QED  BY <3>1, <3>2
  <2>4. Brought(w, u) <= Brought(w, u)'
    <3>1. CASE w = v
      <4>1. Brought(w, u) = 0  BY <1>1, <2>1, <3>1 DEF Brought, Stored
      <4> QED  BY <2>3, <4>1
    <3>2. CASE w # v
      <4>1. Brought(w, u)' = Brought(w, u)  BY <1>1, <1>2, <3>2 DEF Brought, Stored
      <4> QED  BY <2>3, <4>1
    <3> QED  BY <3>1, <3>2
  <2>5. next[u].game \in Games  BY DEF SyncTypeOK, Records
  <2>6. InputsOrdered(next[u].game, w, Applied(w)' + Brought(w, u)')
    <3>1. Applied(w) + Brought(w, u) <= Applied(w)' + Brought(w, u)'
      BY <1>3, <2>3, <2>4
    <3>2. Applied(w) + Brought(w, u) \in Int /\ Applied(w)' + Brought(w, u)' \in Int  BY <2>3
    <3> QED  BY <2>2, <2>5, <3>1, <3>2, OrderedMore
  <2> QED  BY <1>1, <2>6
<1> QED  BY <1>4, <1>5

LEMMA GamesOrderStep ==
  ASSUME SyncTypeOK, SyncTypeOK', ReadIsKept, BatchIsWritten, OrderInv, [SyncNext]_syncVars
  PROVE  GamesOrdered'
<1>1. QueueIsLatest /\ NothingAdopted /\ GamesOrdered  BY DEF OrderInv
<1>2. \A w \in Writers : /\ pushes[w] \in Nat /\ batch[w] \in Nat /\ Len(pending[w]) \in Nat
                         /\ pending[w] \in Games /\ Len(pending[w]) <= pushes[w]
  BY <1>1 DEF SyncTypeOK, Games, QueueIsLatest
\* Push, Flush and Refresh leave the flush in flight as it is.
<1>3. ASSUME UNCHANGED <<store, ambiguous, step, batch, next>>,
             \A w \in Writers : Applied(w)' = Applied(w)
      PROVE  GamesOrdered'
  BY <1>1, <1>3 DEF GamesOrdered, Stored, Brought
<1>4. ASSUME NEW v \in Writers, Push(v) PROVE GamesOrdered'
  <2> DEFINE input == <<v, pushes[v] + 1>>
  <2>1. pending' = [pending EXCEPT ![v] = Append(pending[v], input)]
        /\ pushes' = [pushes EXCEPT ![v] = pushes[v] + 1]
        /\ UNCHANGED <<store, ambiguous, step, batch, next>>
    BY <1>4 DEF Push, jobVars
  <2>2. input \in Inputs  BY DEF Inputs, SyncTypeOK
  <2> HIDE DEF input
  <2>3. Len(Append(pending[v], input)) = Len(pending[v]) + 1  BY <1>2, <2>2 DEF Games
  <2>4. /\ Len(pending'[v]) = Len(pending[v]) + 1 /\ pushes'[v] = pushes[v] + 1
        /\ \A w \in Writers \ {v} : pending'[w] = pending[w] /\ pushes'[w] = pushes[w]
    BY <2>1, <2>3 DEF SyncTypeOK
  <2>5. Applied(v)' = Applied(v)  BY <1>2, <2>4 DEF Applied
  <2>6. \A w \in Writers \ {v} : Applied(w)' = Applied(w)  BY <2>4 DEF Applied
  <2> QED  BY <1>3, <2>1, <2>5, <2>6
<1>5. ASSUME NEW v \in Writers, Flush(v) \/ Refresh(v) PROVE GamesOrdered'
  <2>1. UNCHANGED <<store, ambiguous, step, batch, next, pushes, pending>>
    BY <1>5 DEF Flush, Refresh, economyVars, historyVars
  <2> QED  BY <1>3, <2>1 DEF Applied
\* The work of v ends: what it had stored has left its queue, or v is ambiguous.
<1>6. ASSUME NEW v \in Writers, store' = store, ambiguous \subseteq ambiguous',
             step'[v] = "idle", Stored(v)' = 0,
             \A w \in Writers \ {v} :
               /\ step'[w] = step[w] /\ batch'[w] = batch[w] /\ next'[w] = next[w]
               /\ Applied(w)' = Applied(w),
             v \notin ambiguous' => Applied(v) + Stored(v) <= Applied(v)'
      PROVE  GamesOrdered'
  <2>1. \A u \in Writers : step'[u] = "writing" => u # v /\ step[u] = "writing" /\ next'[u] = next[u]
    BY <1>6
  <2>2. ASSUME NEW w \in Writers \ ambiguous'
        PROVE  /\ Applied(w) + Stored(w) <= Applied(w)' + Stored(w)'
               /\ \A u \in Writers : step'[u] = "writing" =>
                    Applied(w) + Brought(w, u) <= Applied(w)' + Brought(w, u)'
    <3>1. /\ Applied(w) \in Int /\ Stored(w) \in Nat /\ \A u \in Writers : Brought(w, u) \in Nat
      BY AppliedType
    <3>2. Applied(w)' \in Int  BY AppliedTypeAfter
    <3>3. CASE w = v
      <4>1. \A u \in Writers : step'[u] = "writing" => Brought(w, u) = Stored(w) /\ Brought(w, u)' = 0
        BY <1>6, <2>1, <3>3 DEF Brought
      <4> QED  BY <1>6, <3>1, <3>2, <3>3, <4>1
    <3>4. CASE w # v
      <4>1. Stored(w)' = Stored(w)  BY <1>6, <3>4 DEF Stored
      <4>2. \A u \in Writers : Brought(w, u)' = Brought(w, u)  BY <1>6, <3>4, <4>1 DEF Brought
      <4>3. Applied(w)' = Applied(w)  BY <1>6, <3>4
      <4> QED  BY <3>1, <4>1, <4>2, <4>3
    <3> QED  BY <3>3, <3>4
  <2> QED  BY <1>1, <1>6, <2>1, <2>2, GamesStayOrdered
<1>7. ASSUME NEW v \in Writers, RunRefresh(v) \/ SkipFlush(v) \/ Reject(v) PROVE GamesOrdered'
  <2>1. EndJob(v) /\ UNCHANGED <<store, pushes, pending>>
    BY <1>7 DEF RunRefresh, SkipFlush, Reject, economyVars, historyVars
  <2>2. \A w \in Writers : Applied(w)' = Applied(w)  BY <2>1 DEF Applied
  <2>3. ambiguous \subseteq ambiguous' /\ (v \notin ambiguous' => Stored(v) = 0)
    BY <1>7 DEF RunRefresh, SkipFlush, Reject, Stored, historyVars
  <2>4. Applied(v) \in Int  BY AppliedType
  <2>5. v \notin ambiguous' => Applied(v) + Stored(v) <= Applied(v)'  BY <2>2, <2>3, <2>4
  <2> QED  BY <1>6, <2>1, <2>2, <2>3, <2>5, EndJobFacts
<1>8. ASSUME NEW v \in Writers, Finish(v) PROVE GamesOrdered'
  <2> DEFINE queued == SubSeq(pending[v], batch[v] + 1, Len(pending[v]))
  <2>1. /\ pending' = [pending EXCEPT ![v] = queued] /\ step[v] = "landed" /\ EndJob(v)
        /\ UNCHANGED <<store, pushes, ambiguous>>
    BY <1>8 DEF Finish, historyVars
  <2>2. batch[v] \in 0..Len(pending[v])  BY <1>2, <2>1 DEF BatchIsWritten
  <2>3. Len(queued) = Len(pending[v]) - batch[v]  BY <1>2, <2>2, RemainderFacts
  <2> HIDE DEF queued
  <2>4. pending'[v] = queued /\ \A w \in Writers \ {v} : pending'[w] = pending[w]
    BY <2>1 DEF SyncTypeOK
  <2>5. Applied(v)' = Applied(v) + batch[v] /\ Stored(v) = batch[v]
    BY <1>2, <2>1, <2>2, <2>3, <2>4 DEF Applied, Stored
  <2>6. \A w \in Writers \ {v} : Applied(w)' = Applied(w)  BY <2>1, <2>4 DEF Applied
  <2>7. Applied(v) + Stored(v) <= Applied(v)'
    <3>1. Applied(v) \in Int  BY AppliedType
    <3> QED  BY <1>2, <2>5, <3>1
  <2> QED  BY <1>6, <2>1, <2>6, <2>7, EndJobFacts
<1>9. ASSUME NEW v \in Writers, Exit(v) PROVE GamesOrdered'
  <2>1. /\ step'[v] = "idle" /\ pending'[v] = <<>>
        /\ UNCHANGED <<store, pushes, ambiguous>>
        /\ \A w \in Writers \ {v} : /\ step'[w] = step[w] /\ batch'[w] = batch[w]
                                    /\ next'[w] = next[w] /\ pending'[w] = pending[w]
    BY <1>9 DEF Exit, SyncTypeOK
  <2>2. Stored(v)' = 0  BY <2>1 DEF Stored
  <2>3. \A w \in Writers \ {v} : Applied(w)' = Applied(w)  BY <2>1 DEF Applied
  <2>4. Applied(v)' = pushes[v]
    <3>1. Len(pending'[v]) = 0  BY <2>1
    <3> QED  BY <1>2, <2>1, <3>1 DEF Applied
  <2>5. Stored(v) <= Len(pending[v])  BY <1>2 DEF Stored, BatchIsWritten
  <2>6. Applied(v) + Stored(v) <= Applied(v)'
    <3>1. Stored(v) \in Nat  BY AppliedType
    <3> QED  BY <1>2, <2>4, <2>5, <3>1 DEF Applied
  <2> QED  BY <1>6, <2>1, <2>2, <2>3, <2>6
<1>10. ASSUME NEW v \in Writers, ReadAndReplay(v) PROVE GamesOrdered'
  BY <1>1, <1>10, ReadStep
<1>11. ASSUME NEW v \in Writers, Land(v) PROVE GamesOrdered'
  BY <1>1, <1>11, LandStep
<1>12. CASE UNCHANGED syncVars
  BY <1>3, <1>12 DEF syncVars, economyVars, jobVars, historyVars, Applied
<1> QED
  BY <1>4, <1>5, <1>7, <1>8, <1>9, <1>10, <1>11, <1>12 DEF SyncNext, Work

(***************************************************************************)
(* A session's inputs reach the shared economy once each and in the order  *)
(* it pushed them, unless one of its writes took effect and was reported   *)
(* as failed.                                                              *)
(***************************************************************************)
THEOREM InputsInOrder == SyncSpec => []AppliedInOrder
<1>1. SyncInit => BatchIsWritten /\ OrderInv
  <2> SUFFICES ASSUME SyncInit PROVE BatchIsWritten /\ OrderInv
    OBVIOUS
  <2>1. Len(<<>>) = 0  OBVIOUS
  <2>2. BatchIsWritten  BY DEF SyncInit, BatchIsWritten
  <2>3. QueueIsLatest /\ NothingAdopted
    BY <2>1 DEF SyncInit, QueueIsLatest, NothingAdopted
  <2>4. GamesOrdered
    BY <2>1 DEF SyncInit, GamesOrdered, InputsOrdered, NothingStored, InitialGame
  <2> QED  BY <2>2, <2>3, <2>4 DEF OrderInv
<1>2. (SyncTypeOK /\ StampsAreFresh /\ ReadIsKept) /\ SyncTypeOK' /\ (BatchIsWritten /\ OrderInv) /\ [SyncNext]_syncVars
        => (BatchIsWritten /\ OrderInv)'
  <2> SUFFICES ASSUME SyncTypeOK, StampsAreFresh, ReadIsKept, SyncTypeOK', BatchIsWritten, OrderInv, [SyncNext]_syncVars
               PROVE  BatchIsWritten' /\ OrderInv'
    OBVIOUS
  <2>1. BatchIsWritten'  BY BatchStep
  <2>2. QueueIsLatest'  BY LatestStep DEF OrderInv
  <2>3. NothingAdopted'  BY AdoptedStep DEF OrderInv
  <2>4. GamesOrdered'  BY GamesOrderStep
  <2> QED  BY <2>1, <2>2, <2>3, <2>4 DEF OrderInv
<1>3. SyncTypeOK /\ OrderInv => AppliedInOrder
  <2> SUFFICES ASSUME SyncTypeOK, OrderInv, NEW i \in 1..Len(store.game), NEW j \in 1..Len(store.game), i < j,
                      store.game[i][1] = store.game[j][1], store.game[i][1] \notin ambiguous
               PROVE  store.game[i][2] < store.game[j][2]
    BY DEF AppliedInOrder
  <2>1. store.game[i] \in Inputs  BY DEF SyncTypeOK, Records, Games
  <2>2. PICK w \in Writers : w = store.game[i][1]  BY <2>1 DEF Inputs
  <2>3. w \in Writers \ ambiguous  BY <2>2
  <2>4. InputsOrdered(store.game, w, Applied(w) + Stored(w))  BY <2>3 DEF OrderInv, GamesOrdered
  <2> QED  BY <2>2, <2>4 DEF InputsOrdered
<1> QED  BY <1>1, <1>2, <1>3, SyncTypeCorrect, ReadsAreKept, PTL DEF SyncSpec

=============================================================================
