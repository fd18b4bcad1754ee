---------------------------- MODULE AgentProofs ----------------------------
(***************************************************************************)
(* Machine-checked facts about AgentTurn, for any number of turns and any  *)
(* limits of the store and the display: the conversation is always one of  *)
(* whole exchanges, and the verdict of a turn says what became of it; and  *)
(* about ModelService, for any threads, queues and restarts: a request     *)
(* meets a worker at rest, and a call is handed the answer to its own.     *)
(***************************************************************************)
EXTENDS AgentTurn, ModelService, SequenceTheorems, WellFoundedInduction, TLAPS

-----------------------------------------------------------------------------
(* The inductive invariant.                                                *)

(* Where the thread is before its answer is on display, while the answer   *)
(* is written, and as long as the question has no answer in the store.     *)
Opening == {"begin", "load", "prompt", "execute"}
Writing == {"shown", "open", "stream", "render", "last", "decide"}
Unanswered == Opening \cup Writing \cup {"commit", "abort"}

(* The thread, the status and the turn belong together.                    *)
PlaceOK ==
    /\ IsActive <=> pc # "none"
    /\ IsActive => active_turn = count
    /\ pc \in {"load", "prompt"} \cup Writing => mode = "chat"
    /\ pc = "execute" => mode = "task"
    /\ pc \in {"abort", "end"} => verdict \in {"cancelled", "failed"}
    /\ early /\ pc # "none" => cancel_event /\ pc \in Looks \cup {"abort", "end"}

(* The store alternates, its last question is open exactly while the       *)
(* thread owes the answer, and only the latest turn has the latest number. *)
Alternates(s) ==
    \A i \in 1 .. Len(s) :
        /\ s[i].role = IF i % 2 = 1 THEN "user" ELSE "assistant"
        /\ i % 2 = 0 => s[i].turn = s[i - 1].turn

Gone(n) == \A i \in 1 .. Len(turns) : turns[i].turn < n

StoreOK ==
    /\ Alternates(turns)
    /\ Gone(count + 1)
    /\ Len(turns) % 2 = 1 <=> pc \in Unanswered
    /\ pc \in Unanswered =>
          /\ turns[Len(turns)].sequence = active_user_sequence
          /\ turns[Len(turns)].turn = count
          /\ \A i \in 1 .. Len(turns) - 1 : turns[i].turn < count
    /\ pc = "succeed" \/ status = "succeeded" =>
          turns # <<>> /\ turns[Len(turns)].turn = count
    /\ pc = "end" \/ status \in {"failed", "cancelled"} => Gone(count)
    /\ next_sequence <= IF pc \in Unanswered \cup {"end"} THEN 2 * count ELSE 2 * count + 1

(* One partial answer at most is on display, the newest message, while the *)
(* thread writes it.                                                       *)
DisplayOK ==
    /\ pc \in Opening \cup {"none"} \/ (pc \in {"commit", "succeed"} /\ mode = "task") =>
          \A i \in 1 .. Len(messages) : ~messages[i].streaming
    /\ pc \in Writing \/ (pc \in {"commit", "succeed"} /\ mode = "chat") =>
          /\ messages # <<>>
          /\ messages[Len(messages)].streaming
          /\ messages[Len(messages)].turn = count

HonouredOK == status = "succeeded" => ~early

TurnInv == TypeOK /\ PlaceOK /\ StoreOK /\ DisplayOK /\ HonouredOK

-----------------------------------------------------------------------------
(* Numbers and sums.                                                       *)

(* A set of numbers that has 0, and with a number the next, has them all.  *)
LEMMA Induction ==
    ASSUME NEW T, 0 \in T, \A n \in Nat : n \in T => n + 1 \in T
    PROVE  \A n \in Nat : n \in T
<1> SUFFICES ASSUME NEW z \in Nat, z \notin T PROVE FALSE
  OBVIOUS
<1>1. PICK x \in Nat \ T : \A y \in Nat \ T : ~(<<y, x>> \in OpToRel(<, Nat))
  <2>1. Nat \ T \subseteq Nat /\ Nat \ T # {}
    OBVIOUS
  <2>2. QED
    BY <2>1, NatLessThanWellFounded, WFMin
<1>2. x # 0 /\ x - 1 \in Nat
  OBVIOUS
<1>3. x - 1 \in T
  <2>1. <<x - 1, x>> \in OpToRel(<, Nat)
    BY <1>2 DEF OpToRel
  <2>2. QED
    BY <1>1, <1>2, <2>1
<1>4. QED
  BY <1>2, <1>3

(* Of numbers with a bound one is the largest. *)
LEMMA Largest ==
    ASSUME NEW b \in Nat, NEW T \in SUBSET (0 .. b), T # {}
    PROVE  \E m \in T : \A k \in T : k <= m
<1> DEFINE U == {b - k : k \in T}
<1>1. U \subseteq Nat /\ U # {}
  <2>1. \A k \in T : k \in Nat /\ b - k \in Nat
    OBVIOUS
  <2>2. PICK k \in T : TRUE
    OBVIOUS
  <2>3. b - k \in U
    OBVIOUS
  <2>4. QED
    BY <2>1, <2>3
<1>2. PICK x \in U : \A y \in U : ~(<<y, x>> \in OpToRel(<, Nat))
  BY <1>1, NatLessThanWellFounded, WFMin
<1>3. PICK m \in T : x = b - m
  OBVIOUS
<1>4. \A k \in T : k <= m
  <2> SUFFICES ASSUME NEW k \in T, ~(k <= m) PROVE FALSE
    OBVIOUS
  <2>1. b - k < x /\ b - k \in U /\ b - k \in Nat /\ x \in Nat
    BY <1>3
  <2>2. QED
    BY <1>2, <2>1 DEF OpToRel
<1>5. QED
  BY <1>4

(* The sums of the sizes of the first entries of s, as Chars has them.     *)
Totals(s, n, f) == f = [i \in 0 .. n |-> IF i = 0 THEN 0 ELSE f[i - 1] + s[i].size]

LEMMA TotalsExist ==
    ASSUME NEW s, NEW n \in Nat
    PROVE  \E f : Totals(s, n, f)
<1> DEFINE T == {k \in Nat : \E f : Totals(s, k, f)}
<1>1. 0 \in T
  <2>1. Totals(s, 0, [i \in 0 .. 0 |-> 0])
    BY DEF Totals
  <2>2. QED
    BY <2>1
<1>2. ASSUME NEW k \in Nat, k \in T
      PROVE  k + 1 \in T
  <2>1. PICK f : Totals(s, k, f)
    BY <1>2
  <2> DEFINE g == [i \in 0 .. k + 1 |-> IF i <= k THEN f[i] ELSE f[k] + s[k + 1].size]
  <2>2. \A i \in 0 .. k : f[i] = IF i = 0 THEN 0 ELSE f[i - 1] + s[i].size
    BY <2>1 DEF Totals
  <2>3. \A i \in 0 .. k + 1 : g[i] = IF i = 0 THEN 0 ELSE g[i - 1] + s[i].size
    <3> TAKE i \in 0 .. k + 1
    <3>1. CASE i <= k
      BY <2>2, <3>1
    <3>2. CASE i = k + 1
      BY <3>2
    <3>3. QED
      BY <3>1, <3>2
  <2>4. Totals(s, k + 1, g)
    <3> DEFINE h == [i \in 0 .. k + 1 |-> IF i = 0 THEN 0 ELSE g[i - 1] + s[i].size]
    <3>1. g = h
      <4>1. \A i \in 0 .. k + 1 : g[i] = h[i]
        BY <2>3
      <4>2. QED
        BY <4>1
    <3>2. QED
      BY <3>1 DEF Totals
  <2>5. QED
    BY <2>4
<1>3. n \in T
  <2> HIDE DEF T
  <2>1. QED
    BY <1>1, <1>2, Induction
<1>4. QED
  BY <1>3

(* Sums of a sequence of numbers are numbers. *)
LEMMA TotalsType ==
    ASSUME NEW s, NEW n \in Nat, NEW f, Totals(s, n, f), \A i \in 1 .. n : s[i].size \in Nat
    PROVE  /\ \A i \in 0 .. n : f[i] \in Nat
           /\ f[0] = 0
           /\ \A i \in 1 .. n : f[i] = f[i - 1] + s[i].size
<1>1. \A i \in 0 .. n : f[i] = IF i = 0 THEN 0 ELSE f[i - 1] + s[i].size
  BY DEF Totals
<1> DEFINE T == {k \in Nat : k <= n => f[k] \in Nat}
<1>2. 0 \in T
  BY <1>1
<1>3. ASSUME NEW k \in Nat, k \in T
      PROVE  k + 1 \in T
  <2> SUFFICES ASSUME k + 1 <= n PROVE f[k + 1] \in Nat
    OBVIOUS
  <2>1. f[k] \in Nat /\ k + 1 \in 0 .. n /\ s[k + 1].size \in Nat
    BY <1>3
  <2>2. f[k + 1] = f[k] + s[k + 1].size
    BY <1>1, <2>1
  <2>3. QED
    BY <2>1, <2>2
<1>4. \A k \in Nat : k \in T
  <2> HIDE DEF T
  <2>1. QED
    BY <1>2, <1>3, Induction
<1>5. QED
  BY <1>1, <1>4

(* Where two sequences agree, their sums grow alike. *)
Numbers(s, n) == \A i \in 1 .. n : s[i].size \in Nat
Agree(t, n, s, d) == \A i \in 1 .. n : t[i].size = s[d + i].size

LEMMA TotalsShift ==
    ASSUME NEW s, NEW m \in Nat, NEW f, Totals(s, m, f), Numbers(s, m),
           NEW t, NEW n \in Nat, NEW g, Totals(t, n, g), Numbers(t, n),
           NEW d \in Nat, d + n <= m, Agree(t, n, s, d)
    PROVE  f[d + n] = f[d] + g[n]
<1> USE DEF Numbers, Agree
<1> DEFINE T == {k \in Nat : k <= n => f[d + k] = f[d] + g[k]}
<1>1. /\ \A i \in 0 .. m : f[i] \in Nat
      /\ \A i \in 1 .. m : f[i] = f[i - 1] + s[i].size
  BY TotalsType
<1>2. /\ \A i \in 0 .. n : g[i] \in Nat
      /\ g[0] = 0
      /\ \A i \in 1 .. n : g[i] = g[i - 1] + t[i].size
  BY TotalsType
<1>3. 0 \in T
  <2>1. d \in 0 .. m
    OBVIOUS
  <2>2. QED
    BY <1>1, <1>2, <2>1
<1>4. ASSUME NEW k \in Nat, k \in T
      PROVE  k + 1 \in T
  <2> SUFFICES ASSUME k + 1 <= n PROVE f[d + (k + 1)] = f[d] + g[k + 1]
    OBVIOUS
  <2>1. f[d + k] = f[d] + g[k]
    BY <1>4
  <2>2. k + 1 \in 1 .. n /\ d + (k + 1) \in 1 .. m /\ (d + (k + 1)) - 1 = d + k /\ (k + 1) - 1 = k
    OBVIOUS
  <2>3. f[d + (k + 1)] = f[d + k] + s[d + (k + 1)].size
    BY <1>1, <2>2
  <2>4. g[k + 1] = g[k] + t[k + 1].size /\ t[k + 1].size = s[d + (k + 1)].size
    BY <1>2, <2>2
  <2>5. f[d] \in Nat /\ g[k] \in Nat /\ t[k + 1].size \in Nat
    BY <1>1, <1>2, <2>2
  <2>6. QED
    BY <2>1, <2>3, <2>4, <2>5
<1>5. \A k \in Nat : k \in T
  <2> HIDE DEF T
  <2>1. QED
    BY <1>3, <1>4, Induction
<1>6. QED
  BY <1>5

(* The entries of the store. *)
Entries == [sequence : 1 .. 2 * Asked, role : {"user", "assistant"}, size : Sizes, turn : Turns]

LEMMA EntrySizes ==
    ASSUME NEW s \in Seq(Entries)
    PROVE  Len(s) \in Nat /\ \A i \in 1 .. Len(s) : s[i] \in Entries /\ s[i].size \in Nat
<1>1. \A i \in 1 .. Len(s) : s[i] \in Entries
  BY ElementOfSeq
<1>2. QED
  BY <1>1, StoreAssumption, LenProperties DEF Entries, StoreLimits

(* Chars is the last of the sums. *)
LEMMA CharsIsTotal ==
    ASSUME NEW s \in Seq(Entries)
    PROVE  \E f : Totals(s, Len(s), f) /\ Chars(s) = f[Len(s)]
<1> DEFINE f == CHOOSE f : Totals(s, Len(s), f)
<1>1. Len(s) \in Nat
  BY LenProperties
<1>2. Totals(s, Len(s), f)
  BY <1>1, TotalsExist
<1>3. Chars(s) = f[Len(s)]
  BY DEF Chars, Totals
<1>4. QED
  BY <1>2, <1>3

LEMMA CharsIsNumber ==
    ASSUME NEW s \in Seq(Entries)
    PROVE  Chars(s) \in Nat /\ (s = <<>> => Chars(s) = 0)
<1>1. PICK f : Totals(s, Len(s), f) /\ Chars(s) = f[Len(s)]
  BY CharsIsTotal
<1>2. \A i \in 0 .. Len(s) : f[i] \in Nat
  BY <1>1, EntrySizes, TotalsType
<1>3. f[0] = 0
  BY <1>1, EntrySizes, TotalsType
<1>4. s = <<>> => Len(s) = 0
  OBVIOUS
<1>5. QED
  BY <1>1, <1>2, <1>3, <1>4, EntrySizes

(* One more entry adds its size; the rest of a sequence has no more than   *)
(* the whole, at either end.                                               *)
LEMMA CharsOfAppend ==
    ASSUME NEW s \in Seq(Entries), NEW e \in Entries
    PROVE  Chars(Append(s, e)) = Chars(s) + e.size
<1> DEFINE t == Append(s, e)
           n == Len(s)
<1>1. t \in Seq(Entries) /\ n \in Nat /\ Len(t) = n + 1 /\ t[n + 1] = e
      /\ \A i \in 1 .. n : t[i] = s[i]
  BY AppendProperties, LenProperties
<1> HIDE DEF t
<1>2. PICK f : Totals(t, n + 1, f) /\ Chars(t) = f[n + 1]
  BY <1>1, CharsIsTotal
<1>3. PICK g : Totals(s, n, g) /\ Chars(s) = g[n]
  BY CharsIsTotal
<1>4. Numbers(t, n + 1)
  BY <1>1, EntrySizes DEF Numbers
<1>5. Numbers(s, n)
  BY EntrySizes DEF Numbers
<1>6. n + 1 \in Nat /\ 0 \in Nat /\ 0 + n <= n + 1 /\ Agree(s, n, t, 0)
  BY <1>1 DEF Agree
<1>7. f[0 + n] = f[0] + g[n]
  BY <1>1, <1>2, <1>3, <1>4, <1>5, <1>6, TotalsShift
<1>8. f[0] = 0 /\ f[n + 1] = f[n] + t[n + 1].size
  <2>1. /\ f[0] = 0
        /\ \A i \in 1 .. n + 1 : f[i] = f[i - 1] + t[i].size
    BY <1>2, <1>4, <1>6, TotalsType DEF Numbers
  <2>2. n + 1 \in 1 .. n + 1 /\ (n + 1) - 1 = n
    BY <1>1
  <2>3. QED
    BY <2>1, <2>2
<1>9. g[n] \in Nat
  <2>1. \A i \in 0 .. n : g[i] \in Nat
    BY <1>1, <1>3, <1>5, TotalsType DEF Numbers
  <2>2. QED
    BY <1>1, <2>1
<1>10. QED
  BY <1>1, <1>2, <1>3, <1>7, <1>8, <1>9 DEF t

LEMMA CharsOfFront ==
    ASSUME NEW s \in Seq(Entries), s # <<>>
    PROVE  Front(s) \in Seq(Entries) /\ Len(Front(s)) = Len(s) - 1 /\ Chars(Front(s)) <= Chars(s)
<1>1. PICK r \in Seq(Entries), e \in Entries : s = Append(r, e)
  BY SequenceEmptyOrAppend
<1>2. /\ Len(s) = Len(r) + 1 /\ Len(r) \in Nat
      /\ \A i \in 1 .. Len(r) : s[i] = r[i]
  BY <1>1, AppendProperties, LenProperties
<1>3. \A i \in 1 .. Len(s) - 1 : s[i] \in Entries
  BY <1>2, EntrySizes
<1>4. /\ Front(s) \in Seq(Entries) /\ Len(Front(s)) = Len(r)
      /\ \A i \in 1 .. Len(r) : Front(s)[i] = s[i]
  BY <1>2, <1>3, SubSeqProperties DEF Front
<1>5. Front(s) = r
  BY <1>2, <1>4, SeqEqual
<1>6. Chars(s) = Chars(r) + e.size /\ Chars(r) \in Nat /\ e.size \in Nat
  BY <1>1, CharsOfAppend, CharsIsNumber, StoreAssumption DEF Entries, StoreLimits
<1>7. QED
  BY <1>2, <1>4, <1>5, <1>6

LEMMA CharsOfTail ==
    ASSUME NEW s \in Seq(Entries), s # <<>>
    PROVE  Chars(Tail(s)) <= Chars(s)
<1> DEFINE t == Tail(s)
           n == Len(t)
<1>1. t \in Seq(Entries) /\ n \in Nat /\ Len(s) = n + 1 /\ \A i \in 1 .. n : t[i] = s[1 + i]
  <2>1. t \in Seq(Entries) /\ n = Len(s) - 1 /\ \A i \in 1 .. n : t[i] = s[i + 1]
    BY HeadTailProperties
  <2>2. Len(s) \in Nat /\ n \in Nat
    BY <2>1, LenProperties
  <2>3. QED
    BY <2>1, <2>2
<1> HIDE DEF t
<1>2. PICK f : Totals(s, n + 1, f) /\ Chars(s) = f[n + 1]
  BY <1>1, CharsIsTotal
<1>3. PICK g : Totals(t, n, g) /\ Chars(t) = g[n]
  BY <1>1, CharsIsTotal
<1>4. Numbers(s, n + 1)
  BY <1>1, EntrySizes DEF Numbers
<1>5. Numbers(t, n)
  BY <1>1, EntrySizes DEF Numbers
<1>6. n + 1 \in Nat /\ 1 \in Nat /\ 1 + n <= n + 1 /\ Agree(t, n, s, 1)
  BY <1>1 DEF Agree
<1>7. f[1 + n] = f[1] + g[n]
  BY <1>1, <1>2, <1>3, <1>4, <1>5, <1>6, TotalsShift
<1>8. \A i \in 0 .. n + 1 : f[i] \in Nat
  BY <1>2, <1>4, <1>6, TotalsType DEF Numbers
<1>9. \A i \in 0 .. n : g[i] \in Nat
  BY <1>1, <1>3, <1>5, TotalsType DEF Numbers
<1>10. f[1] \in Nat /\ g[n] \in Nat /\ 1 + n = n + 1
  BY <1>1, <1>8, <1>9
<1>11. QED
  BY <1>2, <1>3, <1>7, <1>10 DEF t

-----------------------------------------------------------------------------
(* The store.                                                              *)

LEMMA LastOfIs ==
    ASSUME NEW s \in Seq(Entries), NEW n \in 0 .. Len(s)
    PROVE  /\ LastOf(s, n) \in Seq(Entries)
           /\ Len(LastOf(s, n)) = n
           /\ \A i \in 1 .. n : LastOf(s, n)[i] = s[Len(s) - n + i]
<1> DEFINE m == Len(s) - n + 1
<1>1. Len(s) \in Nat /\ n \in Nat /\ m \in Int /\ n <= Len(s) /\ Len(s) - m + 1 = n
  BY LenProperties
<1>2. \A i \in m .. Len(s) : s[i] \in Entries
  BY <1>1, EntrySizes
<1>3. /\ SubSeq(s, m, Len(s)) \in Seq(Entries)
      /\ Len(SubSeq(s, m, Len(s))) = IF m <= Len(s) THEN Len(s) - m + 1 ELSE 0
      /\ \A i \in 1 .. Len(s) - m + 1 : SubSeq(s, m, Len(s))[i] = s[m + i - 1]
  BY <1>1, <1>2, SubSeqProperties
<1>4. \A i \in 1 .. n : m + i - 1 = Len(s) - n + i
  BY <1>1
<1>5. QED
  BY <1>1, <1>3, <1>4 DEF LastOf

LEMMA Halves ==
    ASSUME NEW n \in Nat, n % 2 = 0
    PROVE  \E d \in Nat : n = 2 * d
<1>1. n = 2 * (n \div 2) /\ n \div 2 \in Nat
  OBVIOUS
<1>2. QED
  BY <1>1

LEMMA SizesFit ==
    /\ MaxChars \in Nat
    /\ \A a \in Sizes : a \in Nat /\ a <= MaxChars
    /\ \A a, b \in Sizes : a + b <= MaxChars
<1>1. MaxChars \in Nat /\ \A a \in Sizes : a \in Nat /\ 2 * a <= MaxChars
  BY StoreAssumption DEF StoreLimits
<1>2. QED
  BY <1>1

(* The empty session fits, a message does, and so does an exchange.        *)
LEMMA SmallOnesFit ==
    ASSUME NEW s \in Seq(Entries)
    PROVE  /\ s = <<>> => Fits(s)
           /\ Len(s) \in {1, 2} => Fits(s)
<1>1. Len(<<>>) = 0 /\ <<>> \in Seq(Entries) /\ MaxTurns >= 2 /\ MaxTurns \in Nat
  BY EmptySeq, StoreAssumption DEF StoreLimits
<1>2. s = <<>> => Fits(s)
  <2>1. Chars(<<>>) = 0
    BY <1>1, CharsIsNumber
  <2>2. QED
    BY <1>1, <2>1, StoreAssumption DEF Fits, StoreLimits
<1>3. ASSUME NEW r \in Seq(Entries), Len(r) = 1
      PROVE  Chars(r) = r[1].size
  <2>1. r[1] \in Entries /\ r[1].size \in Nat
    <3>1. \A i \in 1 .. Len(r) : r[i] \in Entries /\ r[i].size \in Nat
      BY EntrySizes
    <3>2. QED
      BY <1>3, <3>1
  <2>2. Append(<<>>, r[1]) = r
    <3>1. /\ Append(<<>>, r[1]) \in Seq(Entries) /\ Len(Append(<<>>, r[1])) = 1
          /\ Append(<<>>, r[1])[1] = r[1]
      BY <1>1, <2>1, AppendProperties
    <3>2. QED
      BY <1>3, <3>1, SeqEqual
  <2>3. Chars(r) = Chars(<<>>) + r[1].size
    BY <1>1, <2>1, <2>2, CharsOfAppend
  <2>4. Chars(<<>>) = 0
    BY <1>1, CharsIsNumber
  <2>5. QED
    BY <2>1, <2>3, <2>4
<1>4. ASSUME Len(s) = 1
      PROVE  Fits(s)
  <2>1. s[1].size \in Sizes
    <3>1. \A i \in 1 .. Len(s) : s[i] \in Entries
      BY EntrySizes
    <3>2. QED
      BY <1>4, <3>1 DEF Entries
  <2>2. s[1].size <= MaxChars
    BY <2>1, SizesFit
  <2>3. QED
    BY <1>1, <1>3, <1>4, <2>2 DEF Fits
<1>5. ASSUME Len(s) = 2
      PROVE  Fits(s)
  <2>1. PICK r \in Seq(Entries), e \in Entries : s = Append(r, e)
    <3>1. s # <<>>
      BY <1>1, <1>5
    <3>2. QED
      BY <3>1, SequenceEmptyOrAppend
  <2>2. Len(r) = 1
    <3>1. Len(Append(r, e)) = Len(r) + 1
      BY AppendProperties
    <3>2. Len(r) \in Nat
      BY LenProperties
    <3>3. Len(r) + 1 = 2
      BY <1>5, <2>1, <3>1
    <3>4. QED
      BY <3>2, <3>3
  <2>3. Chars(s) = r[1].size + e.size /\ r[1].size \in Sizes /\ e.size \in Sizes
    <3>1. \A i \in 1 .. Len(r) : r[i] \in Entries
      BY EntrySizes
    <3>2. r[1].size \in Sizes /\ e.size \in Sizes
      BY <2>1, <2>2, <3>1 DEF Entries
    <3>3. Chars(s) = Chars(r) + e.size /\ Chars(r) = r[1].size
      BY <1>3, <2>1, <2>2, CharsOfAppend
    <3>4. QED
      BY <3>2, <3>3
  <2>4. Chars(s) <= MaxChars
    BY <2>3, SizesFit
  <2>5. QED
    BY <1>1, <1>5, <2>4 DEF Fits
<1>6. QED
  BY <1>2, <1>4, <1>5

(* The longest end that fits is there, and has the last entry; if there is *)
(* an entry before it, it has that too.                                    *)
LEMMA FittingIs ==
    ASSUME NEW s \in Seq(Entries), s # <<>>
    PROVE  \E n \in 1 .. Len(s) :
               /\ Fitting(s) = LastOf(s, n) /\ Fits(LastOf(s, n))
               /\ Len(s) >= 2 => n >= 2
<1> DEFINE T == {n \in 0 .. Len(s) : Fits(LastOf(s, n))}
           fit(n) == Fits(LastOf(s, n)) /\ \A k \in n + 1 .. Len(s) : ~Fits(LastOf(s, k))
           n == CHOOSE n \in 0 .. Len(s) : fit(n)
<1>1. Len(s) \in Nat /\ Len(s) # 0
  BY EmptySeq
<1>2. \A k \in {1, 2} : k <= Len(s) => k \in T
  <2> SUFFICES ASSUME NEW k \in {1, 2}, k <= Len(s) PROVE k \in T
    OBVIOUS
  <2>1. k \in 0 .. Len(s)
    BY <1>1
  <2>2. LastOf(s, k) \in Seq(Entries) /\ Len(LastOf(s, k)) \in {1, 2}
    BY <2>1, LastOfIs
  <2>3. Fits(LastOf(s, k))
    BY <2>2, SmallOnesFit
  <2>4. QED
    BY <2>1, <2>3
<1>3. 1 \in T
  BY <1>1, <1>2
<1>4. PICK m \in T : \A k \in T : k <= m
  BY <1>1, <1>3, Largest
<1>5. m \in 0 .. Len(s) /\ fit(m)
  BY <1>1, <1>4
<1>6. n \in 0 .. Len(s) /\ fit(n)
  <2> HIDE DEF fit
  <2>1. QED
    BY <1>5
<1>7. Fitting(s) = LastOf(s, n)
  BY DEF Fitting
<1> HIDE DEF n
<1>8. \A k \in T : k <= n
  BY <1>1, <1>6
<1>9. QED
  BY <1>1, <1>2, <1>6, <1>7, <1>8

(* Trimming an alternating session drops whole exchanges from its front,   *)
(* never its last entry, and what is left fits.                            *)
LEMMA TrimKeepsTheEnd ==
    ASSUME NEW s \in Seq(Entries), s # <<>>, Alternates(s)
    PROVE  \E d \in Nat :
               /\ 2 * d < Len(s)
               /\ Trim(s) \in Seq(Entries)
               /\ Fits(Trim(s))
               /\ Len(Trim(s)) = Len(s) - 2 * d
               /\ \A i \in 1 .. Len(s) - 2 * d : Trim(s)[i] = s[2 * d + i]
<1>1. PICK n \in 1 .. Len(s) :
          /\ Fitting(s) = LastOf(s, n) /\ Fits(LastOf(s, n))
          /\ Len(s) >= 2 => n >= 2
  BY FittingIs
<1> DEFINE kept == LastOf(s, n)
           o == Len(s) - n
<1>2. Len(s) \in Nat /\ n \in Nat /\ o \in Nat /\ n <= Len(s) /\ n >= 1 /\ n = Len(s) - o
  BY LenProperties
<1>3. /\ kept \in Seq(Entries) /\ Len(kept) = n
      /\ \A i \in 1 .. n : kept[i] = s[o + i]
  BY <1>2, LastOfIs
<1> HIDE DEF kept
<1>4. kept # <<>> /\ Head(kept) = s[o + 1]
  BY <1>2, <1>3
<1>5. Head(kept).role = IF (o + 1) % 2 = 1 THEN "user" ELSE "assistant"
  BY <1>2, <1>4 DEF Alternates
<1>6. CASE o % 2 = 0
  <2>1. PICK d \in Nat : o = 2 * d
    BY <1>2, <1>6, Halves
  <2>2. Head(kept).role = "user"
    BY <1>2, <1>5, <1>6
  <2>3. Trim(s) = kept
    BY <1>1, <2>2 DEF Trim, kept
  <2>4. 2 * d < Len(s) /\ Len(s) - 2 * d = n
    BY <1>2, <2>1
  <2>5. Fits(Trim(s))
    BY <1>1, <2>3 DEF kept
  <2>6. \A i \in 1 .. n : Trim(s)[i] = s[2 * d + i]
    BY <1>3, <2>1, <2>3
  <2>7. QED
    BY <1>3, <2>3, <2>4, <2>5, <2>6
<1>7. CASE o % 2 = 1
  <2>1. PICK d \in Nat : o + 1 = 2 * d
    <3>1. o + 1 \in Nat /\ (o + 1) % 2 = 0
      BY <1>2, <1>7
    <3>2. QED
      BY <3>1, Halves
  <2>2. Head(kept).role = "assistant"
    BY <1>2, <1>5, <1>7
  <2>3. Trim(s) = Tail(kept)
    BY <1>1, <1>4, <2>2 DEF Trim, kept
  <2>4. /\ Tail(kept) \in Seq(Entries) /\ Len(Tail(kept)) = n - 1
        /\ \A i \in 1 .. n - 1 : Tail(kept)[i] = kept[i + 1]
    BY <1>3, <1>4, HeadTailProperties
  <2>5. n - 1 = Len(s) - 2 * d
    BY <1>2, <2>1
  <2>6. \A i \in 1 .. n - 1 : Tail(kept)[i] = s[2 * d + i]
    <3> TAKE i \in 1 .. n - 1
    <3>1. i + 1 \in 1 .. n /\ o + (i + 1) = 2 * d + i
      BY <1>2, <2>1
    <3>2. QED
      BY <1>3, <2>4, <3>1
  <2>7. Fits(Tail(kept))
    <3>1. Chars(Tail(kept)) <= Chars(kept)
      BY <1>3, <1>4, CharsOfTail
    <3>2. Chars(Tail(kept)) \in Nat /\ Chars(kept) \in Nat
      BY <1>3, <2>4, CharsIsNumber
    <3>3. Len(kept) <= MaxTurns /\ Chars(kept) <= MaxChars
      BY <1>1 DEF Fits, kept
    <3>4. QED
      BY <1>2, <1>3, <2>4, <3>1, <3>2, <3>3, StoreAssumption DEF Fits, StoreLimits
  <2>8. 2 * d < Len(s)
    <3>1. n >= 2
      BY <1>1, <1>2, <1>7
    <3>2. QED
      BY <1>2, <2>5, <3>1
  <2>9. QED
    BY <2>3, <2>4, <2>5, <2>6, <2>7, <2>8
<1>8. QED
  BY <1>2, <1>6, <1>7

LEMMA AppendAlternates ==
    ASSUME NEW s \in Seq(Entries), Alternates(s), NEW e \in Entries,
           e.role = IF Len(s) % 2 = 0 THEN "user" ELSE "assistant",
           Len(s) % 2 = 1 => e.turn = s[Len(s)].turn
    PROVE  Alternates(Append(s, e))
<1> DEFINE t == Append(s, e)
           n == Len(s)
<1>1. n \in Nat /\ Len(t) = n + 1 /\ t[n + 1] = e /\ \A i \in 1 .. n : t[i] = s[i]
  BY AppendProperties, LenProperties
<1> HIDE DEF t, n
<1> SUFFICES ASSUME NEW i \in 1 .. n + 1
             PROVE  /\ t[i].role = IF i % 2 = 1 THEN "user" ELSE "assistant"
                    /\ i % 2 = 0 => t[i].turn = t[i - 1].turn
  BY <1>1 DEF Alternates, t
<1>2. CASE i <= n
  <2>1. i \in 1 .. n /\ (i % 2 = 0 => i - 1 \in 1 .. n)
    BY <1>1, <1>2
  <2>2. QED
    BY <1>1, <2>1 DEF Alternates, n
<1>3. CASE i = n + 1
  <2>1. (i % 2 = 1 <=> n % 2 = 0) /\ (i % 2 = 0 <=> n % 2 = 1) /\ (n % 2 = 1 => n \in 1 .. n)
    BY <1>1, <1>3
  <2>2. QED
    BY <1>1, <1>3, <2>1 DEF n
<1>4. QED
  BY <1>1, <1>2, <1>3

LEMMA EndAlternates ==
    ASSUME NEW s \in Seq(Entries), Alternates(s), NEW r \in Seq(Entries),
           NEW d \in Nat, 2 * d < Len(s), Len(r) = Len(s) - 2 * d,
           \A i \in 1 .. Len(s) - 2 * d : r[i] = s[2 * d + i]
    PROVE  /\ Alternates(r)
           /\ Len(r) % 2 = Len(s) % 2
           /\ r # <<>> /\ r[Len(r)] = s[Len(s)]
<1>1. Len(s) \in Nat /\ Len(r) \in Nat /\ Len(r) >= 1
  BY LenProperties
<1>2. ASSUME NEW i \in 1 .. Len(r)
      PROVE  /\ r[i].role = IF i % 2 = 1 THEN "user" ELSE "assistant"
             /\ i % 2 = 0 => r[i].turn = r[i - 1].turn
  <2>1. 2 * d + i \in 1 .. Len(s) /\ (2 * d + i) % 2 = i % 2 /\ (2 * d + i) - 1 = 2 * d + (i - 1)
    BY <1>1
  <2>2. r[i] = s[2 * d + i]
    BY <1>2
  <2>3. i % 2 = 0 => r[i - 1] = s[2 * d + (i - 1)]
    <3>1. i % 2 = 0 => i - 1 \in 1 .. Len(s) - 2 * d
      <4>1. i \in Nat /\ 1 % 2 = 1 /\ i <= Len(s) - 2 * d /\ i >= 1
        BY <1>1
      <4>2. i % 2 = 0 => i >= 2
        BY <4>1
      <4>3. QED
        BY <1>1, <4>1, <4>2
    <3>2. QED
      BY <3>1
  <2>4. QED
    BY <2>1, <2>2, <2>3 DEF Alternates
<1>3. Len(r) % 2 = Len(s) % 2
  <2>1. Len(s) = Len(r) + 2 * d
    BY <1>1
  <2>2. QED
    BY <1>1, <2>1
<1>4. r[Len(r)] = s[Len(s)]
  <2>1. Len(r) \in 1 .. Len(s) - 2 * d /\ 2 * d + Len(r) = Len(s)
    BY <1>1
  <2>2. QED
    BY <2>1
<1>5. QED
  BY <1>1, <1>2, <1>3, <1>4 DEF Alternates

LEMMA TurnsAreEntries ==
    ASSUME TypeOK
    PROVE  /\ turns \in Seq(Entries) /\ Len(turns) \in Nat
           /\ (turns # <<>> <=> Len(turns) # 0)
           /\ Last(turns) = turns[Len(turns)]
           /\ next_sequence \in Nat /\ count \in Nat /\ Asked \in Nat
           /\ \A i \in 1 .. Len(turns) : turns[i] \in Entries
<1>1. turns \in Seq(Entries)
  BY DEF TypeOK, Entries
<1>2. Len(turns) \in Nat
  BY <1>1, LenProperties
<1>3. turns # <<>> <=> Len(turns) # 0
  BY <1>1, EmptySeq
<1>4. QED
  BY <1>1, <1>2, <1>3, EntrySizes, StoreAssumption DEF TypeOK, Last

(* start_turn: the question is the last entry, of a turn of its own.       *)
LEMMA QuestionIsKept ==
    ASSUME TypeOK, PlaceOK, StoreOK, StartTurn
    PROVE  /\ turns' \in Seq(Entries) /\ Fits(turns') /\ Alternates(turns')
           /\ Len(turns') % 2 = 1
           /\ turns'[Len(turns')].sequence = next_sequence
           /\ turns'[Len(turns')].turn = count + 1
           /\ \A i \in 1 .. Len(turns') - 1 : turns'[i].turn < count + 1
           /\ \E d \in Nat :
                 /\ 2 * d <= Len(turns)
                 /\ Len(turns') = Len(turns) + 1 - 2 * d
                 /\ \A i \in 1 .. Len(turns) - 2 * d : turns'[i] = turns[2 * d + i]
<1>1. PICK size \in Sizes : BeginUserTurn(count + 1, size)
  BY DEF StartTurn
<1> DEFINE e == TurnOf(count + 1, "user", size)
           s == Append(turns, e)
<1>2. Len(turns) % 2 = 0
  BY TurnsAreEntries DEF StartTurn, PlaceOK, StoreOK, Unanswered, Opening, Writing
<1>3. count + 1 \in Turns /\ next_sequence \in 1 .. 2 * Asked
  <2>1. next_sequence <= 2 * count + 1 /\ count < Asked /\ count \in Nat /\ next_sequence \in Nat
    BY TurnsAreEntries DEF StartTurn, PlaceOK, StoreOK, Unanswered, Opening, Writing
  <2>2. next_sequence >= 1
    BY DEF TypeOK
  <2>3. QED
    BY <2>1, <2>2, TurnsAreEntries DEF Turns
<1>4. e \in Entries /\ e.role = "user" /\ e.sequence = next_sequence /\ e.turn = count + 1
  BY <1>3 DEF TurnOf, Entries
<1> HIDE DEF e
<1>5. /\ s \in Seq(Entries) /\ Len(s) = Len(turns) + 1 /\ s # <<>> /\ s[Len(turns) + 1] = e
      /\ \A i \in 1 .. Len(turns) : s[i] = turns[i]
  BY <1>4, TurnsAreEntries, AppendProperties
<1>6. Alternates(s)
  BY <1>2, <1>4, TurnsAreEntries, AppendAlternates DEF StoreOK
<1>7. turns' = Trim(s)
  BY <1>1 DEF BeginUserTurn, e
<1> HIDE DEF s
<1>8. PICK d \in Nat :
          /\ 2 * d < Len(s)
          /\ turns' \in Seq(Entries)
          /\ Fits(turns')
          /\ Len(turns') = Len(s) - 2 * d
          /\ \A i \in 1 .. Len(s) - 2 * d : turns'[i] = s[2 * d + i]
  BY <1>5, <1>6, <1>7, TrimKeepsTheEnd
<1>9. /\ Alternates(turns') /\ Len(turns') % 2 = Len(s) % 2
      /\ turns'[Len(turns')] = s[Len(s)]
  BY <1>5, <1>6, <1>8, EndAlternates
<1>10. Len(turns) \in Nat /\ Len(s) % 2 = 1
  <2>1. Len(turns) \in Nat
    BY TurnsAreEntries
  <2>2. QED
    BY <1>2, <1>5, <2>1
<1>11. ASSUME NEW i \in 1 .. Len(turns) - 2 * d
       PROVE  turns'[i] = turns[2 * d + i] /\ turns'[i].turn < count + 1
  <2>1. i \in 1 .. Len(s) - 2 * d /\ 2 * d + i \in 1 .. Len(turns)
    BY <1>5, <1>10
  <2>2. turns'[i] = turns[2 * d + i]
    BY <1>5, <1>8, <2>1
  <2>3. turns[2 * d + i].turn < count + 1
    BY <2>1 DEF StoreOK, Gone
  <2>4. QED
    BY <2>2, <2>3
<1>12. 2 * d <= Len(turns) /\ Len(turns') = Len(turns) + 1 - 2 * d
       /\ Len(turns') - 1 = Len(turns) - 2 * d
  BY <1>5, <1>8, <1>10
<1>13. QED
  BY <1>4, <1>5, <1>8, <1>9, <1>10, <1>11, <1>12

(* commit_assistant_turn: the exchange is the last one of the store.       *)
LEMMA ExchangeIsKept ==
    ASSUME TypeOK, PlaceOK, StoreOK, pc = "commit",
           NEW size \in Sizes, CommitAssistantTurn(size)
    PROVE  /\ turns' \in Seq(Entries) /\ Fits(turns') /\ Alternates(turns')
           /\ Len(turns') % 2 = 0 /\ Len(turns') >= 2
           /\ turns'[Len(turns')].turn = count
           /\ \A i \in 1 .. Len(turns') : turns'[i].turn < count + 1
           /\ next_sequence \in 1 .. 2 * Asked
           /\ \E d \in Nat :
                 /\ 2 * d < Len(turns)
                 /\ Len(turns') = Len(turns) + 1 - 2 * d
                 /\ \A i \in 1 .. Len(turns) - 2 * d : turns'[i] = turns[2 * d + i]
<1> DEFINE e == TurnOf(active_turn, "assistant", size)
           s == Append(turns, e)
<1>1. /\ Len(turns) % 2 = 1
      /\ turns[Len(turns)].turn = count
      /\ active_turn = count
      /\ next_sequence <= 2 * count
  BY DEF PlaceOK, StoreOK, Unanswered, Opening, Writing
<1>2. Len(turns) \in 1 .. Len(turns) /\ Len(turns) \in Nat
  <2>1. Len(turns) \in Nat
    BY TurnsAreEntries
  <2>2. QED
    BY <1>1, <2>1
<1>3. count \in Turns /\ next_sequence \in 1 .. 2 * Asked
  <2>1. turns[Len(turns)] \in Entries
    BY <1>2, TurnsAreEntries
  <2>2. count \in Turns
    BY <1>1, <2>1 DEF Entries
  <2>3. next_sequence >= 1 /\ next_sequence \in Nat
    BY TurnsAreEntries DEF TypeOK
  <2>4. QED
    BY <1>1, <2>2, <2>3, TurnsAreEntries DEF Turns
<1>4. e \in Entries /\ e.role = "assistant" /\ e.turn = count
  BY <1>1, <1>3 DEF TurnOf, Entries
<1> HIDE DEF e
<1>5. /\ s \in Seq(Entries) /\ Len(s) = Len(turns) + 1 /\ s # <<>> /\ s[Len(turns) + 1] = e
      /\ \A i \in 1 .. Len(turns) : s[i] = turns[i]
  BY <1>4, TurnsAreEntries, AppendProperties
<1>6. Alternates(s)
  BY <1>1, <1>4, TurnsAreEntries, AppendAlternates DEF StoreOK
<1>7. turns' = Trim(s)
  BY DEF CommitAssistantTurn, e
<1> HIDE DEF s
<1>8. PICK d \in Nat :
          /\ 2 * d < Len(s)
          /\ turns' \in Seq(Entries)
          /\ Fits(turns')
          /\ Len(turns') = Len(s) - 2 * d
          /\ \A i \in 1 .. Len(s) - 2 * d : turns'[i] = s[2 * d + i]
  BY <1>5, <1>6, <1>7, TrimKeepsTheEnd
<1>9. /\ Alternates(turns') /\ Len(turns') % 2 = Len(s) % 2
      /\ turns'[Len(turns')] = s[Len(s)]
  BY <1>5, <1>6, <1>8, EndAlternates
<1>10. Len(s) % 2 = 0
  BY <1>1, <1>2, <1>5
<1>11. 2 * d < Len(turns) /\ Len(turns') = Len(turns) + 1 - 2 * d /\ Len(turns') >= 2
  <2>1. (2 * d) % 2 = 0
    OBVIOUS
  <2>2. 2 * d # Len(turns)
    BY <1>1, <2>1
  <2>3. 2 * d < Len(turns) + 1 /\ Len(turns') = Len(turns) + 1 - 2 * d
    BY <1>5, <1>8
  <2>4. QED
    BY <1>2, <2>2, <2>3
<1>12. ASSUME NEW i \in 1 .. Len(turns) - 2 * d
       PROVE  turns'[i] = turns[2 * d + i] /\ turns'[i].turn < count + 1
  <2>1. i \in 1 .. Len(s) - 2 * d /\ 2 * d + i \in 1 .. Len(turns)
    BY <1>2, <1>5
  <2>2. turns'[i] = turns[2 * d + i]
    BY <1>5, <1>8, <2>1
  <2>3. turns[2 * d + i].turn < count + 1
    BY <2>1 DEF StoreOK, Gone
  <2>4. QED
    BY <2>2, <2>3
<1>13. turns'[Len(turns')].turn = count
  BY <1>4, <1>5, <1>9
<1>14. ASSUME NEW i \in 1 .. Len(turns')
       PROVE  turns'[i].turn < count + 1
  <2>1. i \in 1 .. Len(turns) - 2 * d \/ i = Len(turns')
    BY <1>2, <1>11
  <2>2. count < count + 1
    BY TurnsAreEntries
  <2>3. QED
    BY <1>12, <1>13, <2>1, <2>2
<1>15. QED
  BY <1>3, <1>8, <1>9, <1>10, <1>11, <1>12, <1>13, <1>14

(* abort_user_turn: the question is withdrawn, and nothing else.           *)
LEMMA QuestionIsWithdrawn ==
    ASSUME TypeOK, PlaceOK, StoreOK, pc = "abort", AbortUserTurn
    PROVE  /\ turns' = Front(turns)
           /\ turns' \in Seq(Entries) /\ Fits(turns') /\ Alternates(turns')
           /\ Len(turns') = Len(turns) - 1
           /\ Len(turns') % 2 = 0
           /\ \A i \in 1 .. Len(turns') : turns'[i] = turns[i] /\ turns'[i].turn < count
<1>1. /\ Len(turns) % 2 = 1
      /\ turns[Len(turns)].sequence = active_user_sequence
      /\ \A i \in 1 .. Len(turns) - 1 : turns[i].turn < count
      /\ Alternates(turns)
  BY DEF PlaceOK, StoreOK, Unanswered, Opening, Writing
<1>2. Len(turns) \in 1 .. Len(turns) /\ Len(turns) \in Nat /\ turns \in Seq(Entries) /\ turns # <<>>
  <2>1. Len(turns) \in Nat /\ turns \in Seq(Entries) /\ (turns # <<>> <=> Len(turns) # 0)
    BY TurnsAreEntries
  <2>2. QED
    BY <1>1, <2>1
<1>3. Pending(active_user_sequence)
  <2>1. turns[Len(turns)].role = "user"
    BY <1>1, <1>2 DEF Alternates
  <2>2. QED
    BY <1>1, <1>2, <2>1, TurnsAreEntries DEF Pending
<1>4. turns' = Front(turns)
  BY <1>3 DEF AbortUserTurn
<1>5. turns' \in Seq(Entries) /\ Len(turns') = Len(turns) - 1 /\ Chars(turns') <= Chars(turns)
  BY <1>2, <1>4, CharsOfFront
<1>6. \A i \in 1 .. Len(turns') : turns'[i] = turns[i]
  <2>1. \A i \in 1 .. Len(turns) - 1 : turns[i] \in Entries
    BY <1>2, TurnsAreEntries
  <2>2. \A i \in 1 .. (Len(turns) - 1) - 1 + 1 :
            SubSeq(turns, 1, Len(turns) - 1)[i] = turns[1 + i - 1]
    BY <1>2, <2>1, SubSeqProperties
  <2>3. \A i \in 1 .. Len(turns) - 1 : Front(turns)[i] = turns[i]
    BY <1>2, <2>2 DEF Front
  <2>4. QED
    BY <1>4, <1>5, <2>3
<1>7. Fits(turns')
  <2>1. Chars(turns') \in Nat /\ Chars(turns) \in Nat
    BY <1>2, <1>5, CharsIsNumber
  <2>2. Len(turns) <= MaxTurns /\ Chars(turns) <= MaxChars
    BY DEF TypeOK, Fits
  <2>3. QED
    BY <1>2, <1>5, <2>1, <2>2, StoreAssumption DEF Fits, StoreLimits
<1>8. Alternates(turns')
  <2> SUFFICES ASSUME NEW i \in 1 .. Len(turns')
               PROVE  /\ turns'[i].role = IF i % 2 = 1 THEN "user" ELSE "assistant"
                      /\ i % 2 = 0 => turns'[i].turn = turns'[i - 1].turn
    BY DEF Alternates
  <2>1. i \in 1 .. Len(turns) /\ (i % 2 = 0 => i - 1 \in 1 .. Len(turns'))
    BY <1>2, <1>5
  <2>2. QED
    BY <1>1, <1>6, <2>1 DEF Alternates
<1>9. Len(turns') % 2 = 0
  <2>1. Len(turns') \in Nat /\ Len(turns) = Len(turns') + 1
    BY <1>2, <1>5
  <2>2. (Len(turns') + 1) % 2 = 1
    BY <1>1, <2>1
  <2>3. QED
    BY <2>1, <2>2
<1>10. QED
  BY <1>1, <1>4, <1>5, <1>6, <1>7, <1>8, <1>9

-----------------------------------------------------------------------------
(* The display.                                                            *)

Shows == [turn : Turns, role : {"user", "assistant", "tool", "system"}, streaming : BOOLEAN]

(* The newest message stays, and nothing is shown that was not there.      *)
LEMMA ShownIs ==
    ASSUME NEW ms \in Seq(Shows), Len(ms) <= MaxMessages, NEW m \in Shows
    PROVE  /\ Shown(ms, m) \in Seq(Shows)
           /\ Len(Shown(ms, m)) <= MaxMessages
           /\ Shown(ms, m) # <<>> /\ Shown(ms, m)[Len(Shown(ms, m))] = m
           /\ (\A i \in 1 .. Len(ms) : ~ms[i].streaming) /\ ~m.streaming =>
                 \A i \in 1 .. Len(Shown(ms, m)) : ~Shown(ms, m)[i].streaming
<1> DEFINE all == Append(ms, m)
           n == Len(ms)
<1>1. /\ all \in Seq(Shows) /\ all # <<>> /\ Len(all) = n + 1
      /\ \A i \in 1 .. n : all[i] = ms[i]
      /\ all[n + 1] = m
  BY AppendProperties
<1>2. n \in Nat /\ n <= MaxMessages /\ MaxMessages \in Nat /\ MaxMessages >= 2
  BY LenProperties, StoreAssumption
<1>3. /\ Tail(all) \in Seq(Shows) /\ Len(Tail(all)) = n
      /\ \A i \in 1 .. n : Tail(all)[i] = all[i + 1]
  BY <1>1, <1>2, HeadTailProperties
<1>4. Shown(ms, m) = IF n + 1 > MaxMessages THEN Tail(all) ELSE all
  BY <1>1 DEF Shown
<1> HIDE DEF all, n
<1>5. CASE n + 1 > MaxMessages
  <2>1. n >= 2
    BY <1>2, <1>5
  <2>2. Shown(ms, m) = Tail(all)
    BY <1>4, <1>5
  <2>3. Tail(all)[n] = m /\ Tail(all) # <<>>
    <3>1. n \in 1 .. n
      BY <1>2, <2>1
    <3>2. Len(<<>>) = 0
      OBVIOUS
    <3>3. QED
      BY <1>1, <1>3, <2>1, <3>1, <3>2
  <2>4. ASSUME \A i \in 1 .. n : ~ms[i].streaming, ~m.streaming, NEW i \in 1 .. n
        PROVE  ~Tail(all)[i].streaming
    <3>1. i + 1 \in 1 .. n \/ i + 1 = n + 1
      BY <1>2
    <3>2. QED
      BY <1>1, <1>3, <2>4, <3>1
  <2>5. QED
    BY <1>2, <1>3, <2>2, <2>3, <2>4 DEF n
<1>6. CASE ~(n + 1 > MaxMessages)
  <2>1. Shown(ms, m) = all /\ Len(all) <= MaxMessages
    BY <1>1, <1>2, <1>4, <1>6
  <2>2. ASSUME \A i \in 1 .. n : ~ms[i].streaming, ~m.streaming, NEW i \in 1 .. n + 1
        PROVE  ~all[i].streaming
    <3>1. i \in 1 .. n \/ i = n + 1
      BY <1>2
    <3>2. QED
      BY <1>1, <2>2, <3>1
  <2>3. QED
    BY <1>1, <2>1, <2>2 DEF n
<1>7. QED
  BY <1>5, <1>6

(* Only what is settled stays. *)
Keeps(ms, n, f) ==
    f = [i \in 0 .. n |-> IF i = 0 THEN <<>>
                          ELSE IF ms[i].streaming THEN f[i - 1] ELSE Append(f[i - 1], ms[i])]

LEMMA KeepsExist ==
    ASSUME NEW ms, NEW n \in Nat
    PROVE  \E f : Keeps(ms, n, f)
<1> DEFINE T == {k \in Nat : \E f : Keeps(ms, k, f)}
<1>1. 0 \in T
  <2>1. Keeps(ms, 0, [i \in 0 .. 0 |-> <<>>])
    BY DEF Keeps
  <2>2. QED
    BY <2>1
<1>2. ASSUME NEW k \in Nat, k \in T
      PROVE  k + 1 \in T
  <2>1. PICK f : Keeps(ms, k, f)
    BY <1>2
  <2> DEFINE next(i, r) == IF ms[i].streaming THEN r ELSE Append(r, ms[i])
             g == [i \in 0 .. k + 1 |-> IF i <= k THEN f[i] ELSE next(k + 1, f[k])]
  <2>2. \A i \in 0 .. k : f[i] = IF i = 0 THEN <<>> ELSE next(i, f[i - 1])
    BY <2>1 DEF Keeps
  <2>3. Keeps(ms, k + 1, g)
    <3> DEFINE h == [i \in 0 .. k + 1 |-> IF i = 0 THEN <<>> ELSE next(i, g[i - 1])]
    <3>1. \A i \in 0 .. k + 1 : g[i] = h[i]
      <4> TAKE i \in 0 .. k + 1
      <4> HIDE DEF next
      <4>1. CASE i <= k
        BY <2>2, <4>1
      <4>2. CASE i = k + 1
        BY <4>2
      <4>3. QED
        BY <4>1, <4>2
    <3>2. g = h
      <4> HIDE DEF next
      <4>1. QED
        BY <3>1
    <3>3. QED
      BY <3>2 DEF Keeps
  <2>4. QED
    BY <2>3
<1>3. n \in T
  <2> HIDE DEF T
  <2>1. QED
    BY <1>1, <1>2, Induction
<1>4. QED
  BY <1>3

LEMMA SettledIs ==
    ASSUME NEW ms \in Seq(Shows)
    PROVE  /\ Settled(ms) \in Seq(Shows) /\ Len(Settled(ms)) <= Len(ms)
           /\ \A i \in 1 .. Len(Settled(ms)) : ~Settled(ms)[i].streaming
<1> DEFINE n == Len(ms)
           f == CHOOSE f : Keeps(ms, n, f)
           T == {k \in Nat : k <= n => /\ f[k] \in Seq(Shows) /\ Len(f[k]) <= k
                                       /\ \A i \in 1 .. Len(f[k]) : ~f[k][i].streaming}
<1>1. n \in Nat /\ \A k \in 1 .. n : ms[k] \in Shows
  BY LenProperties, ElementOfSeq
<1>2. Keeps(ms, n, f)
  BY <1>1, KeepsExist
<1>3. Settled(ms) = f[n]
  BY DEF Settled, Keeps
<1> HIDE DEF n, f
<1>4. \A k \in 0 .. n : f[k] = IF k = 0 THEN <<>>
                               ELSE IF ms[k].streaming THEN f[k - 1] ELSE Append(f[k - 1], ms[k])
  BY <1>2 DEF Keeps
<1>5. 0 \in T
  <2>1. f[0] = <<>>
    <3>1. 0 \in 0 .. n
      BY <1>1
    <3>2. f[0] = IF 0 = 0 THEN <<>>
                 ELSE IF ms[0].streaming THEN f[0 - 1] ELSE Append(f[0 - 1], ms[0])
      BY <1>4, <3>1
    <3>3. QED
      BY <3>2
  <2>2. <<>> \in Seq(Shows) /\ Len(<<>>) = 0
    BY EmptySeq
  <2>3. f[0] \in Seq(Shows) /\ Len(f[0]) = 0
    BY <2>1, <2>2
  <2>4. QED
    BY <2>3
<1>6. ASSUME NEW k \in Nat, k \in T
      PROVE  k + 1 \in T
  <2> SUFFICES ASSUME k + 1 <= n
               PROVE  /\ f[k + 1] \in Seq(Shows) /\ Len(f[k + 1]) <= k + 1
                      /\ \A i \in 1 .. Len(f[k + 1]) : ~f[k + 1][i].streaming
    OBVIOUS
  <2>1. /\ f[k] \in Seq(Shows) /\ Len(f[k]) <= k
        /\ \A i \in 1 .. Len(f[k]) : ~f[k][i].streaming
    BY <1>1, <1>6
  <2>2. Len(f[k]) \in Nat
    BY <2>1, LenProperties
  <2>3. k + 1 \in 0 .. n /\ k + 1 \in 1 .. n /\ k + 1 # 0 /\ (k + 1) - 1 = k
    BY <1>1
  <2>4. f[k + 1] = IF ms[k + 1].streaming THEN f[k] ELSE Append(f[k], ms[k + 1])
    BY <1>4, <2>3
  <2>5. CASE ms[k + 1].streaming
    BY <2>1, <2>2, <2>4, <2>5
  <2>6. CASE ~ms[k + 1].streaming
    <3> DEFINE r == Append(f[k], ms[k + 1])
    <3>1. /\ r \in Seq(Shows) /\ Len(r) = Len(f[k]) + 1
          /\ \A i \in 1 .. Len(f[k]) : r[i] = f[k][i]
          /\ r[Len(f[k]) + 1] = ms[k + 1]
      BY <1>1, <2>1, <2>3, AppendProperties
    <3>2. f[k + 1] = r
      BY <2>4, <2>6
    <3> HIDE DEF r
    <3>3. \A i \in 1 .. Len(r) : ~r[i].streaming
      <4> TAKE i \in 1 .. Len(r)
      <4>1. i \in 1 .. Len(f[k]) \/ i = Len(f[k]) + 1
        BY <2>2, <3>1
      <4>2. QED
        BY <2>1, <2>6, <3>1, <4>1
    <3>4. QED
      BY <2>1, <2>2, <3>1, <3>2, <3>3
  <2>7. QED
    BY <2>5, <2>6
<1>7. n \in T
  <2> HIDE DEF T
  <2>1. QED
    BY <1>1, <1>5, <1>6, Induction
<1>8. QED
  BY <1>3, <1>7 DEF n

-----------------------------------------------------------------------------
(* The steps.                                                              *)

(* Where the thread may be, and what it knows. *)
Points == {"none", "begin", "load", "prompt", "shown", "open", "stream", "render",
           "last", "decide", "execute", "commit", "succeed", "abort", "end"}

Control ==
    /\ status \in Active \cup {"ready", "succeeded", "failed", "cancelled"}
    /\ active_turn \in Turns \cup {None}
    /\ active_user_sequence \in 1 .. 2 * Asked \cup {None}
    /\ cancel_event \in BOOLEAN /\ mode \in {"chat", "task"}
    /\ pc \in Points
    /\ verdict \in {"none", "cancelled", "failed"}
    /\ chunks \in 0 .. MaxChunks /\ continuations \in 0 .. MaxContinuations
    /\ request \in BOOLEAN /\ model_cancel \in BOOLEAN
    /\ count \in 0 .. Asked /\ early \in BOOLEAN

Kept ==
    /\ turns \in Seq(Entries) /\ Fits(turns)
    /\ next_sequence \in 1 .. 2 * Asked + 1

Display == messages \in Seq(Shows) /\ Len(messages) <= MaxMessages

LEMMA TypeOKParts == TypeOK <=> Control /\ Kept /\ Display
  BY DEF TypeOK, Control, Kept, Display, Points, Entries, Shows

LEMMA TypeOKLater == TypeOK' <=> Control' /\ Kept' /\ Display'
  BY DEF TypeOK, Control, Kept, Display, Points, Entries, Shows

(* What the thread does between two steps of the store or the display.     *)
Quiet == Begin \/ Load \/ Generating \/ Open \/ Chunk \/ Render \/ Decide \/ Execute

LEMMA QuietControl ==
    ASSUME TurnInv, Quiet \/ Cancel
    PROVE  Control' /\ PlaceOK' /\ HonouredOK'
<1> USE DEF Control, PlaceOK, HonouredOK, Points, Active, IsActive, Looks, Writing, Opening,
            Goto, Ends, Becomes, Closed, manager, store, model, thread
<1>0. Control /\ PlaceOK /\ HonouredOK /\ MaxChunks \in Nat /\ MaxContinuations \in Nat
  BY TypeOKParts, StoreAssumption DEF TurnInv
<1>1. CASE Begin
  BY <1>0, <1>1 DEF Begin
<1>2. CASE Load
  BY <1>0, <1>2 DEF Load
<1>3. CASE Generating
  BY <1>0, <1>3 DEF Generating
<1>4. CASE Open
  <2>1. UNCHANGED <<status, active_turn, active_user_sequence, cancel_event, mode, count, early>>
    BY <1>4 DEF Open
  <2>2. \/ pc' = "abort" /\ verdict' = "failed" /\ UNCHANGED <<chunks, continuations, model>>
        \/ /\ pc' = "stream" /\ chunks' = 0 /\ UNCHANGED <<verdict, continuations>>
           /\ request' = TRUE /\ model_cancel' = FALSE
    BY <1>4 DEF Open
  <2>3. pc = "open"
    BY <1>4 DEF Open
  <2>4. request' \in BOOLEAN /\ model_cancel' \in BOOLEAN
    BY <1>0, <2>2
  <2>5. /\ \/ pc' = "abort" /\ verdict' = "failed"
           \/ pc' = "stream" /\ UNCHANGED verdict
        /\ chunks' \in 0 .. MaxChunks /\ UNCHANGED continuations
    BY <1>0, <2>2
  <2>6. QED
    BY <1>0, <2>1, <2>3, <2>4, <2>5
<1>5. CASE Chunk
  <2>1. UNCHANGED <<status, active_turn, active_user_sequence, cancel_event, mode, count, early>>
    BY <1>5 DEF Chunk
  <2>2. UNCHANGED continuations /\ chunks' \in 0 .. MaxChunks
    BY <1>0, <1>5 DEF Chunk
  <2>3. request' \in BOOLEAN /\ model_cancel' \in BOOLEAN
    BY <1>0, <1>5 DEF Chunk
  <2>4. \/ pc' = "abort" /\ verdict' \in {"failed", "cancelled"}
        \/ pc' = "render" /\ UNCHANGED verdict /\ ~cancel_event
        \/ pc' = "last" /\ UNCHANGED verdict /\ ~cancel_event
    BY <1>5 DEF Chunk, CancelSeen
  <2>5. pc = "stream"
    BY <1>5 DEF Chunk
  <2>6. QED
    BY <1>0, <2>1, <2>2, <2>3, <2>4, <2>5
<1>6. CASE Render
  BY <1>0, <1>6, ZenonT(40) DEF Render
<1>7. CASE Decide
  BY <1>0, <1>7 DEF Decide, Continue
<1>8. CASE Execute
  BY <1>0, <1>8 DEF Execute
<1>9. CASE Cancel
  BY <1>0, <1>9 DEF Cancel
<1>10. QED
  BY <1>1, <1>2, <1>3, <1>4, <1>5, <1>6, <1>7, <1>8, <1>9 DEF Quiet

LEMMA QuietPath ==
    ASSUME TurnInv, Quiet \/ Cancel
    PROVE  /\ UNCHANGED <<turns, next_sequence, messages, count, active_user_sequence, mode>>
           /\ (pc \in Unanswered /\ pc' \in Unanswered) \/ pc' = pc
           /\ pc # "none" /\ pc' # "none"
           /\ status' \in Active
           /\ \/ pc' = pc
              \/ pc' = "abort"
              \/ pc \in Opening /\ pc' \in Opening
              \/ pc \in Writing /\ pc' \in Writing
              \/ pc \in Writing /\ mode = "chat" /\ pc' = "commit"
              \/ pc \in Opening /\ mode = "task" /\ pc' = "commit"
<1> USE DEF PlaceOK, Active, IsActive, Writing, Opening, Unanswered,
            Goto, Ends, Becomes, Closed, manager, store, model, thread
<1>0. PlaceOK
  BY DEF TurnInv
<1>1. CASE Begin
  BY <1>0, <1>1 DEF Begin
<1>2. CASE Load
  BY <1>0, <1>2 DEF Load
<1>3. CASE Generating
  BY <1>0, <1>3 DEF Generating
<1>4. CASE Open
  BY <1>0, <1>4 DEF Open
<1>5. CASE Chunk
  BY <1>0, <1>5 DEF Chunk
<1>6. CASE Render
  BY <1>0, <1>6 DEF Render
<1>7. CASE Decide
  BY <1>0, <1>7 DEF Decide
<1>8. CASE Execute
  BY <1>0, <1>8 DEF Execute
<1>9. CASE Cancel
  BY <1>0, <1>9 DEF Cancel
<1>10. QED
  BY <1>1, <1>2, <1>3, <1>4, <1>5, <1>6, <1>7, <1>8, <1>9 DEF Quiet

LEMMA QuietStep ==
    ASSUME TurnInv, Quiet \/ Cancel
    PROVE  TurnInv'
<1>1. Kept' /\ Display'
  <2>1. Kept /\ Display
    BY TypeOKParts DEF TurnInv
  <2>2. QED
    BY <2>1, QuietPath DEF Kept, Display, Fits, Chars
<1>2. StoreOK'
  <2>1. StoreOK
    BY DEF TurnInv
  <2>2. /\ pc' \in Unanswered <=> pc \in Unanswered
        /\ pc' = "succeed" <=> pc = "succeed"
        /\ pc' = "end" <=> pc = "end"
        /\ status' \notin {"succeeded", "failed", "cancelled"}
    BY QuietPath DEF Active, Unanswered, Opening, Writing
  <2>3. UNCHANGED <<turns, next_sequence, count, active_user_sequence>>
    BY QuietPath
  <2> HIDE DEF Unanswered
  <2>4. QED
    BY <2>1, <2>2, <2>3 DEF StoreOK, Alternates, Gone
<1>3. DisplayOK'
  <2>1. DisplayOK
    BY DEF TurnInv
  <2>2. QED
    BY <2>1, QuietPath DEF DisplayOK, Opening, Writing
<1>4. QED
  BY <1>1, <1>2, <1>3, QuietControl, TypeOKLater DEF TurnInv

LEMMA StartStep ==
    ASSUME TurnInv, StartTurn
    PROVE  TurnInv'
<1>0. Control /\ Kept /\ Display /\ PlaceOK /\ StoreOK /\ DisplayOK /\ TypeOK
  BY TypeOKParts DEF TurnInv
<1>1. count + 1 \in Turns /\ count' = count + 1 /\ count' \in 0 .. Asked /\ count \in Nat
  BY <1>0, TurnsAreEntries DEF StartTurn, Control, Turns
<1>2. /\ status' = "starting" /\ pc' = "begin" /\ active_turn' = count' /\ verdict' = "none"
      /\ chunks' = 0 /\ continuations' = 0 /\ early' = FALSE /\ cancel_event' = FALSE
      /\ mode' \in {"chat", "task"} /\ UNCHANGED <<request, model_cancel>>
      /\ active_user_sequence' = next_sequence /\ next_sequence' = next_sequence + 1
  BY <1>1 DEF StartTurn, BeginUserTurn, model
<1>3. next_sequence \in 1 .. 2 * Asked /\ next_sequence <= 2 * count + 1
  <2>1. next_sequence <= 2 * count + 1 /\ count < Asked
    BY <1>0 DEF StartTurn, PlaceOK, StoreOK, Unanswered, Opening, Writing
  <2>2. QED
    BY <1>0, <1>1, <2>1, TurnsAreEntries DEF Kept
<1>4. Control' /\ PlaceOK' /\ HonouredOK'
  <2>1. 0 \in 0 .. MaxChunks /\ 0 \in 0 .. MaxContinuations
    BY StoreAssumption
  <2>2. Control'
    BY <1>0, <1>1, <1>2, <1>3, <2>1 DEF Control, Active, Points
  <2>3. PlaceOK' /\ HonouredOK'
    BY <1>2 DEF PlaceOK, HonouredOK, IsActive, Active, Writing
  <2>4. QED
    BY <2>2, <2>3
<1>5. /\ turns' \in Seq(Entries) /\ Fits(turns') /\ Alternates(turns')
      /\ Len(turns') % 2 = 1
      /\ turns'[Len(turns')].sequence = next_sequence
      /\ turns'[Len(turns')].turn = count + 1
      /\ \A i \in 1 .. Len(turns') - 1 : turns'[i].turn < count + 1
  BY <1>0, QuestionIsKept
<1>6. Kept'
  <2>1. next_sequence' \in 1 .. 2 * Asked + 1
    BY <1>2, <1>3, TurnsAreEntries, <1>0
  <2>2. QED
    BY <1>5, <2>1 DEF Kept, Fits, Chars
<1>7. StoreOK'
  <2>1. next_sequence' <= 2 * count'
    BY <1>0, <1>1, <1>2, <1>3, TurnsAreEntries
  <2>2. Gone(count + 1)'
    <3> SUFFICES ASSUME NEW i \in 1 .. Len(turns') PROVE turns'[i].turn < count' + 1
      BY DEF Gone
    <3>1. Len(turns') \in Nat
      BY <1>5, LenProperties
    <3>2. i \in 1 .. Len(turns') - 1 \/ i = Len(turns')
      BY <3>1
    <3>3. turns'[i].turn \in Nat
      <4>1. turns'[i] \in Entries
        BY <1>5, EntrySizes
      <4>2. QED
        BY <4>1 DEF Entries, Turns
    <3>4. turns'[i].turn < count + 1 \/ turns'[i].turn = count + 1
      BY <1>5, <3>2
    <3>5. QED
      BY <1>1, <3>3, <3>4
  <2>3. Alternates(turns)'
    BY <1>5 DEF Alternates
  <2>4. pc' \in Unanswered /\ pc' # "succeed" /\ pc' # "end"
    BY <1>2 DEF Unanswered, Opening
  <2>5. status' \notin {"succeeded", "failed", "cancelled"}
    BY <1>2
  <2> HIDE DEF Unanswered
  <2>6. QED
    BY <1>1, <1>2, <1>5, <2>1, <2>2, <2>3, <2>4, <2>5 DEF StoreOK
<1>8. Display' /\ DisplayOK'
  <2> DEFINE m == Message(count + 1, "user", FALSE)
  <2>1. m \in Shows /\ ~m.streaming
    BY <1>1 DEF Message, Shows
  <2>2. messages' = Shown(messages, m)
    BY DEF StartTurn
  <2>3. \A i \in 1 .. Len(messages) : ~messages[i].streaming
    BY <1>0 DEF StartTurn, PlaceOK, DisplayOK
  <2> HIDE DEF m
  <2>4. messages' \in Seq(Shows) /\ Len(messages') <= MaxMessages
        /\ \A i \in 1 .. Len(messages') : ~messages'[i].streaming
    BY <1>0, <2>1, <2>2, <2>3, ShownIs DEF Display
  <2>5. QED
    BY <1>2, <2>4 DEF Display, DisplayOK, Opening, Writing
<1>9. QED
  BY <1>4, <1>6, <1>7, <1>8, TypeOKLater DEF TurnInv

LEMMA ResetStep ==
    ASSUME TurnInv, Reset
    PROVE  TurnInv'
<1>0. Control /\ Kept /\ Display /\ PlaceOK /\ StoreOK /\ DisplayOK /\ TypeOK
  BY TypeOKParts DEF TurnInv
<1>1. /\ status' = "ready" /\ pc = "none" /\ turns' = <<>> /\ next_sequence' = 1 /\ messages' = <<>>
      /\ UNCHANGED <<active_turn, active_user_sequence, cancel_event, mode, pc, verdict, chunks,
                     continuations, request, model_cancel, count, early>>
  BY <1>0 DEF Reset, Clear, PlaceOK, thread, model
<1>2. Control' /\ PlaceOK' /\ HonouredOK'
  BY <1>0, <1>1 DEF Control, PlaceOK, HonouredOK, IsActive, Active, Writing, Points
<1>3. <<>> \in Seq(Entries) /\ <<>> \in Seq(Shows) /\ Len(<<>>) = 0
  BY EmptySeq
<1>4. Kept'
  <2>1. Fits(<<>>)
    BY <1>3, SmallOnesFit
  <2>2. 1 \in 1 .. 2 * Asked + 1
    BY StoreAssumption
  <2>3. QED
    BY <1>1, <1>3, <2>1, <2>2 DEF Kept, Fits, Chars
<1>5. StoreOK'
  <2>1. pc' \notin Unanswered /\ pc' # "succeed" /\ pc' # "end"
    BY <1>1 DEF Unanswered, Opening, Writing
  <2>2. Len(turns') = 0 /\ 0 % 2 = 0
    BY <1>1
  <2>3. Alternates(turns)' /\ Gone(count + 1)'
    BY <2>2 DEF Alternates, Gone
  <2>4. next_sequence' <= 2 * count' + 1
    BY <1>0, <1>1, TurnsAreEntries
  <2> HIDE DEF Unanswered
  <2>5. QED
    BY <1>1, <2>1, <2>2, <2>3, <2>4 DEF StoreOK
<1>6. Display' /\ DisplayOK'
  BY <1>1, <1>3, StoreAssumption DEF Display, DisplayOK, Opening, Writing
<1>7. QED
  BY <1>2, <1>4, <1>5, <1>6, TypeOKLater DEF TurnInv

(* A thread at work knows the number of its turn. *)
LEMMA TurnIsNumbered ==
    ASSUME Control, PlaceOK, pc # "none"
    PROVE  active_turn = count /\ count \in Turns
  BY StoreAssumption DEF Control, PlaceOK, Turns

LEMMA PromptStep ==
    ASSUME TurnInv, Prompt
    PROVE  TurnInv'
<1>0. Control /\ Kept /\ Display /\ PlaceOK /\ StoreOK /\ DisplayOK /\ HonouredOK /\ TypeOK
  BY TypeOKParts DEF TurnInv
<1>1. /\ UNCHANGED <<status, active_turn, active_user_sequence, cancel_event, turns, next_sequence,
                     mode, request, model_cancel, count, early, chunks, continuations>>
      /\ pc = "prompt" /\ status \in Active /\ active_turn = count /\ mode = "chat"
  BY <1>0 DEF Prompt, PlaceOK, store, model, IsActive, Goto, Ends
<1>2. \/ pc' = "abort" /\ verdict' = "failed" /\ UNCHANGED messages
      \/ /\ pc' = "shown" /\ UNCHANGED verdict
         /\ messages' = Shown(messages, Message(count, "assistant", TRUE))
  BY <1>1 DEF Prompt, Goto, Ends
<1>3. Control'
  BY <1>0, <1>1, <1>2 DEF Control, Points
<1>4. PlaceOK' /\ HonouredOK'
  BY <1>0, <1>1, <1>2 DEF PlaceOK, HonouredOK, IsActive, Active, Writing, Looks
<1>5. Kept'
  BY <1>0, <1>1 DEF Kept, Fits, Chars
<1>6. StoreOK'
  <2>1. pc \in Unanswered /\ pc' \in Unanswered /\ pc' # "succeed" /\ pc' # "end"
    BY <1>1, <1>2 DEF Unanswered, Opening, Writing
  <2>2. status' \notin {"succeeded", "failed", "cancelled"}
    BY <1>1 DEF Active
  <2> HIDE DEF Unanswered
  <2>3. QED
    BY <1>0, <1>1, <2>1, <2>2 DEF StoreOK, Alternates, Gone
<1>7. Display' /\ DisplayOK'
  <2>1. CASE pc' = "abort"
    BY <1>0, <1>2, <2>1 DEF Display, DisplayOK, Opening, Writing
  <2>2. CASE pc' = "shown"
    <3> DEFINE m == Message(count, "assistant", TRUE)
    <3>1. count \in Turns
      BY <1>0, <1>1, TurnIsNumbered
    <3>2. m \in Shows /\ m.streaming /\ m.turn = count
      BY <3>1 DEF Message, Shows
    <3>3. messages' = Shown(messages, m)
      BY <1>2, <2>2
    <3> HIDE DEF m
    <3>4. /\ messages' \in Seq(Shows) /\ Len(messages') <= MaxMessages
          /\ messages' # <<>> /\ messages'[Len(messages')] = m
      BY <1>0, <3>2, <3>3, ShownIs DEF Display
    <3>5. QED
      BY <1>1, <2>2, <3>2, <3>4 DEF Display, DisplayOK, Opening, Writing
  <2>3. QED
    BY <1>2, <2>1, <2>2
<1>8. QED
  BY <1>3, <1>4, <1>5, <1>6, <1>7, TypeOKLater DEF TurnInv

LEMMA CommitStep ==
    ASSUME TurnInv, Commit
    PROVE  TurnInv'
<1>0. Control /\ Kept /\ Display /\ PlaceOK /\ StoreOK /\ DisplayOK /\ HonouredOK /\ TypeOK
  BY TypeOKParts DEF TurnInv
<1>1. /\ UNCHANGED <<status, active_turn, active_user_sequence, cancel_event, messages,
                     mode, request, model_cancel, count, early, chunks, continuations>>
      /\ pc = "commit" /\ status \in Active /\ active_turn = count
  BY <1>0 DEF Commit, PlaceOK, manager, model, IsActive, Goto, Ends
<1>2. CASE Ends("failed") /\ UNCHANGED store
  <2>1. pc' = "abort" /\ verdict' = "failed" /\ UNCHANGED <<turns, next_sequence>>
    BY <1>2 DEF Ends, store
  <2>2. Control' /\ PlaceOK' /\ HonouredOK'
    <3>1. Control'
      BY <1>0, <1>1, <2>1 DEF Control, Points
    <3>2. PlaceOK' /\ HonouredOK'
      BY <1>0, <1>1, <2>1 DEF PlaceOK, HonouredOK, IsActive, Active, Writing, Looks
    <3>3. QED
      BY <3>1, <3>2
  <2>3. Kept' /\ Display'
    BY <1>0, <1>1, <2>1 DEF Kept, Fits, Chars, Display
  <2>4. StoreOK'
    <3>1. pc \in Unanswered /\ pc' \in Unanswered /\ pc' # "succeed" /\ pc' # "end"
      BY <1>1, <2>1 DEF Unanswered, Opening, Writing
    <3>2. status' \notin {"succeeded", "failed", "cancelled"}
      BY <1>1 DEF Active
    <3> HIDE DEF Unanswered
    <3>3. QED
      BY <1>0, <1>1, <2>1, <3>1, <3>2 DEF StoreOK, Alternates, Gone
  <2>5. DisplayOK'
    BY <2>1 DEF DisplayOK, Opening, Writing
  <2>6. QED
    BY <2>2, <2>3, <2>4, <2>5, TypeOKLater DEF TurnInv
<1>3. ASSUME NEW size \in Sizes, CommitAssistantTurn(size), Goto("succeed")
      PROVE  TurnInv'
  <2>1. pc' = "succeed" /\ UNCHANGED verdict /\ next_sequence' = next_sequence + 1
    BY <1>3 DEF Goto, CommitAssistantTurn
  <2>2. Control' /\ PlaceOK' /\ HonouredOK'
    <3>1. Control'
      BY <1>0, <1>1, <2>1 DEF Control, Points
    <3>2. PlaceOK' /\ HonouredOK'
      BY <1>0, <1>1, <2>1 DEF PlaceOK, HonouredOK, IsActive, Active, Writing, Looks
    <3>3. QED
      BY <3>1, <3>2
  <2>3. /\ turns' \in Seq(Entries) /\ Fits(turns') /\ Alternates(turns')
        /\ Len(turns') % 2 = 0 /\ Len(turns') >= 2
        /\ turns'[Len(turns')].turn = count
        /\ \A i \in 1 .. Len(turns') : turns'[i].turn < count + 1
        /\ next_sequence \in 1 .. 2 * Asked
    BY <1>0, <1>1, <1>3, ExchangeIsKept
  <2>4. Kept' /\ Display'
    <3>1. next_sequence' \in 1 .. 2 * Asked + 1
      BY <1>0, <2>1, <2>3, TurnsAreEntries
    <3>2. QED
      BY <1>0, <1>1, <2>3, <3>1 DEF Kept, Fits, Chars, Display
  <2>5. StoreOK'
    <3>1. pc' \notin Unanswered /\ pc' # "end" /\ pc \in Unanswered
      BY <1>1, <2>1 DEF Unanswered, Opening, Writing
    <3>2. status' \notin {"succeeded", "failed", "cancelled"}
      BY <1>1 DEF Active
    <3>3. next_sequence' <= 2 * count' + 1
      <4>1. next_sequence <= 2 * count
        BY <1>0, <3>1 DEF StoreOK
      <4>2. QED
        BY <1>0, <1>1, <2>1, <4>1, TurnsAreEntries
    <3>4. turns' # <<>>
      BY <2>3
    <3>5. Alternates(turns)' /\ Gone(count + 1)'
      BY <1>1, <2>3 DEF Alternates, Gone
    <3>6. Len(turns') % 2 # 1
      BY <2>3
    <3> HIDE DEF Unanswered
    <3>7. QED
      BY <1>1, <2>1, <2>3, <3>1, <3>2, <3>3, <3>4, <3>5, <3>6 DEF StoreOK
  <2>6. DisplayOK'
    BY <1>0, <1>1, <2>1 DEF DisplayOK, Opening, Writing
  <2>7. QED
    BY <2>2, <2>4, <2>5, <2>6, TypeOKLater DEF TurnInv
<1>4. QED
  BY <1>2, <1>3 DEF Commit

LEMMA AbortStep ==
    ASSUME TurnInv, Abort
    PROVE  TurnInv'
<1>0. Control /\ Kept /\ Display /\ PlaceOK /\ StoreOK /\ DisplayOK /\ HonouredOK /\ TypeOK
  BY TypeOKParts DEF TurnInv
<1>1. /\ UNCHANGED <<status, active_turn, active_user_sequence, cancel_event, messages, verdict,
                     mode, request, model_cancel, count, early, chunks, continuations, next_sequence>>
      /\ pc = "abort" /\ pc' = "end" /\ status \in Active /\ active_turn = count
  BY <1>0 DEF Abort, AbortUserTurn, PlaceOK, manager, model, IsActive, Goto
<1>2. Control' /\ PlaceOK' /\ HonouredOK'
  <2>1. Control'
    BY <1>0, <1>1 DEF Control, Points
  <2>2. PlaceOK' /\ HonouredOK'
    BY <1>0, <1>1 DEF PlaceOK, HonouredOK, IsActive, Active, Writing, Looks
  <2>3. QED
    BY <2>1, <2>2
<1>3. /\ turns' \in Seq(Entries) /\ Fits(turns') /\ Alternates(turns')
      /\ Len(turns') % 2 = 0
      /\ \A i \in 1 .. Len(turns') : turns'[i].turn < count
  BY <1>0, <1>1, QuestionIsWithdrawn DEF Abort
<1>4. Kept' /\ Display'
  BY <1>0, <1>1, <1>3 DEF Kept, Fits, Chars, Display
<1>5. StoreOK'
  <2>1. pc \in Unanswered /\ pc' \notin Unanswered /\ pc' # "succeed"
    BY <1>1 DEF Unanswered, Opening, Writing
  <2>2. status' \notin {"succeeded", "failed", "cancelled"}
    BY <1>1 DEF Active
  <2>3. next_sequence' <= 2 * count'
    BY <1>0, <1>1, <2>1 DEF StoreOK
  <2>4. Alternates(turns)' /\ Gone(count)'
    BY <1>1, <1>3 DEF Alternates, Gone
  <2>5. Gone(count + 1)'
    <3> SUFFICES ASSUME NEW i \in 1 .. Len(turns') PROVE turns'[i].turn < count' + 1
      BY DEF Gone
    <3>1. turns'[i] \in Entries
      BY <1>3, EntrySizes
    <3>2. turns'[i].turn \in Nat /\ turns'[i].turn < count /\ count' = count /\ count \in Nat
      BY <1>0, <1>1, <1>3, <3>1, TurnsAreEntries DEF Entries, Turns
    <3>3. QED
      BY <3>2
  <2>6. Len(turns') % 2 # 1
    BY <1>3
  <2> HIDE DEF Unanswered
  <2>7. QED
    BY <1>1, <1>3, <2>1, <2>2, <2>3, <2>4, <2>5, <2>6 DEF StoreOK
<1>6. DisplayOK'
  BY <1>1 DEF DisplayOK, Opening, Writing
<1>7. QED
  BY <1>2, <1>4, <1>5, <1>6, TypeOKLater DEF TurnInv

LEMMA SucceedStep ==
    ASSUME TurnInv, Succeed
    PROVE  TurnInv'
<1>0. Control /\ Kept /\ Display /\ PlaceOK /\ StoreOK /\ DisplayOK /\ HonouredOK /\ TypeOK
  BY TypeOKParts DEF TurnInv
<1>1. /\ UNCHANGED <<cancel_event, turns, next_sequence, mode, request, model_cancel, count, early>>
      /\ pc = "succeed" /\ pc' = "none" /\ status' = "succeeded" /\ active_turn' = None
      /\ active_user_sequence' = None /\ verdict' = "none" /\ chunks' = 0 /\ continuations' = 0
      /\ mode \in {"chat", "task"}
  BY <1>0 DEF Succeed, Finish, store, model, Control
<1>2. active_turn = count /\ count \in Turns
  BY <1>0, <1>1, TurnIsNumbered
<1>3. Control' /\ PlaceOK' /\ HonouredOK'
  <2>1. 0 \in 0 .. MaxChunks /\ 0 \in 0 .. MaxContinuations
    BY StoreAssumption
  <2>2. Control'
    BY <1>0, <1>1, <2>1 DEF Control, Points
  <2>3. ~early
    BY <1>0, <1>1 DEF PlaceOK, Looks
  <2>4. PlaceOK' /\ HonouredOK'
    BY <1>1, <2>3 DEF PlaceOK, HonouredOK, IsActive, Active, Writing, Looks
  <2>5. QED
    BY <2>2, <2>4
<1>4. Kept'
  BY <1>0, <1>1 DEF Kept, Fits, Chars
<1>5. StoreOK'
  <2>1. pc \notin Unanswered /\ pc' \notin Unanswered
    BY <1>1 DEF Unanswered, Opening, Writing
  <2> HIDE DEF Unanswered
  <2>2. QED
    BY <1>0, <1>1, <2>1 DEF StoreOK, Alternates, Gone
<1>6. Display' /\ DisplayOK'
  <2>1. /\ messages' \in Seq(Shows) /\ Len(messages') <= MaxMessages
        /\ \A i \in 1 .. Len(messages') : ~messages'[i].streaming
    <3>1. CASE mode = "task"
      <4> DEFINE m == Message(count, "tool", FALSE)
      <4>1. m \in Shows /\ ~m.streaming
        BY <1>2 DEF Message, Shows
      <4>2. messages' = Shown(messages, m)
        BY <1>2, <3>1 DEF Succeed
      <4>3. \A i \in 1 .. Len(messages) : ~messages[i].streaming
        BY <1>0, <1>1, <3>1 DEF DisplayOK
      <4> HIDE DEF m
      <4>4. QED
        BY <1>0, <4>1, <4>2, <4>3, ShownIs DEF Display
    <3>2. CASE mode = "chat"
      <4>1. messages' = [i \in DOMAIN messages |-> [messages[i] EXCEPT !.streaming = FALSE]]
        BY <3>2 DEF Succeed
      <4>2. messages \in Seq(Shows) /\ Len(messages) \in Nat /\ DOMAIN messages = 1 .. Len(messages)
            /\ Len(messages) <= MaxMessages
        BY <1>0, LenProperties DEF Display
      <4>3. \A i \in 1 .. Len(messages) :
               /\ [messages[i] EXCEPT !.streaming = FALSE] \in Shows
               /\ ~[messages[i] EXCEPT !.streaming = FALSE].streaming
        <5> TAKE i \in 1 .. Len(messages)
        <5>1. messages[i] \in Shows
          BY <4>2, ElementOfSeq
        <5>2. QED
          BY <5>1 DEF Shows
      <4>4. messages' \in [1 .. Len(messages) -> Shows] /\ messages' \in Seq(Shows)
        BY <4>1, <4>2, <4>3
      <4>5. Len(messages') = Len(messages)
        BY <4>2, <4>4
      <4>6. QED
        BY <4>1, <4>2, <4>3, <4>4, <4>5
    <3>3. QED
      BY <1>1, <3>1, <3>2
  <2>2. QED
    BY <1>1, <2>1 DEF Display, DisplayOK, Writing
<1>7. QED
  BY <1>3, <1>4, <1>5, <1>6, TypeOKLater DEF TurnInv

LEMMA EndStep ==
    ASSUME TurnInv, End
    PROVE  TurnInv'
<1>0. Control /\ Kept /\ Display /\ PlaceOK /\ StoreOK /\ DisplayOK /\ HonouredOK /\ TypeOK
  BY TypeOKParts DEF TurnInv
<1>1. /\ UNCHANGED <<cancel_event, turns, next_sequence, mode, request, model_cancel, count, early>>
      /\ pc = "end" /\ pc' = "none" /\ status' = verdict /\ active_turn' = None
      /\ active_user_sequence' = None /\ verdict' = "none" /\ chunks' = 0 /\ continuations' = 0
      /\ verdict \in {"failed", "cancelled"}
  BY <1>0 DEF End, Finish, store, model, PlaceOK
<1>2. active_turn = count /\ count \in Turns
  BY <1>0, <1>1, TurnIsNumbered
<1>3. Control' /\ PlaceOK' /\ HonouredOK'
  <2>1. 0 \in 0 .. MaxChunks /\ 0 \in 0 .. MaxContinuations
    BY StoreAssumption
  <2>2. Control'
    BY <1>0, <1>1, <2>1 DEF Control, Points
  <2>3. PlaceOK' /\ HonouredOK'
    BY <1>1 DEF PlaceOK, HonouredOK, IsActive, Active, Writing, Looks
  <2>4. QED
    BY <2>2, <2>3
<1>4. Kept'
  BY <1>0, <1>1 DEF Kept, Fits, Chars
<1>5. StoreOK'
  <2>1. pc \notin Unanswered /\ pc' \notin Unanswered
    BY <1>1 DEF Unanswered, Opening, Writing
  <2>2. next_sequence' <= 2 * count' + 1
    <3>1. next_sequence <= 2 * count
      BY <1>0, <1>1 DEF StoreOK
    <3>2. QED
      BY <1>0, <1>1, <3>1, TurnsAreEntries
  <2> HIDE DEF Unanswered
  <2>3. QED
    BY <1>0, <1>1, <2>1, <2>2 DEF StoreOK, Alternates, Gone
<1>6. Display' /\ DisplayOK'
  <2> DEFINE m == Message(count, "system", FALSE)
  <2>1. m \in Shows /\ ~m.streaming
    BY <1>2 DEF Message, Shows
  <2>2. messages' = Shown(Settled(messages), m)
    BY <1>2 DEF End
  <2>3. /\ Settled(messages) \in Seq(Shows) /\ Len(Settled(messages)) <= MaxMessages
        /\ \A i \in 1 .. Len(Settled(messages)) : ~Settled(messages)[i].streaming
    <3>1. Len(messages) \in Nat /\ Len(messages) <= MaxMessages /\ MaxMessages \in Nat
      BY <1>0, LenProperties, StoreAssumption DEF Display
    <3>2. /\ Settled(messages) \in Seq(Shows) /\ Len(Settled(messages)) <= Len(messages)
          /\ \A i \in 1 .. Len(Settled(messages)) : ~Settled(messages)[i].streaming
      BY <1>0, SettledIs DEF Display
    <3>3. Len(Settled(messages)) \in Nat
      BY <3>2, LenProperties
    <3>4. QED
      BY <3>1, <3>2, <3>3
  <2> HIDE DEF m
  <2>4. messages' \in Seq(Shows) /\ Len(messages') <= MaxMessages
        /\ \A i \in 1 .. Len(messages') : ~messages'[i].streaming
    BY <2>1, <2>2, <2>3, ShownIs
  <2>5. QED
    BY <1>1, <2>4 DEF Display, DisplayOK, Writing
<1>7. QED
  BY <1>3, <1>4, <1>5, <1>6, TypeOKLater DEF TurnInv

-----------------------------------------------------------------------------
(* TurnInv is inductive: one turn at a time, the question open exactly as  *)
(* long as its thread owes the answer, whoever cancels or resets meanwhile.*)
THEOREM TurnInvariant == Spec => []TurnInv
<1>1. Init => TurnInv
  <2> SUFFICES ASSUME Init PROVE TurnInv
    OBVIOUS
  <2>1. <<>> \in Seq(Entries) /\ <<>> \in Seq(Shows) /\ Len(<<>>) = 0 /\ Fits(<<>>)
    BY EmptySeq, SmallOnesFit
  <2>2. Control /\ Kept /\ Display
    <3>1. /\ 0 \in 0 .. MaxChunks /\ 0 \in 0 .. MaxContinuations /\ 0 \in 0 .. Asked
          /\ 1 \in 1 .. 2 * Asked + 1 /\ 0 <= MaxMessages
      BY StoreAssumption
    <3>2. Control
      BY <3>1 DEF Init, Control, Points
    <3>3. Kept /\ Display
      BY <2>1, <3>1 DEF Init, Kept, Display
    <3>4. QED
      BY <3>2, <3>3
  <2>3. PlaceOK /\ DisplayOK /\ HonouredOK
    BY <2>1 DEF Init, PlaceOK, DisplayOK, HonouredOK, IsActive, Active, Opening, Writing
  <2>4. StoreOK
    <3>1. 0 % 2 # 1
      OBVIOUS
    <3>2. QED
      BY <2>1, <3>1 DEF Init, StoreOK, Alternates, Gone, Unanswered, Opening, Writing
  <2>5. QED
    BY <2>2, <2>3, <2>4, TypeOKParts DEF TurnInv
<1>2. TurnInv /\ [Next]_vars => TurnInv'
  <2> SUFFICES ASSUME TurnInv, [Next]_vars PROVE TurnInv'
    OBVIOUS
  <2>1. CASE UNCHANGED vars
    <3>1. UNCHANGED <<status, active_turn, active_user_sequence, messages, cancel_event, turns,
                      next_sequence, mode, pc, verdict, chunks, continuations, request,
                      model_cancel, count, early>>
      BY <2>1 DEF vars, manager, store, thread, model
    <3>2. Control' /\ Kept' /\ Display'
      BY <3>1, TypeOKParts DEF TurnInv, Control, Kept, Display, Fits, Chars
    <3>3. PlaceOK' /\ StoreOK' /\ DisplayOK' /\ HonouredOK'
      BY <3>1 DEF TurnInv, PlaceOK, StoreOK, DisplayOK, HonouredOK, IsActive, Alternates, Gone
    <3>4. QED
      BY <3>2, <3>3, TypeOKLater DEF TurnInv
  <2>2. QED
    BY <2>1, QuietStep, StartStep, ResetStep, PromptStep, CommitStep, SucceedStep, AbortStep,
       EndStep DEF Next, RunTurn, Quiet
<1>3. QED
  BY <1>1, <1>2, PTL DEF Spec

(* TurnSound at every step of any dialogue, of any length and with any     *)
(* limits: whole exchanges in the store, at most one question without its  *)
(* answer, whose turn is at work, and no partial answer left on display    *)
(* (manager.py, conversation.py).                                          *)
THEOREM TurnsAreSound == Spec => []TurnSound
<1>1. TurnInv => TurnSound
  <2> SUFFICES ASSUME TurnInv PROVE TurnSound
    OBVIOUS
  <2>1. DOMAIN turns = 1 .. Len(turns) /\ DOMAIN messages = 1 .. Len(messages)
    BY LenProperties DEF TurnInv, TypeOK
  <2>2. WholeExchanges
    <3>1. Len(turns) % 2 = 1 => IsActive /\ Pending(active_user_sequence)
      <4> SUFFICES ASSUME Len(turns) % 2 = 1 PROVE IsActive /\ Pending(active_user_sequence)
        OBVIOUS
      <4>1. /\ pc \in Unanswered
            /\ turns[Len(turns)].sequence = active_user_sequence
        BY DEF TurnInv, StoreOK
      <4>2. Len(turns) \in 1 .. Len(turns)
        BY TurnsAreEntries DEF TurnInv
      <4>3. turns[Len(turns)].role = "user"
        BY <4>2 DEF TurnInv, StoreOK, Alternates
      <4>4. Pending(active_user_sequence)
        BY <4>1, <4>2, <4>3, TurnsAreEntries DEF TurnInv, Pending
      <4>5. IsActive
        BY <4>1 DEF TurnInv, PlaceOK, Unanswered, Opening, Writing
      <4>6. QED
        BY <4>4, <4>5
    <3>2. QED
      BY <2>1, <3>1 DEF TurnInv, StoreOK, Alternates, WholeExchanges
  <2>3. PartialAnswersGo
    <3>1. ASSUME ~IsActive
          PROVE  \A i \in DOMAIN messages : ~messages[i].streaming
      BY <2>1, <3>1 DEF TurnInv, PlaceOK, DisplayOK
    <3>2. ASSUME pc \in {"stream", "render", "last", "decide"} \/ (pc = "succeed" /\ mode = "chat")
          PROVE  \E i \in DOMAIN messages : messages[i].streaming /\ messages[i].turn = active_turn
      <4>1. /\ messages # <<>> /\ messages[Len(messages)].streaming
            /\ messages[Len(messages)].turn = count
        BY <3>2 DEF TurnInv, DisplayOK, Writing
      <4>2. active_turn = count
        BY <3>2 DEF TurnInv, PlaceOK
      <4>3. Len(messages) \in DOMAIN messages
        BY <2>1, <4>1, EmptySeq DEF TurnInv, TypeOK
      <4>4. QED
        BY <4>1, <4>2, <4>3
    <3>3. QED
      BY <3>1, <3>2 DEF PartialAnswersGo
  <2>4. QED
    BY <2>2, <2>3 DEF TurnInv, TurnSound
<1>2. QED
  BY <1>1, TurnInvariant, PTL

(* The verdict that manager.py shows is what became of the turn: an early  *)
(* cancel is honoured, a success has its exchange in the store, a failure  *)
(* or a cancellation has left nothing there.                               *)
THEOREM VerdictsAreTrue == Spec => []VerdictIsTrue
<1>1. TurnInv => VerdictIsTrue
  <2> SUFFICES ASSUME TurnInv PROVE VerdictIsTrue
    OBVIOUS
  <2>1. DOMAIN turns = 1 .. Len(turns)
    BY LenProperties DEF TurnInv, TypeOK
  <2>2. status = "succeeded" => ~early /\ turns # <<>> /\ Last(turns).turn = count
    BY TurnsAreEntries DEF TurnInv, StoreOK, HonouredOK
  <2>3. status \in {"failed", "cancelled"} => \A i \in DOMAIN turns : turns[i].turn # count
    <3> SUFFICES ASSUME status \in {"failed", "cancelled"}, NEW i \in 1 .. Len(turns)
                 PROVE  turns[i].turn # count
      BY <2>1
    <3>1. turns[i].turn < count
      BY DEF TurnInv, StoreOK, Gone
    <3>2. turns[i].turn \in Nat /\ count \in Nat
      BY TurnsAreEntries DEF TurnInv, Entries, Turns
    <3>3. QED
      BY <3>1, <3>2
  <2>4. QED
    BY <2>2, <2>3 DEF VerdictIsTrue
<1>2. QED
  BY <1>1, TurnInvariant, PTL

-----------------------------------------------------------------------------
(* The manager with its store implements Dialogue.                         *)

(* What a session of m exchanges remembers. *)
Replies(s, m) == [i \in 1 .. m |-> s[2 * i].turn]

LEMMA Parity ==
    ASSUME NEW n \in Nat
    PROVE  /\ n % 2 = 0 => \E m \in Nat : n = 2 * m /\ n \div 2 = m
           /\ n % 2 = 1 => \E m \in Nat : n = 2 * m + 1 /\ n \div 2 = m
           /\ n % 2 = 0 \/ n % 2 = 1
<1>1. n \div 2 \in Nat /\ n = 2 * (n \div 2) + (n % 2)
  OBVIOUS
<1>2. QED
  BY <1>1

LEMMA HistoryIs ==
    ASSUME TypeOK
    PROVE  \E m \in Nat :
               /\ \/ Len(turns) = 2 * m /\ Len(turns) % 2 = 0 /\ Open_question = None
                  \/ /\ Len(turns) = 2 * m + 1 /\ Len(turns) % 2 = 1
                     /\ Open_question = turns[Len(turns)].turn /\ Open_question # None
               /\ Remembered = Replies(turns, m)
               /\ Remembered \in Seq(Turns) /\ Len(Remembered) = m
<1>1. Len(turns) \in Nat
  BY TurnsAreEntries
<1>2. ASSUME NEW m \in Nat, 2 * m <= Len(turns), Len(turns) \div 2 = m
      PROVE  Remembered = Replies(turns, m) /\ Remembered \in Seq(Turns) /\ Len(Remembered) = m
  <2>1. Remembered = Replies(turns, m)
    BY <1>2 DEF Remembered, Replies
  <2>2. \A i \in 1 .. m : turns[2 * i].turn \in Turns
    <3> TAKE i \in 1 .. m
    <3>1. 2 * i \in 1 .. Len(turns)
      BY <1>1, <1>2
    <3>2. turns[2 * i] \in Entries
      BY <3>1, TurnsAreEntries
    <3>3. QED
      BY <3>2 DEF Entries
  <2>3. Replies(turns, m) \in [1 .. m -> Turns]
    BY <2>2 DEF Replies
  <2>4. Replies(turns, m) \in Seq(Turns) /\ Len(Replies(turns, m)) = m
    BY <2>3
  <2>5. QED
    BY <2>1, <2>4
<1>3. CASE Len(turns) % 2 = 0
  <2>1. PICK m \in Nat : Len(turns) = 2 * m /\ Len(turns) \div 2 = m
    BY <1>1, <1>3, Parity
  <2>2. Open_question = None
    BY <1>3 DEF Open_question
  <2>3. 2 * m <= Len(turns)
    BY <2>1
  <2>4. QED
    BY <1>2, <1>3, <2>1, <2>2, <2>3
<1>4. CASE Len(turns) % 2 = 1
  <2>1. PICK m \in Nat : Len(turns) = 2 * m + 1 /\ Len(turns) \div 2 = m
    BY <1>1, <1>4, Parity
  <2>2. Len(turns) \in 1 .. Len(turns)
    BY <2>1
  <2>3. turns[Len(turns)] \in Entries
    BY <2>2, TurnsAreEntries
  <2>4. Open_question = turns[Len(turns)].turn
    BY <1>4, TurnsAreEntries DEF Open_question
  <2>5. Open_question # None
    BY <2>3, <2>4, StoreAssumption DEF Entries, Turns
  <2>6. 2 * m <= Len(turns)
    BY <2>1
  <2>7. QED
    BY <1>2, <1>4, <2>1, <2>4, <2>5, <2>6
<1>5. QED
  BY <1>1, <1>3, <1>4, Parity

LEMMA HistoryAfter ==
    ASSUME turns' \in Seq(Entries), NEW m \in Nat
    PROVE  /\ Len(turns') = 2 * m => Remembered' = Replies(turns', m) /\ Open_question' = None
           /\ Len(turns') = 2 * m + 1 => /\ Remembered' = Replies(turns', m)
                                         /\ Open_question' = turns'[Len(turns')].turn
<1>1. (2 * m) \div 2 = m /\ (2 * m + 1) \div 2 = m /\ (2 * m) % 2 = 0 /\ (2 * m + 1) % 2 = 1
  OBVIOUS
<1>2. QED
  BY <1>1 DEF Remembered, Replies, Open_question, Last

(* The newest n of a history. *)
LEMMA NewestIs ==
    ASSUME NEW h \in Seq(Turns), NEW n \in 0 .. Len(h), NEW r \in Seq(Turns), Len(r) = n,
           \A i \in 1 .. n : r[i] = h[Len(h) - n + i]
    PROVE  r = D!Newest(h, n)
<1> DEFINE k == Len(h) - n + 1
<1>1. Len(h) \in Nat /\ k \in Int /\ k >= 1 /\ Len(h) - k + 1 = n
  BY LenProperties
<1>2. \A i \in k .. Len(h) : h[i] \in Turns
  BY <1>1, ElementOfSeq
<1>3. /\ SubSeq(h, k, Len(h)) \in Seq(Turns)
      /\ Len(SubSeq(h, k, Len(h))) = IF k <= Len(h) THEN Len(h) - k + 1 ELSE 0
      /\ \A i \in 1 .. Len(h) - k + 1 : SubSeq(h, k, Len(h))[i] = h[k + i - 1]
  BY <1>1, <1>2, SubSeqProperties
<1>4. \A i \in 1 .. n : k + i - 1 = Len(h) - n + i
  BY <1>1
<1>5. Len(SubSeq(h, k, Len(h))) = n /\ \A i \in 1 .. n : r[i] = SubSeq(h, k, Len(h))[i]
  BY <1>1, <1>3, <1>4
<1>6. r = SubSeq(h, k, Len(h))
  BY <1>3, <1>5, SeqEqual
<1>7. QED
  BY <1>6 DEF D!Newest

LEMMA RepliesAreTurns ==
    ASSUME NEW s \in Seq(Entries), NEW m \in Nat, 2 * m <= Len(s)
    PROVE  /\ Replies(s, m) \in Seq(Turns) /\ Len(Replies(s, m)) = m
           /\ \A i \in 1 .. m : Replies(s, m)[i] = s[2 * i].turn
<1>1. \A i \in 1 .. m : s[2 * i].turn \in Turns
  <2> TAKE i \in 1 .. m
  <2>1. 2 * i \in 1 .. Len(s)
    BY LenProperties
  <2>2. s[2 * i] \in Entries
    BY <2>1, EntrySizes
  <2>3. QED
    BY <2>2 DEF Entries
<1>2. Replies(s, m) \in [1 .. m -> Turns]
  BY <1>1 DEF Replies
<1>3. QED
  BY <1>2 DEF Replies

LEMMA AskIsDialogue ==
    ASSUME TurnInv, StartTurn
    PROVE  D!Ask(count + 1) /\ count + 1 \in Turns
<1>1. TypeOK /\ PlaceOK /\ StoreOK /\ count \in Nat /\ Asked \in Nat
  BY TurnsAreEntries DEF TurnInv
<1>2. PICK m \in Nat :
          /\ \/ Len(turns) = 2 * m /\ Len(turns) % 2 = 0 /\ Open_question = None
             \/ /\ Len(turns) = 2 * m + 1 /\ Len(turns) % 2 = 1
                /\ Open_question = turns[Len(turns)].turn /\ Open_question # None
          /\ Remembered = Replies(turns, m)
          /\ Remembered \in Seq(Turns) /\ Len(Remembered) = m
  BY <1>1, HistoryIs
<1>3. Len(turns) % 2 # 1
  BY <1>1 DEF StartTurn, PlaceOK, StoreOK, Unanswered, Opening, Writing
<1>4. Len(turns) = 2 * m /\ Open_question = None
  BY <1>2, <1>3
<1>5. PICK d \in Nat :
          /\ 2 * d <= Len(turns)
          /\ Len(turns') = Len(turns) + 1 - 2 * d
          /\ \A i \in 1 .. Len(turns) - 2 * d : turns'[i] = turns[2 * d + i]
  BY <1>1, QuestionIsKept
<1>6. turns' \in Seq(Entries) /\ turns'[Len(turns')].turn = count + 1
  BY <1>1, QuestionIsKept
<1> DEFINE n == m - d
<1>7. n \in Nat /\ n \in 0 .. m /\ Len(turns') = 2 * n + 1 /\ 2 * n <= Len(turns')
  BY <1>4, <1>5
<1>8. Remembered' = Replies(turns', n) /\ Open_question' = count + 1
  BY <1>6, <1>7, HistoryAfter
<1>9. \A i \in 1 .. n : Replies(turns', n)[i] = Remembered[m - n + i]
  <2> TAKE i \in 1 .. n
  <2>1. /\ Replies(turns', n) \in Seq(Turns) /\ Len(Replies(turns', n)) = n
        /\ \A k \in 1 .. n : Replies(turns', n)[k] = turns'[2 * k].turn
    BY <1>6, <1>7, RepliesAreTurns
  <2>2. 2 * i \in 1 .. Len(turns) - 2 * d /\ 2 * d + 2 * i = 2 * (m - n + i) /\ m - n + i \in 1 .. m
    BY <1>4, <1>5, <1>7
  <2>3. turns'[2 * i] = turns[2 * d + 2 * i]
    BY <1>5, <2>2
  <2>4. Remembered[m - n + i] = turns[2 * (m - n + i)].turn
    BY <1>2, <2>2 DEF Replies
  <2>5. QED
    BY <2>1, <2>2, <2>3, <2>4
<1>10. Remembered' = D!Newest(Remembered, n)
  <2> DEFINE r == Replies(turns', n)
  <2>1. r \in Seq(Turns) /\ Len(r) = n
    BY <1>6, <1>7, RepliesAreTurns
  <2>2. Remembered \in Seq(Turns) /\ n \in 0 .. Len(Remembered)
    BY <1>2, <1>7
  <2>3. \A i \in 1 .. n : r[i] = Remembered[Len(Remembered) - n + i]
    BY <1>2, <1>9
  <2> HIDE DEF n, r
  <2>4. r = D!Newest(Remembered, n)
    BY <2>1, <2>2, <2>3, NewestIs
  <2>5. QED
    BY <1>8, <2>4 DEF r
<1>11. count + 1 \in Turns
  BY <1>1 DEF StartTurn, Turns
<1>12. QED
  BY <1>2, <1>4, <1>7, <1>8, <1>10, <1>11 DEF D!Ask

LEMMA CommitIsDialogue ==
    ASSUME TurnInv, pc = "commit", NEW size \in Sizes, CommitAssistantTurn(size)
    PROVE  D!Answer
<1>1. TypeOK /\ PlaceOK /\ StoreOK
  BY DEF TurnInv
<1>2. PICK m \in Nat :
          /\ \/ Len(turns) = 2 * m /\ Len(turns) % 2 = 0 /\ Open_question = None
             \/ /\ Len(turns) = 2 * m + 1 /\ Len(turns) % 2 = 1
                /\ Open_question = turns[Len(turns)].turn /\ Open_question # None
          /\ Remembered = Replies(turns, m)
          /\ Remembered \in Seq(Turns) /\ Len(Remembered) = m
  BY <1>1, HistoryIs
<1>3. Len(turns) % 2 = 1 /\ turns[Len(turns)].turn = count
  BY <1>1 DEF StoreOK, Unanswered
<1>4. Len(turns) = 2 * m + 1 /\ Open_question = count /\ Open_question # None
  BY <1>2, <1>3
<1>5. PICK d \in Nat :
          /\ 2 * d < Len(turns)
          /\ Len(turns') = Len(turns) + 1 - 2 * d
          /\ \A i \in 1 .. Len(turns) - 2 * d : turns'[i] = turns[2 * d + i]
  BY <1>1, ExchangeIsKept
<1>6. turns' \in Seq(Entries) /\ turns'[Len(turns')].turn = count
  BY <1>1, ExchangeIsKept
<1> DEFINE n == m + 1 - d
           h == Append(Remembered, Open_question)
<1>7. n \in Nat /\ n \in 1 .. m + 1 /\ Len(turns') = 2 * n
  BY <1>4, <1>5
<1>8. Remembered' = Replies(turns', n) /\ Open_question' = None
  BY <1>6, <1>7, HistoryAfter
<1>9. count \in Turns
  <2>1. Len(turns) \in 1 .. Len(turns)
    BY <1>4
  <2>2. turns[Len(turns)] \in Entries
    BY <1>1, <2>1, TurnsAreEntries
  <2>3. QED
    BY <1>3, <2>2 DEF Entries
<1>10. /\ h \in Seq(Turns) /\ Len(h) = m + 1 /\ h[m + 1] = count
       /\ \A i \in 1 .. m : h[i] = Remembered[i]
  BY <1>2, <1>4, <1>9, AppendProperties
<1>11. /\ Replies(turns', n) \in Seq(Turns) /\ Len(Replies(turns', n)) = n
       /\ \A k \in 1 .. n : Replies(turns', n)[k] = turns'[2 * k].turn
  <2>1. 2 * n <= Len(turns')
    BY <1>7
  <2> HIDE DEF n
  <2>2. QED
    BY <1>6, <1>7, <2>1, RepliesAreTurns
<1> HIDE DEF h
<1>12. \A i \in 1 .. n : Replies(turns', n)[i] = h[Len(h) - n + i]
  <2> TAKE i \in 1 .. n
  <2>1. CASE i = n
    BY <1>6, <1>7, <1>10, <1>11, <2>1
  <2>2. CASE i # n
    <3>0. i \in Nat /\ 1 <= i /\ i <= m - d
      BY <1>7, <2>2
    <3>1. /\ 2 * i \in 1 .. Len(turns) - 2 * d /\ 2 * d + 2 * i = 2 * (d + i)
          /\ d + i \in 1 .. m
          /\ Len(h) - n + i = d + i
      <4>1. 2 * i \in 1 .. Len(turns) - 2 * d
        BY <1>4, <1>5, <3>0
      <4>2. 2 * d + 2 * i = 2 * (d + i) /\ d + i \in 1 .. m
        BY <1>5, <3>0
      <4>3. Len(h) - n + i = d + i
        BY <1>5, <1>10, <3>0
      <4>4. QED
        BY <4>1, <4>2, <4>3
    <3>2. turns'[2 * i] = turns[2 * d + 2 * i]
      BY <1>5, <3>1
    <3>3. Remembered[d + i] = turns[2 * (d + i)].turn
      BY <1>2, <3>1 DEF Replies
    <3>4. QED
      BY <1>10, <1>11, <3>1, <3>2, <3>3
  <2>3. QED
    BY <2>1, <2>2
<1>13. Remembered' = D!Newest(h, n)
  <2>1. n \in 0 .. Len(h)
    BY <1>7, <1>10
  <2> HIDE DEF n
  <2>2. QED
    BY <1>8, <1>10, <1>11, <1>12, <2>1, NewestIs
<1>14. n \in 1 .. Len(Remembered) + 1
  BY <1>2, <1>7
<1>15. QED
  BY <1>4, <1>8, <1>13, <1>14 DEF D!Answer, h

LEMMA AbortIsDialogue ==
    ASSUME TurnInv, pc = "abort", AbortUserTurn
    PROVE  D!Drop
<1>1. TypeOK /\ PlaceOK /\ StoreOK
  BY DEF TurnInv
<1>2. PICK m \in Nat :
          /\ \/ Len(turns) = 2 * m /\ Len(turns) % 2 = 0 /\ Open_question = None
             \/ /\ Len(turns) = 2 * m + 1 /\ Len(turns) % 2 = 1
                /\ Open_question = turns[Len(turns)].turn /\ Open_question # None
          /\ Remembered = Replies(turns, m)
          /\ Remembered \in Seq(Turns) /\ Len(Remembered) = m
  BY <1>1, HistoryIs
<1>3. Len(turns) % 2 = 1
  BY <1>1 DEF StoreOK, Unanswered
<1>4. Len(turns) = 2 * m + 1 /\ Open_question # None
  BY <1>2, <1>3
<1>5. /\ turns' \in Seq(Entries) /\ Len(turns') = 2 * m
      /\ \A i \in 1 .. 2 * m : turns'[i] = turns[i]
  BY <1>1, <1>4, QuestionIsWithdrawn
<1>6. Remembered' = Replies(turns', m) /\ Open_question' = None
  BY <1>5, HistoryAfter
<1>7. Replies(turns', m) = Replies(turns, m)
  <2>1. \A i \in 1 .. m : 2 * i \in 1 .. 2 * m
    OBVIOUS
  <2>2. QED
    BY <1>5, <2>1 DEF Replies
<1>8. QED
  BY <1>2, <1>4, <1>6, <1>7 DEF D!Drop

(* The conversation of conversation.py, seen as its complete exchanges and *)
(* the open question: complete exchanges only, an answered question stays, *)
(* an unanswered one leaves no trace, and the oldest are forgotten first.  *)
THEOREM TurnsImplementDialogue == Spec => ImplementsDialogue
<1>1. Init => D!Init
  <2>1. 0 \div 2 = 0 /\ 0 % 2 = 0 /\ Len(<<>>) = 0
    OBVIOUS
  <2>2. [i \in 1 .. 0 |-> turns[2 * i].turn] = <<>>
    OBVIOUS
  <2>3. QED
    BY <2>1, <2>2 DEF Init, D!Init, Remembered, Open_question
<1>2. TurnInv /\ [Next]_vars => [D!Next]_(D!vars)
  <2> SUFFICES ASSUME TurnInv, [Next]_vars PROVE [D!Next]_(D!vars)
    OBVIOUS
  <2>1. CASE UNCHANGED turns
    BY <2>1 DEF D!vars, Remembered, Open_question
  <2>2. CASE StartTurn
    BY <2>2, AskIsDialogue DEF D!Next
  <2>3. CASE Reset
    <3>1. Len(turns) % 2 # 1
      BY <2>3 DEF TurnInv, Reset, PlaceOK, StoreOK, Unanswered, Opening, Writing
    <3>2. Open_question = None
      BY <3>1 DEF Open_question
    <3>3. turns' = <<>>
      BY <2>3 DEF Reset, Clear
    <3>4. turns' \in Seq(Entries) /\ Len(turns') = 2 * 0
      BY <3>3, EmptySeq
    <3>5. Remembered' = Replies(turns', 0) /\ Open_question' = None
      BY <3>4, HistoryAfter
    <3>6. Replies(turns', 0) = <<>>
      BY DEF Replies
    <3>7. QED
      BY <3>2, <3>5, <3>6 DEF D!Next, D!Forget
  <2>4. CASE Commit
    BY <2>1, <2>4, CommitIsDialogue DEF Commit, D!Next, store
  <2>5. CASE Abort
    BY <2>5, AbortIsDialogue DEF Abort, D!Next
  <2>6. CASE Quiet \/ Cancel
    BY <2>1, <2>6, QuietPath
  <2>7. CASE Prompt \/ Succeed \/ End
    BY <2>1, <2>7 DEF Prompt, Succeed, End, store
  <2>8. CASE UNCHANGED vars
    BY <2>1, <2>8 DEF vars, store
  <2>9. QED
    BY <2>2, <2>3, <2>4, <2>5, <2>6, <2>7, <2>8 DEF Next, RunTurn, Quiet
<1>3. QED
  BY <1>1, <1>2, TurnInvariant, PTL DEF Spec, ImplementsDialogue, D!Spec

-----------------------------------------------------------------------------
(* The resident model, ModelService: its threads, queues and workers.      *)

(* Where a caller holds the request lock, where it has a request of its    *)
(* own, and where a worker is at a request.                                *)
Inside == {"register", "put", "wait", "finally", "drain", "release"}
Asking == Inside \ {"register"}
AtWork == {"decode", "check", "finish"}
Tasks == [id : Ids, made : 0 .. MaxTokens, emitted : Seq(Tokens), status : Statuses]

ServiceTypes ==
    /\ starts \in 0 .. MaxStarts /\ process \in (1 .. starts) \cup {Absent}
    /\ request_lock \in Callers \cup {Absent}
    /\ active_request_id \in Ids \cup {Absent}
    /\ next_request_id \in 1 .. MaxRequests + 1
    /\ ready \subseteq 1 .. starts /\ cancel \subseteq 1 .. starts
    /\ gave_up \in BOOLEAN /\ use \in Uses
WorkerTypes ==
    /\ requests \in [Incarnations -> Seq(Ids \cup {Stop})]
    /\ responses \in [Incarnations -> Seq(Frames)]
    /\ \A p \in Incarnations :
          Len(requests[p]) <= RequestSlots /\ Len(responses[p]) <= ResponseSlots
    /\ work \in [Incarnations -> Tasks \cup {Absent}]
    /\ worker \in [Incarnations -> {"none", "loading", "idle", "dead"} \cup AtWork]
ThreadTypes ==
    /\ place \in [Threads -> {"idle", "ready", "stop", "join", "clear", "lock"} \cup Inside]
    /\ id \in [Threads -> Ids \cup {0}]
    /\ got \in [Threads -> Seq(Tokens)]
    /\ ending \in [Threads -> {"none", "ok", "late", "broken", "ended"}]
    /\ joined \in [Threads -> Incarnations \cup {Absent}]
TypesOK == ServiceTypes /\ WorkerTypes /\ ThreadTypes

(* Incarnations to come have nothing; a worker at a request has one, and   *)
(* has streamed no more tokens than it has made; a frame that is not the   *)
(* last of its request is well.                                            *)
WorkOf(p) ==
    /\ p > starts => /\ worker[p] = "none" /\ work[p] = Absent
                     /\ requests[p] = <<>> /\ responses[p] = <<>>
    /\ p <= starts => worker[p] # "none"
    /\ worker[p] \in AtWork => work[p] # Absent
    /\ worker[p] = "decode" => work[p].made < MaxTokens
    /\ work[p] # Absent => Len(work[p].emitted) <= work[p].made
    /\ \A k \in 1 .. Len(responses[p]) :
          ~responses[p][k].final => responses[p][k].status = "ok"
WorkOK == \A p \in Incarnations : WorkOf(p)

PlaceOf(t) ==
    /\ place[t] \in {"ready", "lock"} \cup Inside => t \in Callers
    /\ place[t] \in Inside => request_lock = t
    /\ place[t] = "register" => next_request_id <= MaxRequests
    /\ place[t] \in Asking => id[t] \in Ids /\ id[t] < next_request_id
    /\ place[t] \notin {"wait", "finally", "drain", "release"} => got[t] = <<>>
    /\ place[t] \notin {"finally", "drain", "release"} => ending[t] = "none"
    /\ place[t] \in {"join", "clear"} => joined[t] \in 1 .. starts
ThreadsOK == \A t \in Threads : PlaceOf(t)

(* A request that is on its way has a number that was given out, and the   *)
(* one about to be put is on its way nowhere.                              *)
Occurs(p, i) ==
    \/ \E k \in 1 .. Len(requests[p]) : requests[p][k] = i
    \/ work[p] # Absent /\ work[p].id = i
    \/ \E k \in 1 .. Len(responses[p]) : responses[p][k].id = i
IdsOK ==
    \A p \in Incarnations : \A i \in Ids :
        Occurs(p, i) => /\ i < next_request_id
                        /\ \A c \in Callers : place[c] = "put" => id[c] # i

Stops(q) == \A k \in 1 .. Len(q) : q[k] = Stop
Once(q, i) ==
    \E k \in 1 .. Len(q) : q[k] = i /\ \A m \in 1 .. Len(q) : m # k => q[m] = Stop
Streamed(q, i) == \A k \in 1 .. Len(q) : q[k].id = i /\ ~q[k].final
Answered(q, i) ==
    q # <<>> /\ \A k \in 1 .. Len(q) : q[k].id = i /\ (q[k].final <=> k = Len(q))

Clean(p) ==
    worker[p] \in {"loading", "idle"} /\ Stops(requests[p]) /\ responses[p] = <<>>
Holds(p, i) ==
    \/ worker[p] \in {"loading", "idle"} /\ Once(requests[p], i) /\ responses[p] = <<>>
    \/ worker[p] \in AtWork /\ work[p].id = i /\ Stops(requests[p])
       /\ Streamed(responses[p], i)
    \/ worker[p] = "idle" /\ Stops(requests[p]) /\ Answered(responses[p], i)
RestOK ==
    Running /\ ~gave_up =>
        \/ Clean(process)
        \/ \E c \in Callers : /\ place[c] \in {"wait", "finally", "drain"} /\ ending[c] # "late"
                              /\ Holds(process, id[c])

Matches(f) ==
    f.tokens = [k \in 1 .. Len(f.tokens) |-> Token(f.id, f.total - Len(f.tokens) + k)]
Expects(p, i) ==
    /\ \A k \in 1 .. Len(requests[p]) : requests[p][k] = i =>
          \A m \in k + 1 .. Len(requests[p]) : requests[p][m] = Stop
    /\ work[p] # Absent /\ work[p].id = i =>
          /\ Stops(requests[p])
          /\ worker[p] \in {"decode", "check"} =>
                work[p].made = Len(work[p].emitted) \/ p \in cancel
    /\ \A k \in 1 .. Len(responses[p]) : responses[p][k].id = i =>
          /\ work[p] # Absent /\ work[p].id = i
          /\ Matches(responses[p][k])
          /\ responses[p][k].final =>
                /\ worker[p] \notin AtWork
                /\ responses[p][k].status = "ok" => responses[p][k].total = work[p].made
WaitOK == \A c \in Callers : place[c] = "wait" /\ Running => Expects(process, id[c])
OwnOK == \A c \in Callers : got[c] = Answer(id[c], Len(got[c]))

AloneOK ==
    use.alone =>
        /\ \A t, u \in Threads : place[t] # "idle" /\ place[u] # "idle" => t = u
        /\ \A p \in Incarnations : Live(p) => p = process
        /\ \A t \in Threads :
              /\ place[t] \in {"ready", "lock"} \cup Inside => process # Absent
              /\ place[t] \in {"join", "clear"} => joined[t] = process
              /\ place[t] = "clear" => ~Live(process)
        /\ request_lock # Absent => place[request_lock] \in Inside
        /\ active_request_id # Absent =>
              \E c \in Callers : place[c] \in Asking /\ id[c] = active_request_id

ServiceInv ==
    TypesOK /\ WorkOK /\ ThreadsOK /\ IdsOK /\ RestOK /\ WaitOK /\ OwnOK /\ AloneOK

-----------------------------------------------------------------------------
LEMMA Bounds ==
    /\ RequestSlots \in Nat /\ ResponseSlots \in Nat /\ MaxTokens \in Nat /\ MaxTokens >= 1
    /\ RequestSlots >= 1 /\ ResponseSlots >= 1
    /\ MaxRequests \in Nat /\ MaxStarts \in Nat /\ Callers \subseteq Threads
    /\ Absent \notin Threads /\ Absent \notin Nat /\ Absent \notin Tasks
<1>1. /\ RequestSlots \in Nat /\ ResponseSlots \in Nat /\ MaxTokens \in Nat /\ MaxTokens >= 1
      /\ RequestSlots >= 1 /\ ResponseSlots >= 1
      /\ MaxRequests \in Nat /\ MaxStarts \in Nat /\ Callers \subseteq Threads
      /\ Absent \notin Threads /\ Absent \notin Nat
  BY ServiceAssumption DEF Threads
<1>2. Ids \subseteq Nat /\ 0 .. MaxTokens \subseteq Nat /\ Tokens \subseteq Nat \X Nat
  BY <1>1 DEF Ids, Tokens
<1>3. Seq(Tokens) \subseteq Seq(Nat \X Nat)
  BY <1>2
<1>4. Tasks \subseteq [id : Nat, made : Nat, emitted : Seq(Nat \X Nat), status : Statuses]
  <2> SUFFICES ASSUME NEW r \in Tasks
               PROVE  r \in [id : Nat, made : Nat, emitted : Seq(Nat \X Nat), status : Statuses]
    OBVIOUS
  <2>1. /\ r.id \in Ids /\ r.made \in 0 .. MaxTokens /\ r.emitted \in Seq(Tokens)
        /\ r.status \in Statuses
        /\ r = [id |-> r.id, made |-> r.made, emitted |-> r.emitted, status |-> r.status]
    BY DEF Tasks
  <2>3. r.emitted \in Seq(Nat \X Nat)
    BY <1>3, <2>1
  <2>4. r.id \in Nat /\ r.made \in Nat
    BY <1>2, <2>1
  <2>5. QED
    BY <2>1, <2>3, <2>4
<1>5. QED
  BY <1>1, <1>4, ServiceAssumption

LEMMA ThreadMoves ==
    ASSUME ThreadTypes, NEW t \in Threads,
           place' \in [Threads -> {"idle", "ready", "stop", "join", "clear", "lock"} \cup Inside]
    PROVE  /\ Returns(t) => ThreadTypes'
           /\ UNCHANGED <<id, got, ending, joined>> => ThreadTypes'
           /\ \A how \in {"none", "ok", "late", "broken", "ended"} :
                 ending' = [ending EXCEPT ![t] = how] /\ UNCHANGED <<id, got, joined>>
                     => ThreadTypes'
<1>1. Returns(t) => ThreadTypes'
  <2> SUFFICES ASSUME Returns(t) PROVE ThreadTypes'
    OBVIOUS
  <2>1. got' \in [Threads -> Seq(Tokens)]
    BY EmptySeq DEF Returns, ThreadTypes
  <2>2. id' \in [Threads -> Ids \cup {0}]
    BY DEF Returns, ThreadTypes
  <2>3. /\ ending' \in [Threads -> {"none", "ok", "late", "broken", "ended"}]
        /\ joined' \in [Threads -> Incarnations \cup {Absent}]
    BY DEF Returns, ThreadTypes
  <2>4. QED
    BY <2>1, <2>2, <2>3 DEF ThreadTypes
<1>2. UNCHANGED <<id, got, ending, joined>> => ThreadTypes'
  BY DEF ThreadTypes
<1>3. ASSUME NEW how \in {"none", "ok", "late", "broken", "ended"},
             ending' = [ending EXCEPT ![t] = how], UNCHANGED <<id, got, joined>>
      PROVE  ThreadTypes'
  BY <1>3 DEF ThreadTypes
<1>4. QED
  BY <1>1, <1>2, <1>3

(* The steps of a thread that touch neither the queues nor the workers.    *)
Outside(t) ==
    \/ t \in Callers /\ StartRunning(t)
    \/ StopCall(t) \/ Ready(t) \/ NotReady(t) \/ Refuse(t) \/ Lock(t)
    \/ Register(t) \/ Break(t) \/ Finally(t) \/ DrainOver(t) \/ Release(t)

LEMMA OutsideTypes ==
    ASSUME TypesOK, ThreadsOK, NEW t \in Threads, Outside(t), use' = use
    PROVE  TypesOK' /\ UNCHANGED <<wires, workers, process, starts>>
<1>1. UNCHANGED <<wires, workers, process, starts>>
  BY DEF Outside, StartRunning, StopCall, Ready, NotReady, Refuse, Lock, Register, Break,
         Finally, DrainOver, Release, service, wires, workers
<1>2. WorkerTypes'
  BY <1>1 DEF wires, workers, WorkerTypes, TypesOK
<1> USE Bounds DEF TypesOK
<1>3. ThreadTypes'
  <2>1. place' \in [Threads -> {"idle", "ready", "stop", "join", "clear", "lock"} \cup Inside]
    <3>1. place' = place \/ \E point \in {"idle", "ready", "stop", "join", "clear", "lock"} \cup Inside :
                          GoesTo(t, point)
      BY DEF Outside, StartRunning, StopCall, Ready, NotReady, Refuse, Lock, Register, Break,
             Finally, DrainOver, Release, Call, Returns, EndsCall, Torn, Inside
    <3>2. QED
      BY <3>1 DEF GoesTo, ThreadTypes
  <2>2. CASE Register(t)
    <3>1. next_request_id \in Ids
      BY <2>2 DEF Register, ThreadsOK, PlaceOf, ServiceTypes, Ids
    <3>2. QED
      BY <2>1, <2>2, <3>1 DEF Register, ThreadTypes
  <2>3. CASE ~Register(t)
    <3>1. \/ Returns(t)
          \/ UNCHANGED <<id, got, ending, joined>>
          \/ ending' = [ending EXCEPT ![t] = "broken"] /\ UNCHANGED <<id, got, joined>>
      BY <2>3 DEF Outside, StartRunning, StopCall, Ready, NotReady, Refuse, Lock, Break,
             Finally, DrainOver, Release, Call, EndsCall, Torn
    <3>2. QED
      BY <2>1, <3>1, ThreadMoves
  <2>4. QED
    BY <2>2, <2>3
<1>4. ServiceTypes'
  <2> USE <1>1 DEF ServiceTypes, workers
  <2>1. CASE (t \in Callers /\ StartRunning(t)) \/ StopCall(t) \/ Ready(t) \/ NotReady(t) \/ Refuse(t)
    BY <2>1 DEF StartRunning, StopCall, Ready, NotReady, Refuse, service
  <2>2. CASE Lock(t)
    BY <2>2 DEF Lock, ThreadsOK, PlaceOf
  <2>3. CASE Register(t)
    <3>1. next_request_id \in Ids
      BY <2>3 DEF Register, ThreadsOK, PlaceOf, Ids
    <3>2. QED
      BY <2>3, <3>1 DEF Register, Ids
  <2>4. CASE Break(t) \/ Finally(t)
    <3>1. cancel' \in {cancel, cancel \cup ({process} \ {Absent})}
      BY <2>4 DEF Break, Finally, Torn, Set
    <3>2. cancel' \subseteq 1 .. starts
      BY <3>1
    <3>3. QED
      BY <2>4, <3>2 DEF Break, Finally, service
  <2>5. CASE DrainOver(t)
    BY <2>5 DEF DrainOver, service
  <2>6. CASE Release(t)
    BY <2>6 DEF Release
  <2>7. QED
    BY <2>1, <2>2, <2>3, <2>4, <2>5, <2>6 DEF Outside
<1>5. QED
  BY <1>1, <1>2, <1>3, <1>4

LEMMA HeadAndTail ==
    ASSUME NEW S, NEW q \in Seq(S), q # <<>>
    PROVE  /\ Len(q) \in Nat /\ Len(q) >= 1 /\ Head(q) = q[1] /\ q[1] \in S
           /\ Tail(q) \in Seq(S) /\ Len(Tail(q)) = Len(q) - 1
           /\ \A k \in 1 .. Len(Tail(q)) : k + 1 \in 1 .. Len(q) /\ Tail(q)[k] = q[k + 1]
<1>1. Len(q) \in Nat /\ Len(q) # 0
  BY EmptySeq
<1>2. 1 \in 1 .. Len(q)
  BY <1>1
<1>3. q[1] \in S
  BY <1>2, ElementOfSeq
<1>4. Head(q) = q[1]
  OBVIOUS
<1>5. Tail(q) \in Seq(S) /\ Len(Tail(q)) = Len(q) - 1
  BY HeadTailProperties
<1>6. \A k \in 1 .. Len(q) - 1 : Tail(q)[k] = q[k + 1]
  BY HeadTailProperties
<1>7. QED
  BY <1>1, <1>3, <1>4, <1>5, <1>6

LEMMA Appended ==
    ASSUME NEW S, NEW q \in Seq(S), NEW x \in S
    PROVE  /\ Append(q, x) \in Seq(S) /\ Len(Append(q, x)) = Len(q) + 1 /\ Len(q) \in Nat
           /\ Append(q, x)[Len(q) + 1] = x
           /\ \A k \in 1 .. Len(q) : Append(q, x)[k] = q[k]
  BY AppendProperties, LenProperties

(* The steps of a thread at a queue, at the process or at the worker.      *)
LEMMA SpawnTypes ==
    ASSUME TypesOK, ThreadsOK, NEW c \in Callers, StartSpawn(c), use' = use
    PROVE  TypesOK' /\ starts + 1 \in Incarnations
<1> USE Bounds DEF TypesOK
<1>1. starts + 1 \in Incarnations /\ starts' = starts + 1 /\ starts \in Nat
  BY DEF StartSpawn, ServiceTypes, Incarnations
<1>2. WorkerTypes'
  BY <1>1 DEF StartSpawn, WorkerTypes, wires
<1>3. ThreadTypes'
  <2>1. place' \in [Threads -> {"idle", "ready", "stop", "join", "clear", "lock"} \cup Inside]
    BY DEF StartSpawn, Call, GoesTo, ThreadTypes
  <2>2. QED
    BY <2>1, ThreadMoves DEF StartSpawn, Call
<1>4. ServiceTypes'
  BY <1>1 DEF StartSpawn, ServiceTypes, Incarnations
<1>5. QED
  BY <1>1, <1>2, <1>3, <1>4

LEMMA StopTypes ==
    ASSUME TypesOK, ThreadsOK, NEW t \in Threads, use' = use,
           StopBegin(t) \/ StopJoin(t) \/ StopClear(t)
    PROVE  TypesOK'
<1> USE Bounds DEF TypesOK
<1>1. place' \in [Threads -> {"idle", "ready", "stop", "join", "clear", "lock"} \cup Inside]
  BY DEF StopBegin, StopJoin, StopClear, Returns, GoesTo, ThreadTypes
<1>2. CASE StopBegin(t)
  <2>1. CASE process = Absent
    <3>0. Returns(t)
      BY <1>2, <2>1 DEF StopBegin
    <3>1. ThreadTypes'
      BY <1>1, <3>0, ThreadMoves
    <3>2. ServiceTypes' /\ WorkerTypes'
      BY <1>2, <2>1 DEF StopBegin, service, workers, ServiceTypes, WorkerTypes
    <3>3. QED
      BY <3>1, <3>2
  <2>2. CASE process # Absent
    <3>1. process \in Incarnations /\ process \in 1 .. starts
      BY <2>2 DEF ServiceTypes, Incarnations
    <3>2. ThreadTypes'
      <4>1. joined' = [joined EXCEPT ![t] = process] /\ UNCHANGED <<id, got, ending>>
        BY <1>2, <2>2 DEF StopBegin
      <4>2. QED
        BY <1>1, <3>1, <4>1 DEF ThreadTypes
    <3>3. ServiceTypes'
      BY <1>2, <2>2, <3>1 DEF StopBegin, service, workers, Set, ServiceTypes
    <3>4. WorkerTypes'
      <4>1. /\ Append(requests[process], Stop) \in Seq(Ids \cup {Stop})
            /\ Len(Append(requests[process], Stop)) = Len(requests[process]) + 1
            /\ Len(requests[process]) \in Nat
        BY <3>1, Appended DEF WorkerTypes
      <4>2. UNCHANGED <<responses, work, worker>>
        BY <1>2 DEF StopBegin, workers
      <4>3. requests' = requests
                \/ /\ requests' = [requests EXCEPT ![process] = Append(requests[process], Stop)]
                   /\ Len(requests[process]) < RequestSlots
        BY <1>2, <2>2 DEF StopBegin
      <4>4. requests' \in [Incarnations -> Seq(Ids \cup {Stop})]
            /\ \A p \in Incarnations : Len(requests'[p]) <= RequestSlots
        <5>1. CASE requests' = requests
          BY <5>1 DEF WorkerTypes
        <5>2. CASE /\ requests' = [requests EXCEPT ![process] = Append(requests[process], Stop)]
                   /\ Len(requests[process]) < RequestSlots
          <6>1. requests' \in [Incarnations -> Seq(Ids \cup {Stop})]
            BY <3>1, <4>1, <5>2 DEF WorkerTypes
          <6>2. /\ Len(requests'[process]) <= RequestSlots
                /\ \A p \in Incarnations \ {process} : requests'[p] = requests[p]
            BY <3>1, <4>1, <5>2 DEF WorkerTypes
          <6>3. QED
            BY <6>1, <6>2 DEF WorkerTypes
        <5>3. QED
          BY <4>3, <5>1, <5>2
      <4>5. QED
        BY <4>2, <4>4 DEF WorkerTypes
    <3>5. QED
      BY <3>2, <3>3, <3>4
  <2>3. QED
    BY <2>1, <2>2
<1>3. CASE StopJoin(t)
  <2>1. ThreadTypes'
    BY <1>1, <1>3, ThreadMoves DEF StopJoin
  <2>2. ServiceTypes'
    BY <1>3 DEF StopJoin, service, ServiceTypes
  <2>3. WorkerTypes'
    BY <1>3 DEF StopJoin, Ended, wires, WorkerTypes
  <2>4. QED
    BY <2>1, <2>2, <2>3
<1>4. CASE StopClear(t)
  <2>1. ThreadTypes'
    BY <1>1, <1>4, ThreadMoves DEF StopClear
  <2>2. ServiceTypes'
    BY <1>4 DEF StopClear, ServiceTypes
  <2>3. requests' \in [Incarnations -> Seq(Ids \cup {Stop})]
        /\ responses' \in [Incarnations -> Seq(Frames)]
    BY <1>4, EmptySeq DEF StopClear, WorkerTypes
  <2>4. \A p \in Incarnations : Len(requests'[p]) <= RequestSlots /\ Len(responses'[p]) <= ResponseSlots
    BY <1>4, EmptySeq DEF StopClear, WorkerTypes
  <2>5. QED
    BY <1>4, <2>1, <2>2, <2>3, <2>4 DEF WorkerTypes, StopClear
<1>5. QED
  BY <1>2, <1>3, <1>4

(* What comes from the response queue, one frame less.                     *)
LEMMA FrameTaken ==
    ASSUME TypesOK, process \in Incarnations, responses[process] # <<>>,
           responses' = [responses EXCEPT ![process] = Tail(@)], requests' = requests,
           UNCHANGED workers
    PROVE  /\ WorkerTypes' /\ Head(responses[process]) \in Frames
           /\ Head(responses[process]) = responses[process][1]
           /\ \A p \in Incarnations \ {process} : responses'[p] = responses[p]
           /\ Len(responses[process]) \in Nat
           /\ Len(responses'[process]) = Len(responses[process]) - 1
           /\ \A k \in 1 .. Len(responses'[process]) :
                 /\ k + 1 \in 1 .. Len(responses[process])
                 /\ responses'[process][k] = responses[process][k + 1]
<1> DEFINE q == responses[process]
<1>1. q \in Seq(Frames) /\ q # <<>> /\ Len(q) <= ResponseSlots
  BY DEF TypesOK, WorkerTypes
<1>2. /\ Len(q) \in Nat /\ Len(q) >= 1 /\ Head(q) = q[1] /\ q[1] \in Frames
      /\ Tail(q) \in Seq(Frames) /\ Len(Tail(q)) = Len(q) - 1
      /\ \A k \in 1 .. Len(Tail(q)) : k + 1 \in 1 .. Len(q) /\ Tail(q)[k] = q[k + 1]
  BY <1>1, HeadAndTail
<1>3. responses'[process] = Tail(q) /\ \A p \in Incarnations \ {process} : responses'[p] = responses[p]
  BY DEF TypesOK, WorkerTypes
<1>4. responses' \in [Incarnations -> Seq(Frames)]
  BY <1>2 DEF TypesOK, WorkerTypes
<1>5. \A p \in Incarnations : Len(responses'[p]) <= ResponseSlots
  BY <1>1, <1>2, <1>3, Bounds DEF TypesOK, WorkerTypes
<1>6. QED
  BY <1>2, <1>3, <1>4, <1>5 DEF TypesOK, WorkerTypes, workers

LEMMA PutTypes ==
    ASSUME TypesOK, ThreadsOK, NEW c \in Threads, Put(c), use' = use
    PROVE  /\ TypesOK'
           /\ HasRoom => process \in Incarnations
<1> USE Bounds DEF TypesOK
<1>1. ThreadTypes'
  <2>1. place' \in [Threads -> {"idle", "ready", "stop", "join", "clear", "lock"} \cup Inside]
    BY DEF Put, Call, GoesTo, ThreadTypes, Inside
  <2>2. QED
    BY <2>1, ThreadMoves DEF Put, Call
<1>2. ServiceTypes'
  BY DEF Put, service, workers, ServiceTypes
<1>0. HasRoom => process \in Incarnations
  BY DEF HasRoom, ServiceTypes, Incarnations
<1>3. CASE requests' = requests
  BY <1>0, <1>1, <1>2, <1>3 DEF Put, workers, WorkerTypes
<1>4. CASE HasRoom /\ requests' = [requests EXCEPT ![process] = Append(@, id[c])]
  <2>1. process \in Incarnations /\ Len(requests[process]) < RequestSlots
    BY <1>4 DEF HasRoom, ServiceTypes, Incarnations
  <2>2. id[c] \in Ids
    BY DEF Put, ThreadsOK, PlaceOf, Asking, Inside
  <2>3. /\ Append(requests[process], id[c]) \in Seq(Ids \cup {Stop})
        /\ Len(Append(requests[process], id[c])) = Len(requests[process]) + 1
        /\ Len(requests[process]) \in Nat
    BY <2>1, <2>2, Appended DEF WorkerTypes
  <2>4. requests' \in [Incarnations -> Seq(Ids \cup {Stop})]
        /\ \A p \in Incarnations : Len(requests'[p]) <= RequestSlots
    BY <1>4, <2>1, <2>3 DEF WorkerTypes
  <2>5. WorkerTypes'
    BY <2>4 DEF WorkerTypes, Put, workers
  <2>6. QED
    BY <1>1, <1>2, <2>1, <2>5
<1>5. QED
  BY <1>3, <1>4 DEF Put

LEMMA ReceiveTypes ==
    ASSUME TypesOK, ThreadsOK, NEW c \in Threads, Receive(c), use' = use
    PROVE  TypesOK' /\ process \in Incarnations /\ id[c] \in Ids
<1> USE Bounds DEF TypesOK
<1>1. process \in Incarnations /\ UNCHANGED workers /\ id[c] \in Ids
  BY DEF Receive, Running, ServiceTypes, Incarnations, ThreadsOK, PlaceOf, Asking, Inside
<1>2. WorkerTypes' /\ Head(responses[process]) \in Frames
  BY <1>1, FrameTaken DEF Receive
<1>3. ServiceTypes'
  BY DEF Receive, service, workers, ServiceTypes
<1>4. ThreadTypes'
  <2>1. place' \in [Threads -> {"idle", "ready", "stop", "join", "clear", "lock"} \cup Inside]
    BY DEF Receive, EndsCall, GoesTo, ThreadTypes, Inside
  <2>2. ending' \in [Threads -> {"none", "ok", "late", "broken", "ended"}]
    BY DEF Receive, EndsCall, ThreadTypes
  <2>3. got' \in [Threads -> Seq(Tokens)]
    <3>1. got[c] \in Seq(Tokens) /\ Head(responses[process]).tokens \in Seq(Tokens)
      BY <1>2 DEF ThreadTypes, Frames
    <3>2. got[c] \o Head(responses[process]).tokens \in Seq(Tokens)
      BY <3>1, ConcatProperties
    <3>3. got' = got \/ got' = [got EXCEPT ![c] = got[c] \o Head(responses[process]).tokens]
      BY DEF Receive, Hands
    <3>4. QED
      BY <3>2, <3>3 DEF ThreadTypes
  <2>4. QED
    BY <2>1, <2>2, <2>3 DEF Receive, ThreadTypes
<1>5. QED
  BY <1>1, <1>2, <1>3, <1>4

LEMMA DrainTypes ==
    ASSUME TypesOK, NEW c \in Threads, DrainFrame(c), use' = use
    PROVE  TypesOK' /\ process \in Incarnations
<1> USE Bounds DEF TypesOK
<1>1. process \in Incarnations /\ UNCHANGED workers
  BY DEF DrainFrame, Running, ServiceTypes, Incarnations
<1>2. WorkerTypes'
  BY <1>1, FrameTaken DEF DrainFrame
<1>3. ServiceTypes'
  BY DEF DrainFrame, service, workers, ServiceTypes
<1>4. ThreadTypes'
  BY DEF DrainFrame, GoesTo, ThreadTypes, Inside
<1>5. QED
  BY <1>1, <1>2, <1>3, <1>4

(* The steps of a worker.                                                  *)
WorkerFrame(p) ==
    /\ UNCHANGED <<service, threads, gave_up, cancel>>
    /\ \A q \in Incarnations \ {p} :
          /\ requests'[q] = requests[q] /\ responses'[q] = responses[q]
          /\ work'[q] = work[q] /\ worker'[q] = worker[q]

LEMMA WorkerMoves ==
    ASSUME TypesOK, NEW p \in Incarnations, UNCHANGED <<others, cancel>>, use' = use,
           requests' \in [Incarnations -> Seq(Ids \cup {Stop})],
           responses' \in [Incarnations -> Seq(Frames)],
           Len(requests'[p]) <= RequestSlots, Len(responses'[p]) <= ResponseSlots,
           work' \in [Incarnations -> Tasks \cup {Absent}],
           worker' \in [Incarnations -> {"none", "loading", "idle", "dead"} \cup AtWork],
           \A q \in Incarnations \ {p} : requests'[q] = requests[q] /\ responses'[q] = responses[q],
           ready' \subseteq 1 .. starts
    PROVE  TypesOK'
<1>1. WorkerTypes'
  BY DEF TypesOK, WorkerTypes
<1>2. ThreadTypes'
  BY DEF TypesOK, ThreadTypes, others, threads
<1>3. ServiceTypes'
  BY DEF TypesOK, ServiceTypes, others, service
<1>4. QED
  BY <1>1, <1>2, <1>3 DEF TypesOK

LEMMA TaskOf ==
    ASSUME TypesOK, NEW p \in Incarnations, work[p] # Absent
    PROVE  /\ work[p] \in Tasks /\ work[p].id \in Ids /\ work[p].made \in 0 .. MaxTokens
           /\ work[p].emitted \in Seq(Tokens) /\ work[p].status \in Statuses
           /\ work[p] = [id |-> work[p].id, made |-> work[p].made,
                         emitted |-> work[p].emitted, status |-> work[p].status]
  BY DEF TypesOK, WorkerTypes, Tasks

LEMMA LoadTypes ==
    ASSUME TypesOK, WorkOK, NEW p \in Incarnations, LoadModel(p), use' = use
    PROVE  TypesOK' /\ WorkerFrame(p)
<1>1. p \in 1 .. starts
  BY Bounds DEF LoadModel, WorkOK, WorkOf, TypesOK, ServiceTypes, Incarnations
<1>2. ready' \subseteq 1 .. starts
  BY <1>1 DEF LoadModel, TypesOK, ServiceTypes
<1>3. worker' \in [Incarnations -> {"none", "loading", "idle", "dead"} \cup AtWork]
      /\ \A q \in Incarnations \ {p} : worker'[q] = worker[q]
  BY DEF LoadModel, Moves, TypesOK, WorkerTypes
<1>4. QED
  BY <1>2, <1>3, WorkerMoves DEF LoadModel, TypesOK, WorkerTypes, wires, WorkerFrame, others

LEMMA TakeTypes ==
    ASSUME TypesOK, NEW p \in Incarnations, Take(p), use' = use
    PROVE  /\ TypesOK' /\ WorkerFrame(p)
           /\ requests[p] # <<>> /\ requests[p][1] \in Ids \cup {Stop}
           /\ Head(requests[p]) = requests[p][1] /\ Len(requests[p]) \in Nat
           /\ Len(requests'[p]) = Len(requests[p]) - 1
           /\ \A k \in 1 .. Len(requests'[p]) :
                 k + 1 \in 1 .. Len(requests[p]) /\ requests'[p][k] = requests[p][k + 1]
<1> DEFINE q == requests[p]
           n == Head(q)
<1>1. q \in Seq(Ids \cup {Stop}) /\ q # <<>> /\ Len(q) <= RequestSlots
  BY DEF Take, TypesOK, WorkerTypes
<1>2. /\ Len(q) \in Nat /\ Len(q) >= 1 /\ Head(q) = q[1] /\ q[1] \in Ids \cup {Stop}
      /\ Tail(q) \in Seq(Ids \cup {Stop}) /\ Len(Tail(q)) = Len(q) - 1
      /\ \A k \in 1 .. Len(Tail(q)) : k + 1 \in 1 .. Len(q) /\ Tail(q)[k] = q[k + 1]
  BY <1>1, HeadAndTail
<1>3. requests' = [requests EXCEPT ![p] = Tail(q)]
  BY DEF Take
<1>4. requests'[p] = Tail(q) /\ \A r \in Incarnations \ {p} : requests'[r] = requests[r]
  BY <1>3 DEF TypesOK, WorkerTypes
<1>5. requests' \in [Incarnations -> Seq(Ids \cup {Stop})] /\ Len(requests'[p]) <= RequestSlots
  BY <1>1, <1>2, <1>3, <1>4, Bounds DEF TypesOK, WorkerTypes
<1>6. worker' \in [Incarnations -> {"none", "loading", "idle", "dead"} \cup AtWork]
      /\ \A r \in Incarnations \ {p} : worker'[r] = worker[r]
  BY DEF Take, Moves, TypesOK, WorkerTypes, AtWork
<1>7. work' \in [Incarnations -> Tasks \cup {Absent}]
      /\ \A r \in Incarnations \ {p} : work'[r] = work[r]
  <2>1. CASE n = Stop
    BY <2>1 DEF Take, TypesOK, WorkerTypes
  <2>2. CASE n # Stop
    <3>1. n \in Ids /\ <<>> \in Seq(Tokens) /\ 0 \in 0 .. MaxTokens
      BY <1>2, <2>2, EmptySeq, Bounds
    <3>2. [id |-> n, made |-> 0, emitted |-> <<>>, status |-> "ok"] \in Tasks
      BY <3>1 DEF Tasks, Statuses
    <3>3. QED
      BY <2>2, <3>2 DEF Take, Works, TypesOK, WorkerTypes
  <2>3. QED
    BY <2>1, <2>2
<1>8. UNCHANGED <<others, cancel, ready, responses>>
  BY DEF Take
<1>9. TypesOK'
  BY <1>4, <1>5, <1>6, <1>7, <1>8, WorkerMoves DEF TypesOK, WorkerTypes, ServiceTypes
<1>10. WorkerFrame(p)
  BY <1>4, <1>6, <1>7, <1>8 DEF WorkerFrame, others
<1>11. QED
  BY <1>1, <1>2, <1>4, <1>9, <1>10

(* A worker that changes its task and sends nothing. *)
LEMMA SilentTypes ==
    ASSUME TypesOK, WorkOK, NEW p \in Incarnations, use' = use,
           SkipCancelled(p) \/ Check(p) \/ ModelRaises(p)
    PROVE  /\ TypesOK' /\ WorkerFrame(p) /\ UNCHANGED wires
           /\ work[p] # Absent /\ work'[p] \in Tasks
           /\ work'[p].id = work[p].id /\ work'[p].made = work[p].made
           /\ work'[p].emitted = work[p].emitted
           /\ worker[p] \in {"decode", "check"} /\ worker'[p] \in {"decode", "finish"}
           /\ worker'[p] = "decode" => worker[p] = "check" /\ work[p].made < MaxTokens
<1>0. work[p] # Absent /\ worker[p] \in {"decode", "check"}
  BY DEF WorkOK, WorkOf, SkipCancelled, Check, ModelRaises, AtWork
<1>1. \E s \in Statuses : work' = [work EXCEPT ![p] = [work[p] EXCEPT !.status = s]]
  <2>1. work' = [work EXCEPT ![p] = [work[p] EXCEPT !.status = work[p].status]] \/ work' # work
    BY <1>0, TaskOf DEF TypesOK, WorkerTypes
  <2>2. QED
    BY <1>0, <2>1, TaskOf DEF SkipCancelled, Check, ModelRaises, Works, Statuses
<1>2. PICK s \in Statuses : work' = [work EXCEPT ![p] = [work[p] EXCEPT !.status = s]]
  BY <1>1
<1>3. /\ work'[p] \in Tasks
      /\ work'[p].id = work[p].id /\ work'[p].made = work[p].made
      /\ work'[p].emitted = work[p].emitted
      /\ \A q \in Incarnations \ {p} : work'[q] = work[q]
      /\ work' \in [Incarnations -> Tasks \cup {Absent}]
  BY <1>0, <1>2 DEF TypesOK, WorkerTypes, Tasks
<1>4. /\ worker' \in [Incarnations -> {"none", "loading", "idle", "dead"} \cup AtWork]
      /\ \A q \in Incarnations \ {p} : worker'[q] = worker[q]
      /\ worker'[p] \in {"decode", "finish"}
      /\ worker'[p] = "decode" => worker[p] = "check" /\ work[p].made < MaxTokens
  BY DEF SkipCancelled, Check, ModelRaises, Moves, TypesOK, WorkerTypes, AtWork
<1>5. UNCHANGED <<others, cancel, wires, ready>>
  BY DEF SkipCancelled, Check, ModelRaises
<1>6. TypesOK'
  BY <1>3, <1>4, <1>5, WorkerMoves DEF TypesOK, WorkerTypes, ServiceTypes, wires
<1>7. WorkerFrame(p)
  BY <1>3, <1>4, <1>5 DEF WorkerFrame, others, wires
<1>8. QED
  BY <1>0, <1>3, <1>4, <1>5, <1>6, <1>7

(* One more token: kept back, sent, or the queue is full.                  *)
LEMMA DecodeTypes ==
    ASSUME TypesOK, WorkOK, NEW p \in Incarnations, Decode(p), use' = use
    PROVE  /\ TypesOK' /\ WorkerFrame(p) /\ requests'[p] = requests[p]
           /\ worker[p] = "decode" /\ worker'[p] \in {"check", "finish"}
           /\ work[p] # Absent /\ work'[p] \in Tasks
           /\ work'[p].id = work[p].id /\ work'[p].made = work[p].made + 1
           /\ Len(work'[p].emitted) <= Len(work[p].emitted) + 1
           /\ worker'[p] = "check" /\ p \notin cancel =>
                 Len(work'[p].emitted) = Len(work[p].emitted) + 1
           /\ \/ responses'[p] = responses[p]
              \/ \E f \in Frames :
                    /\ responses'[p] = Append(responses[p], f)
                    /\ ~f.final /\ f.status = "ok" /\ f.id = work[p].id /\ p \notin cancel
                    /\ f.tokens = <<Token(work[p].id, work[p].made + 1)>>
                    /\ f.total = Len(work[p].emitted) + 1
<1> DEFINE w == work[p]
           token == Token(w.id, w.made + 1)
           more == [w EXCEPT !.made = @ + 1]
           sent == [more EXCEPT !.emitted = Append(@, token)]
           f == Frame(w.id, "ok", <<token>>, Len(sent.emitted), FALSE)
<1>1. /\ work[p] # Absent /\ w.made < MaxTokens /\ Len(w.emitted) <= w.made
      /\ worker[p] = "decode"
  BY DEF Decode, WorkOK, WorkOf, AtWork
<1>2. /\ w \in Tasks /\ w.id \in Ids /\ w.made \in 0 .. MaxTokens /\ w.made \in Nat
      /\ w.emitted \in Seq(Tokens) /\ Len(w.emitted) \in Nat
  <2>1. /\ w \in Tasks /\ w.id \in Ids /\ w.made \in 0 .. MaxTokens
        /\ w.emitted \in Seq(Tokens)
    BY <1>1, TaskOf
  <2>2. QED
    BY <2>1, Bounds, LenProperties
<1>3. token \in Tokens
  BY <1>1, <1>2, Bounds DEF Token, Tokens
<1>4. more \in Tasks /\ more.id = w.id /\ more.made = w.made + 1 /\ more.emitted = w.emitted
  BY <1>1, <1>2, Bounds DEF Tasks
<1>5. Append(w.emitted, token) \in Seq(Tokens) /\ Len(Append(w.emitted, token)) = Len(w.emitted) + 1
  BY <1>2, <1>3, Appended
<1> HIDE DEF more, token, w
<1>6. /\ sent \in Tasks /\ sent.id = w.id /\ sent.made = w.made + 1
      /\ Len(sent.emitted) = Len(w.emitted) + 1
  BY <1>4, <1>5 DEF Tasks
<1> HIDE DEF sent
<1>7. <<token>> \in Seq(Tokens)
  BY <1>3
<1>8. /\ f \in Frames /\ ~f.final /\ f.status = "ok" /\ f.id = w.id
      /\ f.tokens = <<token>> /\ f.total = Len(w.emitted) + 1
  BY <1>1, <1>2, <1>6, <1>7, Bounds DEF Frame, Frames, Statuses
<1> HIDE DEF f
<1>9. \/ /\ p \in cancel
         /\ Works(p, more) /\ Moves(p, "check") /\ UNCHANGED responses
      \/ /\ p \notin cancel
         /\ Len(responses[p]) < ResponseSlots
         /\ responses' = [responses EXCEPT ![p] = Append(@, f)]
         /\ Works(p, sent) /\ Moves(p, "check")
      \/ /\ p \notin cancel
         /\ Works(p, [sent EXCEPT !.status = "error"])
         /\ Moves(p, "finish") /\ UNCHANGED responses
  BY DEF Decode, f, sent, more, token, w
<1>10. UNCHANGED <<others, cancel, requests, ready>>
  BY DEF Decode
<1>11. /\ worker' \in [Incarnations -> {"none", "loading", "idle", "dead"} \cup AtWork]
       /\ \A q \in Incarnations \ {p} : worker'[q] = worker[q]
       /\ worker'[p] \in {"check", "finish"}
  BY <1>9 DEF Moves, TypesOK, WorkerTypes, AtWork
<1>12. [sent EXCEPT !.status = "error"] \in Tasks
       /\ [sent EXCEPT !.status = "error"].id = sent.id
       /\ [sent EXCEPT !.status = "error"].made = sent.made
       /\ [sent EXCEPT !.status = "error"].emitted = sent.emitted
  BY <1>6 DEF Tasks, Statuses
<1>13. /\ work' \in [Incarnations -> Tasks \cup {Absent}]
       /\ \A q \in Incarnations \ {p} : work'[q] = work[q]
       /\ work'[p] \in {more, sent, [sent EXCEPT !.status = "error"]}
  BY <1>4, <1>6, <1>9, <1>12 DEF Works, TypesOK, WorkerTypes
<1>14. responses[p] \in Seq(Frames) /\ Len(responses[p]) <= ResponseSlots
  BY DEF TypesOK, WorkerTypes
<1>15. /\ Append(responses[p], f) \in Seq(Frames)
       /\ Len(Append(responses[p], f)) = Len(responses[p]) + 1 /\ Len(responses[p]) \in Nat
  BY <1>8, <1>14, Appended
<1>16. /\ responses' \in [Incarnations -> Seq(Frames)]
       /\ \A q \in Incarnations \ {p} : responses'[q] = responses[q]
       /\ \/ responses'[p] = responses[p]
          \/ /\ responses'[p] = Append(responses[p], f) /\ p \notin cancel
             /\ Len(responses[p]) < ResponseSlots
  BY <1>9, <1>15 DEF TypesOK, WorkerTypes
<1>17. Len(responses'[p]) <= ResponseSlots
  BY <1>14, <1>15, <1>16, Bounds
<1>18. TypesOK'
  BY <1>10, <1>11, <1>13, <1>16, <1>17, WorkerMoves DEF TypesOK, WorkerTypes, ServiceTypes
<1>19. WorkerFrame(p)
  BY <1>10, <1>11, <1>13, <1>16 DEF WorkerFrame, others
<1>20. /\ work'[p] \in Tasks /\ work'[p].id = w.id /\ work'[p].made = w.made + 1
       /\ Len(work'[p].emitted) <= Len(w.emitted) + 1
  <2>1. work'[p] \in Tasks /\ work'[p].id = w.id /\ work'[p].made = w.made + 1
    BY <1>4, <1>6, <1>12, <1>13
  <2>2. work'[p].emitted = w.emitted \/ Len(work'[p].emitted) = Len(w.emitted) + 1
    BY <1>4, <1>6, <1>12, <1>13
  <2>3. QED
    BY <1>2, <2>1, <2>2
<1>21. worker'[p] = "check" /\ p \notin cancel => Len(work'[p].emitted) = Len(w.emitted) + 1
  <2>1. worker'[p] = "check" /\ p \notin cancel => work'[p] = sent
    BY <1>9 DEF Moves, Works, TypesOK, WorkerTypes
  <2>2. QED
    BY <1>6, <2>1
<1>22. responses'[p] = responses[p]
       \/ /\ responses'[p] = Append(responses[p], f)
          /\ ~f.final /\ f.status = "ok" /\ f.id = work[p].id /\ p \notin cancel
          /\ f.tokens = <<Token(work[p].id, work[p].made + 1)>>
          /\ f.total = Len(work[p].emitted) + 1
  BY <1>8, <1>16 DEF w, token
<1>23. QED
  BY <1>1, <1>8, <1>10, <1>11, <1>18, <1>19, <1>20, <1>21, <1>22 DEF w

(* What comes after the tokens that were streamed. *)
LEMMA RestOfAnswer ==
    ASSUME NEW i \in Ids, NEW m \in 0 .. MaxTokens, NEW e \in Nat, e <= m
    PROVE  /\ SubSeq(Answer(i, m), e + 1, m) \in Seq(Tokens)
           /\ Len(SubSeq(Answer(i, m), e + 1, m)) = m - e
           /\ \A k \in 1 .. m - e : SubSeq(Answer(i, m), e + 1, m)[k] = Token(i, e + k)
<1>1. m \in Nat /\ e + 1 \in Int /\ m \in Int
  BY Bounds
<1>2. \A k \in e + 1 .. m : Answer(i, m)[k] \in Tokens
  BY <1>1, Bounds DEF Answer, Token, Tokens
<1>3. /\ SubSeq(Answer(i, m), e + 1, m) \in Seq(Tokens)
      /\ Len(SubSeq(Answer(i, m), e + 1, m)) = IF e + 1 <= m THEN m - (e + 1) + 1 ELSE 0
      /\ \A k \in 1 .. m - (e + 1) + 1 :
            SubSeq(Answer(i, m), e + 1, m)[k] = Answer(i, m)[(e + 1) + k - 1]
  BY <1>1, <1>2, SubSeqProperties
<1>4. m - (e + 1) + 1 = m - e /\ Len(SubSeq(Answer(i, m), e + 1, m)) = m - e
  BY <1>1, <1>3
<1>5. \A k \in 1 .. m - e : (e + 1) + k - 1 = e + k /\ e + k \in 1 .. m
  BY <1>1
<1>6. \A k \in 1 .. m - e : SubSeq(Answer(i, m), e + 1, m)[k] = Token(i, e + k)
  BY <1>3, <1>4, <1>5 DEF Answer
<1>7. QED
  BY <1>3, <1>4, <1>6

(* The final frame, or the end of the worker. *)
LEMMA FinishTypes ==
    ASSUME TypesOK, WorkOK, NEW p \in Incarnations, FinishRequest(p), use' = use
    PROVE  /\ TypesOK' /\ WorkerFrame(p) /\ requests'[p] = requests[p]
           /\ worker[p] = "finish" /\ worker'[p] \in {"idle", "dead"}
           /\ work[p] # Absent /\ work'[p] \in Tasks
           /\ work'[p].id = work[p].id /\ work'[p].made = work[p].made
           /\ work'[p].emitted = <<>>
           /\ \/ responses'[p] = responses[p] /\ worker'[p] = "dead"
              \/ \E f \in Frames :
                    /\ responses'[p] = Append(responses[p], f)
                    /\ f.final /\ f.id = work[p].id /\ Matches(f)
                    /\ f.status = "ok" => f.total = work[p].made
<1> DEFINE w == work[p]
           whole == Answer(w.id, w.made)
           rest(s) == IF s \in {"ok", "cancelled"}
                      THEN SubSeq(whole, Len(w.emitted) + 1, w.made) ELSE <<>>
           f(s) == Frame(w.id, s, rest(s), Len(w.emitted) + Len(rest(s)), TRUE)
<1>1. work[p] # Absent /\ Len(w.emitted) <= w.made /\ worker[p] = "finish"
  BY DEF FinishRequest, WorkOK, WorkOf, AtWork
<1>2. /\ w \in Tasks /\ w.id \in Ids /\ w.made \in 0 .. MaxTokens /\ w.made \in Nat
      /\ Len(w.emitted) \in Nat /\ w.status \in Statuses
  <2>1. /\ w \in Tasks /\ w.id \in Ids /\ w.made \in 0 .. MaxTokens
        /\ w.emitted \in Seq(Tokens) /\ w.status \in Statuses
    BY <1>1, TaskOf
  <2>2. QED
    BY <2>1, Bounds, LenProperties
<1>3. PICK s \in Statuses :
         IF Len(responses[p]) < ResponseSlots
         THEN /\ responses' = [responses EXCEPT ![p] = Append(@, f(s))]
              /\ Moves(p, IF s = "mutated" THEN "dead" ELSE "idle")
         ELSE Moves(p, "dead") /\ UNCHANGED responses
  BY <1>2 DEF FinishRequest, Statuses
<1>4. /\ rest(s) \in Seq(Tokens) /\ Len(rest(s)) \in Nat
      /\ Len(rest(s)) <= w.made - Len(w.emitted)
      /\ s \in {"ok", "cancelled"} => Len(rest(s)) = w.made - Len(w.emitted)
      /\ \A k \in 1 .. Len(rest(s)) : rest(s)[k] = Token(w.id, Len(w.emitted) + k)
  <2>1. CASE s \in {"ok", "cancelled"}
    <3>1. /\ rest(s) \in Seq(Tokens) /\ Len(rest(s)) = w.made - Len(w.emitted)
          /\ \A k \in 1 .. w.made - Len(w.emitted) : rest(s)[k] = Token(w.id, Len(w.emitted) + k)
      BY <1>1, <1>2, <2>1, RestOfAnswer
    <3>2. QED
      BY <1>1, <1>2, <3>1, SMTT(30)
  <2>2. CASE s \notin {"ok", "cancelled"}
    <3>1. rest(s) = <<>> /\ rest(s) \in Seq(Tokens) /\ Len(rest(s)) = 0
      BY <2>2, EmptySeq
    <3>2. QED
      BY <1>1, <1>2, <2>2, <3>1
  <2>3. QED
    BY <2>1, <2>2
<1> HIDE DEF rest
<1>5. Len(w.emitted) + Len(rest(s)) \in 0 .. MaxTokens
  BY <1>1, <1>2, <1>4, Bounds
<1>6. /\ f(s) \in Frames /\ f(s).final /\ f(s).id = w.id /\ f(s).status = s
      /\ f(s).tokens = rest(s) /\ f(s).total = Len(w.emitted) + Len(rest(s))
  BY <1>2, <1>4, <1>5 DEF Frame, Frames
<1> HIDE DEF f
<1>7. Matches(f(s))
  <2> DEFINE ts == [k \in 1 .. Len(rest(s)) |->
                       Token(w.id, Len(w.emitted) + Len(rest(s)) - Len(rest(s)) + k)]
  <2>1. \A k \in 1 .. Len(rest(s)) :
           Len(w.emitted) + Len(rest(s)) - Len(rest(s)) + k = Len(w.emitted) + k
    BY <1>2, <1>4
  <2>2. \A k \in 1 .. Len(rest(s)) : rest(s)[k] = ts[k]
    BY <1>4, <2>1
  <2>3. \A k \in 1 .. Len(rest(s)) : ts[k] \in Tokens
    BY <1>4, <2>2, ElementOfSeq
  <2>4. ts \in Seq(Tokens) /\ Len(ts) = Len(rest(s))
    BY <1>4, <2>3
  <2> HIDE DEF ts
  <2>5. rest(s) = ts
    BY <1>4, <2>2, <2>4, SeqEqual
  <2>6. QED
    BY <1>6, <2>5 DEF Matches, ts
<1>8. f(s).status = "ok" => f(s).total = w.made
  <2>1. s = "ok" => Len(rest(s)) = w.made - Len(w.emitted)
    BY <1>4
  <2>2. s = "ok" => Len(w.emitted) + Len(rest(s)) = w.made
    BY <1>2, <2>1
  <2>3. QED
    BY <1>6, <2>2
<1>9. /\ worker' \in [Incarnations -> {"none", "loading", "idle", "dead"} \cup AtWork]
      /\ \A q \in Incarnations \ {p} : worker'[q] = worker[q]
      /\ worker'[p] \in {"idle", "dead"}
      /\ ~(Len(responses[p]) < ResponseSlots) => worker'[p] = "dead"
  BY <1>3 DEF Moves, TypesOK, WorkerTypes
<1>10. responses[p] \in Seq(Frames) /\ Len(responses[p]) <= ResponseSlots
  BY DEF TypesOK, WorkerTypes
<1>11. /\ Append(responses[p], f(s)) \in Seq(Frames)
       /\ Len(Append(responses[p], f(s))) = Len(responses[p]) + 1 /\ Len(responses[p]) \in Nat
  BY <1>6, <1>10, Appended
<1>12. /\ responses' \in [Incarnations -> Seq(Frames)]
       /\ \A q \in Incarnations \ {p} : responses'[q] = responses[q]
       /\ \/ responses'[p] = responses[p] /\ worker'[p] = "dead"
          \/ responses'[p] = Append(responses[p], f(s)) /\ Len(responses[p]) < ResponseSlots
  BY <1>3, <1>9, <1>11 DEF TypesOK, WorkerTypes
<1>13. Len(responses'[p]) <= ResponseSlots
  BY <1>10, <1>11, <1>12, Bounds
<1>14. work' = [work EXCEPT ![p] = [w EXCEPT !.emitted = <<>>, !.status = "ok"]]
  BY DEF FinishRequest, Works
<1>15. /\ work'[p] \in Tasks /\ work'[p].id = w.id /\ work'[p].made = w.made
       /\ work'[p].emitted = <<>>
       /\ work' \in [Incarnations -> Tasks \cup {Absent}]
       /\ \A q \in Incarnations \ {p} : work'[q] = work[q]
  <2>1. <<>> \in Seq(Tokens)
    BY EmptySeq
  <2>2. [w EXCEPT !.emitted = <<>>, !.status = "ok"] \in Tasks
    BY <1>2, <2>1 DEF Tasks, Statuses
  <2>3. QED
    BY <1>2, <1>14, <2>2 DEF TypesOK, WorkerTypes, Tasks
<1>16. UNCHANGED <<others, cancel, requests, ready>>
  BY DEF FinishRequest
<1>17. TypesOK'
  BY <1>9, <1>12, <1>13, <1>15, <1>16, WorkerMoves DEF TypesOK, WorkerTypes, ServiceTypes
<1>18. WorkerFrame(p)
  BY <1>9, <1>12, <1>15, <1>16 DEF WorkerFrame, others
<1>19. \/ responses'[p] = responses[p] /\ worker'[p] = "dead"
       \/ /\ responses'[p] = Append(responses[p], f(s))
          /\ f(s).final /\ f(s).id = work[p].id /\ Matches(f(s))
          /\ f(s).status = "ok" => f(s).total = work[p].made
  BY <1>6, <1>7, <1>8, <1>12
<1>20. QED
  BY <1>1, <1>6, <1>9, <1>15, <1>16, <1>17, <1>18, <1>19

LEMMA DieTypes ==
    ASSUME TypesOK, NEW p \in Incarnations, Die(p), use' = use
    PROVE  TypesOK' /\ WorkerFrame(p) /\ Ended(p) /\ UNCHANGED wires
<1>1. /\ worker' \in [Incarnations -> {"none", "loading", "idle", "dead"} \cup AtWork]
      /\ \A q \in Incarnations \ {p} : worker'[q] = worker[q] /\ work'[q] = work[q]
      /\ work' \in [Incarnations -> Tasks \cup {Absent}]
      /\ UNCHANGED <<others, cancel, wires, ready>> /\ Ended(p)
  BY DEF Die, Ended, TypesOK, WorkerTypes
<1>2. TypesOK'
  BY <1>1, WorkerMoves DEF TypesOK, WorkerTypes, ServiceTypes, wires
<1>3. QED
  BY <1>1, <1>2 DEF WorkerFrame, others, wires

LEMMA CancelTypes ==
    ASSUME TypesOK, CancelActive, use' = use
    PROVE  TypesOK' /\ cancel \subseteq cancel' /\ cancel' \subseteq cancel \cup {process}
<1>1. cancel' = cancel \cup ({process} \ {Absent})
  BY DEF CancelActive, Set
<1>2. cancel' \subseteq 1 .. starts
  BY <1>1 DEF TypesOK, ServiceTypes
<1>3. UNCHANGED <<service, workers, wires, threads, gave_up>>
  BY DEF CancelActive
<1>4. WorkerTypes' /\ ThreadTypes'
  BY <1>3 DEF TypesOK, WorkerTypes, ThreadTypes, workers, wires, threads
<1>5. ServiceTypes'
  BY <1>2, <1>3 DEF TypesOK, ServiceTypes, service, workers
<1>6. QED
  BY <1>1, <1>4, <1>5 DEF TypesOK

-----------------------------------------------------------------------------
(* The workers.                                                            *)

LEMMA NotThePast ==
    ASSUME TypesOK, WorkOK, NEW p \in Incarnations, worker[p] # "none"
    PROVE  p \in Nat /\ starts \in Nat /\ ~(p > starts) /\ p <= starts
  BY Bounds DEF TypesOK, ServiceTypes, WorkOK, WorkOf, Incarnations

LEMMA WorkerKeeps ==
    ASSUME TypesOK, WorkOK, NEW p \in Incarnations, WorkerFrame(p), worker[p] # "none",
           worker'[p] # "none",
           worker'[p] \in AtWork => work'[p] # Absent,
           worker'[p] = "decode" => work'[p].made < MaxTokens,
           work'[p] # Absent => Len(work'[p].emitted) <= work'[p].made,
           \A k \in 1 .. Len(responses'[p]) :
              ~responses'[p][k].final => responses'[p][k].status = "ok"
    PROVE  WorkOK'
<1>1. starts' = starts
  BY DEF WorkerFrame, service
<1>2. ~(p > starts) /\ p <= starts
  BY NotThePast
<1>3. WorkOf(p)'
  BY <1>1, <1>2 DEF WorkOf
<1>4. \A q \in Incarnations \ {p} : WorkOf(q)'
  BY <1>1 DEF WorkOK, WorkOf, WorkerFrame
<1>5. QED
  BY <1>3, <1>4 DEF WorkOK

(* A frame at the end of a queue. *)
LEMMA FrameAdded ==
    ASSUME TypesOK, NEW p \in Incarnations, NEW f \in Frames, NEW q, q = Append(responses[p], f)
    PROVE  /\ Len(responses[p]) \in Nat /\ Len(q) = Len(responses[p]) + 1 /\ q[Len(q)] = f
           /\ \A k \in 1 .. Len(q) : k = Len(q) \/ (k \in 1 .. Len(responses[p])
                                                    /\ q[k] = responses[p][k])
<1>1. responses[p] \in Seq(Frames)
  BY DEF TypesOK, WorkerTypes
<1>2. QED
  BY <1>1, Appended

LEMMA WorkByWorker ==
    ASSUME TypesOK, WorkOK, NEW p \in Incarnations, Serve(p) \/ Die(p), use' = use
    PROVE  WorkOK'
<1>0. WorkOf(p)
  BY DEF WorkOK
<1>1. CASE LoadModel(p)
  <2>1. WorkerFrame(p) /\ worker'[p] = "idle" /\ worker[p] = "loading"
        /\ UNCHANGED <<wires, work>>
    BY <1>1, LoadTypes DEF LoadModel, Moves, TypesOK, WorkerTypes
  <2>2. QED
    BY <1>0, <2>1, WorkerKeeps DEF WorkOf, wires, AtWork
<1>2. CASE Take(p)
  <2>1. WorkerFrame(p) /\ worker[p] = "idle" /\ UNCHANGED responses
    BY <1>2, TakeTypes DEF Take
  <2>2. \/ worker'[p] = "dead" /\ work'[p] = work[p]
        \/ worker'[p] = "decode" /\ work'[p] = [id |-> Head(requests[p]), made |-> 0,
                                                emitted |-> <<>>, status |-> "ok"]
    BY <1>2 DEF Take, Moves, Works, TypesOK, WorkerTypes
  <2>3. CASE worker'[p] = "dead" /\ work'[p] = work[p]
    BY <1>0, <2>1, <2>3, WorkerKeeps DEF WorkOf, AtWork
  <2>4. CASE worker'[p] = "decode" /\ work'[p] = [id |-> Head(requests[p]), made |-> 0,
                                                  emitted |-> <<>>, status |-> "ok"]
    <3>1. work'[p].made = 0 /\ work'[p].emitted = <<>> /\ 0 < MaxTokens /\ Len(<<>>) <= 0
      BY <2>4, Bounds
    <3>2. work'[p] # Absent
      <4>1. Head(requests[p]) \in Ids
        <5>1. Head(requests[p]) # Stop
          BY <1>2, <2>4 DEF Take, Moves, TypesOK, WorkerTypes
        <5>2. QED
          BY <1>2, <5>1, TakeTypes
      <4>2. <<>> \in Seq(Tokens)
        BY EmptySeq
      <4>3. work'[p] \in Tasks
        BY <2>4, <4>1, <4>2, Bounds DEF Tasks, Statuses
      <4>4. QED
        BY <4>3, Bounds
    <3>3. QED
      BY <1>0, <2>1, <2>4, <3>1, <3>2, WorkerKeeps DEF WorkOf
  <2>5. QED
    BY <2>2, <2>3, <2>4
<1>3. CASE SkipCancelled(p) \/ Check(p) \/ ModelRaises(p)
  <2>1. /\ WorkerFrame(p) /\ UNCHANGED wires
        /\ work[p] # Absent /\ work'[p] \in Tasks
        /\ work'[p].made = work[p].made /\ work'[p].emitted = work[p].emitted
        /\ worker[p] \in {"decode", "check"} /\ worker'[p] \in {"decode", "finish"}
        /\ worker'[p] = "decode" => work[p].made < MaxTokens
    BY <1>3, SilentTypes
  <2>2. work'[p] # Absent
    BY <2>1, Bounds
  <2>3. QED
    BY <1>0, <2>1, <2>2, WorkerKeeps DEF WorkOf, wires
<1>4. CASE Decode(p)
  <2>1. /\ WorkerFrame(p) /\ work[p] # Absent /\ work'[p] \in Tasks
        /\ worker[p] = "decode" /\ worker'[p] \in {"check", "finish"}
        /\ work'[p].made = work[p].made + 1
        /\ Len(work'[p].emitted) <= Len(work[p].emitted) + 1
        /\ \/ responses'[p] = responses[p]
           \/ \E f \in Frames : responses'[p] = Append(responses[p], f) /\ f.status = "ok"
    BY <1>4, DecodeTypes
  <2>2. work'[p] # Absent
    BY <2>1, Bounds
  <2>3. Len(work'[p].emitted) <= work'[p].made
    <3>1. work[p].made \in Nat /\ Len(work[p].emitted) \in Nat /\ Len(work'[p].emitted) \in Nat
      BY <2>1, Bounds, LenProperties DEF TypesOK, WorkerTypes, Tasks
    <3>2. Len(work[p].emitted) <= work[p].made
      BY <1>0, <2>1 DEF WorkOf
    <3>3. QED
      BY <2>1, <3>1, <3>2
  <2>4. \A k \in 1 .. Len(responses'[p]) :
           ~responses'[p][k].final => responses'[p][k].status = "ok"
    <3>1. CASE responses'[p] = responses[p]
      BY <1>0, <3>1 DEF WorkOf
    <3>2. ASSUME NEW f \in Frames, responses'[p] = Append(responses[p], f), f.status = "ok"
          PROVE  \A k \in 1 .. Len(responses'[p]) :
                    ~responses'[p][k].final => responses'[p][k].status = "ok"
      <4>1. \A k \in 1 .. Len(responses'[p]) :
               k = Len(responses'[p]) \/ (k \in 1 .. Len(responses[p])
                                            /\ responses'[p][k] = responses[p][k])
        BY <3>2, FrameAdded
      <4>2. responses'[p][Len(responses'[p])] = f
        BY <3>2, FrameAdded
      <4>3. QED
        BY <1>0, <3>2, <4>1, <4>2 DEF WorkOf
    <3>3. QED
      BY <2>1, <3>1, <3>2
  <2>5. QED
    BY <2>1, <2>2, <2>3, <2>4, WorkerKeeps
<1>5. CASE FinishRequest(p)
  <2>1. /\ WorkerFrame(p) /\ work'[p] \in Tasks
        /\ worker[p] = "finish" /\ worker'[p] \in {"idle", "dead"}
        /\ work'[p].emitted = <<>>
        /\ \/ responses'[p] = responses[p]
           \/ \E f \in Frames : responses'[p] = Append(responses[p], f) /\ f.final
    BY <1>5, FinishTypes
  <2>2. Len(work'[p].emitted) <= work'[p].made
    BY <2>1, Bounds DEF Tasks
  <2>3. \A k \in 1 .. Len(responses'[p]) :
           ~responses'[p][k].final => responses'[p][k].status = "ok"
    <3>1. CASE responses'[p] = responses[p]
      BY <1>0, <3>1 DEF WorkOf
    <3>2. ASSUME NEW f \in Frames, responses'[p] = Append(responses[p], f), f.final
          PROVE  \A k \in 1 .. Len(responses'[p]) :
                    ~responses'[p][k].final => responses'[p][k].status = "ok"
      <4>1. \A k \in 1 .. Len(responses'[p]) :
               responses'[p][k] = f \/ (k \in 1 .. Len(responses[p])
                                        /\ responses'[p][k] = responses[p][k])
        BY <3>2, FrameAdded
      <4>2. QED
        BY <1>0, <3>2, <4>1 DEF WorkOf
    <3>3. QED
      BY <2>1, <3>1, <3>2
  <2>4. QED
    BY <2>1, <2>2, <2>3, WorkerKeeps DEF AtWork
<1>6. CASE Die(p)
  <2>1. WorkerFrame(p) /\ Ended(p) /\ UNCHANGED wires /\ worker[p] # "none"
    BY <1>6, DieTypes DEF Die, Live
  <2>2. worker'[p] = "dead" /\ work'[p] = Absent
    BY <2>1 DEF Ended, TypesOK, WorkerTypes
  <2>3. QED
    BY <1>0, <2>1, <2>2, WorkerKeeps DEF WorkOf, AtWork, wires
<1>7. QED
  BY <1>1, <1>2, <1>3, <1>4, <1>5, <1>6 DEF Serve

(* Threads: they end a worker, start one, or take from what there is.      *)
LEMMA WorkByThread ==
    ASSUME TypesOK, WorkOK, ThreadsOK, NEW t \in Threads, use' = use,
           Outside(t) \/ Put(t) \/ Receive(t) \/ DrainFrame(t) \/ StopBegin(t) \/ StopJoin(t)
             \/ StopClear(t)
    PROVE  WorkOK'
<1>1. CASE Outside(t)
  <2>1. UNCHANGED <<wires, workers, process, starts>>
    BY <1>1, OutsideTypes
  <2>2. QED
    BY <2>1 DEF wires, workers, WorkOK, WorkOf
<1>2. CASE Put(t) \/ StopBegin(t)
  <2>1. UNCHANGED <<workers, responses, starts>>
    BY <1>2 DEF Put, StopBegin, service
  <2>2. \A p \in Incarnations : p > starts => requests'[p] = requests[p]
    <3>1. process # Absent => process \in Nat /\ ~(process > starts)
      BY Bounds DEF TypesOK, ServiceTypes
    <3>2. requests' = requests
          \/ (process # Absent /\ \E x : requests' = [requests EXCEPT ![process] = x])
      BY <1>2 DEF Put, StopBegin, HasRoom
    <3>3. QED
      BY <3>1, <3>2 DEF TypesOK, WorkerTypes
  <2>3. QED
    BY <2>1, <2>2 DEF workers, WorkOK, WorkOf
<1>3. CASE Receive(t) \/ DrainFrame(t)
  <2>1. /\ UNCHANGED <<workers, requests, starts>>
        /\ process # Absent /\ responses[process] # <<>>
        /\ responses' = [responses EXCEPT ![process] = Tail(@)]
    BY <1>3 DEF Receive, DrainFrame, service, Running
  <2>2. process \in Incarnations
    BY <2>1, Bounds DEF TypesOK, ServiceTypes, Incarnations
  <2>3. /\ \A p \in Incarnations \ {process} : responses'[p] = responses[p]
        /\ \A k \in 1 .. Len(responses'[process]) :
              /\ k + 1 \in 1 .. Len(responses[process])
              /\ responses'[process][k] = responses[process][k + 1]
    BY <2>1, <2>2, FrameTaken
  <2>4. ~(process > starts)
    BY <2>1, Bounds DEF TypesOK, ServiceTypes
  <2>5. QED
    BY <2>1, <2>2, <2>3, <2>4 DEF WorkOK, WorkOf, workers
<1>4. CASE StopJoin(t)
  <2>1. joined[t] \in 1 .. starts
    BY <1>4 DEF StopJoin, ThreadsOK, PlaceOf
  <2>2. /\ UNCHANGED <<wires, starts>>
        /\ \A p \in Incarnations \ {joined[t]} : worker'[p] = worker[p] /\ work'[p] = work[p]
        /\ joined[t] \in Incarnations => worker'[joined[t]] = "dead" /\ work'[joined[t]] = Absent
    BY <1>4 DEF StopJoin, Ended, service, TypesOK, WorkerTypes
  <2>3. ~(joined[t] > starts)
    BY <2>1 DEF TypesOK, ServiceTypes
  <2>4. QED
    BY <2>2, <2>3 DEF WorkOK, WorkOf, wires, AtWork
<1>5. CASE StopClear(t)
  <2>1. UNCHANGED <<worker, work, starts>>
    BY <1>5 DEF StopClear
  <2>2. \A p \in Incarnations : /\ requests'[p] \in {requests[p], <<>>}
                                /\ responses'[p] \in {responses[p], <<>>}
    BY <1>5 DEF StopClear
  <2>3. QED
    BY <2>1, <2>2, EmptySeq DEF WorkOK, WorkOf
<1>6. QED
  BY <1>1, <1>2, <1>3, <1>4, <1>5

LEMMA WorkBySpawn ==
    ASSUME TypesOK, WorkOK, ThreadsOK, NEW c \in Callers, StartSpawn(c), use' = use
    PROVE  WorkOK'
<1>1. PICK n \in Incarnations : n = starts + 1
  BY SpawnTypes
<1>2. starts' = n /\ starts \in Nat /\ n \in Nat /\ n = starts + 1
  BY <1>1, Bounds DEF StartSpawn, TypesOK, ServiceTypes
<1>3. /\ UNCHANGED <<wires, work>>
      /\ worker'[n] = "loading"
      /\ \A p \in Incarnations \ {n} : worker'[p] = worker[p]
  BY <1>1 DEF StartSpawn, TypesOK, WorkerTypes
<1>4. \A p \in Incarnations : p \in Nat
  BY Bounds DEF Incarnations
<1>5. WorkOf(n)'
  BY <1>2, <1>3 DEF WorkOK, WorkOf, wires, AtWork
<1>6. \A p \in Incarnations \ {n} : WorkOf(p)'
  BY <1>2, <1>3, <1>4 DEF WorkOK, WorkOf, wires
<1>7. QED
  BY <1>5, <1>6 DEF WorkOK

-----------------------------------------------------------------------------
(* Where the threads are.                                                  *)
Others(t) ==
    \A u \in Threads \ {t} :
        /\ place'[u] = place[u] /\ id'[u] = id[u] /\ got'[u] = got[u]
        /\ ending'[u] = ending[u] /\ joined'[u] = joined[u]
Steps(t) ==
    \/ Outside(t) \/ (t \in Callers /\ StartSpawn(t))
    \/ StopBegin(t) \/ StopJoin(t) \/ StopClear(t)
    \/ Put(t) \/ Receive(t) \/ DrainFrame(t)

LEMMA OthersStand ==
    ASSUME TypesOK, NEW t \in Threads, Steps(t)
    PROVE  Others(t)
<1>1. \A u \in Threads \ {t} : place'[u] = place[u]
  <2>1. place' = place \/ \E point : place' = [place EXCEPT ![t] = point]
    <3>1. CASE Outside(t)
      BY <3>1 DEF Outside, StartRunning, StopCall, Ready, NotReady, Refuse, Lock, Register,
             Break, Finally, DrainOver, Release, Call, Returns, EndsCall, Torn, GoesTo
    <3>2. CASE StartSpawn(t) \/ StopBegin(t) \/ StopJoin(t) \/ StopClear(t)
      BY <3>2 DEF StartSpawn, StopBegin, StopJoin, StopClear, Call, Returns, GoesTo
    <3>3. CASE Put(t) \/ Receive(t) \/ DrainFrame(t)
      BY <3>3 DEF Put, Receive, DrainFrame, Call, EndsCall, GoesTo
    <3>4. QED
      BY <3>1, <3>2, <3>3 DEF Steps
  <2>2. QED
    BY <2>1 DEF TypesOK, ThreadTypes
<1>2. \A u \in Threads \ {t} : id'[u] = id[u] /\ joined'[u] = joined[u]
  <2>1. /\ id' = id \/ \E x : id' = [id EXCEPT ![t] = x]
        /\ joined' = joined \/ \E x : joined' = [joined EXCEPT ![t] = x]
    <3>1. CASE Outside(t)
      BY <3>1 DEF Outside, StartRunning, StopCall, Ready, NotReady, Refuse, Lock, Register,
             Break, Finally, DrainOver, Release, Call, Returns, Torn
    <3>2. CASE StartSpawn(t) \/ StopBegin(t) \/ StopJoin(t) \/ StopClear(t)
      BY <3>2 DEF StartSpawn, StopBegin, StopJoin, StopClear, Call, Returns
    <3>3. CASE Put(t) \/ Receive(t) \/ DrainFrame(t)
      BY <3>3 DEF Put, Receive, DrainFrame, Call
    <3>4. QED
      BY <3>1, <3>2, <3>3 DEF Steps
  <2>2. QED
    BY <2>1 DEF TypesOK, ThreadTypes
<1>3. \A u \in Threads \ {t} : got'[u] = got[u] /\ ending'[u] = ending[u]
  <2>1. /\ got' = got \/ \E x : got' = [got EXCEPT ![t] = x]
        /\ ending' = ending \/ \E x : ending' = [ending EXCEPT ![t] = x]
    <3>1. CASE Outside(t)
      BY <3>1 DEF Outside, StartRunning, StopCall, Ready, NotReady, Refuse, Lock, Register,
             Break, Finally, DrainOver, Release, Call, Returns, EndsCall, Torn
    <3>2. CASE StartSpawn(t) \/ StopBegin(t) \/ StopJoin(t) \/ StopClear(t)
      BY <3>2 DEF StartSpawn, StopBegin, StopJoin, StopClear, Call, Returns
    <3>3. CASE Put(t) \/ Receive(t) \/ DrainFrame(t)
      BY <3>3 DEF Put, Receive, DrainFrame, Call, EndsCall, Hands
    <3>4. QED
      BY <3>1, <3>2, <3>3 DEF Steps
  <2>2. QED
    BY <2>1 DEF TypesOK, ThreadTypes
<1>4. QED
  BY <1>1, <1>2, <1>3 DEF Others

LEMMA TypesKept ==
    ASSUME TypesOK, ThreadsOK, NEW t \in Threads, Steps(t), use' = use
    PROVE  TypesOK'
  BY OutsideTypes, SpawnTypes, StopTypes, PutTypes, ReceiveTypes, DrainTypes DEF Steps

(* Where a step leaves its own thread.                                     *)
LEMMA Back ==
    ASSUME TypesOK, NEW t \in Threads, Returns(t)
    PROVE  place'[t] = "idle" /\ id'[t] = 0 /\ got'[t] = <<>> /\ ending'[t] = "none"
  BY DEF Returns, GoesTo, TypesOK, ThreadTypes

LEMMA Called ==
    ASSUME TypesOK, NEW t \in Threads, NEW point, Call(t, point)
    PROVE  /\ place'[t] = point /\ id'[t] = id[t] /\ got'[t] = got[t]
           /\ ending'[t] = ending[t] /\ joined'[t] = joined[t]
  BY DEF Call, GoesTo, TypesOK, ThreadTypes

LEMMA PlaceKept ==
    ASSUME TypesOK, TypesOK', ThreadsOK, NEW t \in Threads, Others(t), PlaceOf(t)',
           place[t] \in Inside \/ UNCHANGED <<request_lock, next_request_id>>,
           starts' \in {starts, starts + 1},
           next_request_id' \in {next_request_id, next_request_id + 1}
    PROVE  ThreadsOK'
<1> SUFFICES ASSUME NEW u \in Threads, u # t
             PROVE  PlaceOf(u)'
  BY DEF ThreadsOK
<1>1. /\ place'[u] = place[u] /\ id'[u] = id[u] /\ got'[u] = got[u]
      /\ ending'[u] = ending[u] /\ joined'[u] = joined[u]
  BY DEF Others
<1>2. place[u] \in Inside => UNCHANGED <<request_lock, next_request_id>>
  BY DEF ThreadsOK, PlaceOf
<1>3. PlaceOf(u)
  BY DEF ThreadsOK
<1>4. joined[u] \in 1 .. starts => joined[u] \in 1 .. starts'
  BY Bounds DEF TypesOK, ServiceTypes
<1>5. QED
  BY <1>1, <1>2, <1>3, <1>4 DEF PlaceOf, Asking, Inside

LEMMA PlaceByThread ==
    ASSUME TypesOK, ThreadsOK, NEW t \in Threads, Steps(t), use' = use
    PROVE  ThreadsOK'
<1>0. TypesOK' /\ Others(t) /\ PlaceOf(t)
  BY TypesKept, OthersStand DEF ThreadsOK
<1>1. starts' \in {starts, starts + 1}
  BY OutsideTypes DEF Steps, StartSpawn, StopBegin, StopJoin, StopClear, Put, Receive,
         DrainFrame, service
<1>2. CASE Lock(t)
  <2>1. /\ place'[t] = "register" /\ request_lock' = t /\ next_request_id' = next_request_id
        /\ request_lock = Absent /\ next_request_id <= MaxRequests
        /\ UNCHANGED <<got, ending>> /\ place[t] = "lock"
    BY <1>2 DEF Lock, GoesTo, TypesOK, ThreadTypes
  <2>2. PlaceOf(t)'
    BY <1>0, <2>1 DEF PlaceOf, Inside, Asking
  <2>3. \A u \in Threads \ {t} : PlaceOf(u)'
    <3> SUFFICES ASSUME NEW u \in Threads \ {t}
                 PROVE  PlaceOf(u)'
      OBVIOUS
    <3>1. PlaceOf(u) /\ place[u] \notin Inside /\ starts' = starts
      BY <1>2, <2>1, Bounds DEF ThreadsOK, PlaceOf, Lock
    <3>2. QED
      BY <1>0, <2>1, <3>1 DEF PlaceOf, Others, Asking, Inside
  <2>4. QED
    BY <2>2, <2>3 DEF ThreadsOK
<1>3. CASE Register(t)
  <2>1. /\ place[t] = "register" /\ place'[t] \in {"put", "finally"} /\ request_lock' = request_lock
        /\ next_request_id' = next_request_id + 1 /\ id'[t] = next_request_id
        /\ UNCHANGED <<got, ending>>
    BY <1>3 DEF Register, GoesTo, TypesOK, ThreadTypes
  <2>2. next_request_id \in Nat /\ next_request_id \in Ids
    BY <1>0, <2>1, Bounds DEF PlaceOf, TypesOK, ServiceTypes, Ids
  <2>3. PlaceOf(t)'
    BY <1>0, <2>1, <2>2 DEF PlaceOf, Inside, Asking
  <2>4. QED
    BY <1>0, <1>1, <2>1, <2>3, PlaceKept DEF Inside
<1>4. CASE Release(t)
  <2>1. place'[t] = "idle" /\ got'[t] = <<>> /\ ending'[t] = "none" /\ next_request_id' = next_request_id
        /\ place[t] \in Inside
    BY <1>4, Back DEF Release, Inside
  <2>2. PlaceOf(t)'
    BY <1>0, <2>1 DEF PlaceOf, Inside, Asking
  <2>3. QED
    BY <1>0, <1>1, <2>1, <2>2, PlaceKept
<1>5. CASE ~(Lock(t) \/ Register(t) \/ Release(t))
  <2>1. UNCHANGED <<request_lock, next_request_id>>
    BY <1>5 DEF Steps, Outside, StartRunning, StopCall, Ready, NotReady, Refuse, Break, Finally,
           DrainOver, StartSpawn, StopBegin, StopJoin, StopClear, Put, Receive, DrainFrame,
           service
  <2> SUFFICES PlaceOf(t)'
    BY <1>0, <1>1, <2>1, PlaceKept
  <2>2. ASSUME NEW point, Call(t, point), place[t] # "register" /\ point # "register",
               point \in {"ready", "lock"} \cup Inside => t \in Callers,
               point \in Inside => place[t] \in Inside,
               point \in Asking => place[t] \in Asking,
               place[t] \in {"wait", "finally", "drain", "release"} =>
                   point \in {"wait", "finally", "drain", "release"},
               place[t] \in {"finally", "drain", "release"} =>
                   point \in {"finally", "drain", "release"},
               point \notin {"join", "clear"}
        PROVE  PlaceOf(t)'
    <3>1. /\ place'[t] = point /\ id'[t] = id[t] /\ got'[t] = got[t] /\ ending'[t] = ending[t]
      BY <2>2, Called
    <3>2. QED
      BY <1>0, <2>1, <2>2, <3>1 DEF PlaceOf
  <2>3. Returns(t) => PlaceOf(t)'
    BY Back DEF PlaceOf, Inside, Asking
  <2>4. CASE Outside(t)
    <3>1. CASE (t \in Callers /\ StartRunning(t)) \/ StopCall(t)
      BY <2>2, <3>1 DEF StartRunning, StopCall, Inside, Asking
    <3>2. CASE Ready(t)
      <4>1. Call(t, "lock") /\ place[t] = "ready" /\ t \in Callers
        BY <1>0, <3>2 DEF Ready, Call, PlaceOf
      <4>2. QED
        BY <2>2, <4>1 DEF Inside, Asking
    <3>3. CASE NotReady(t) \/ Refuse(t)
      BY <2>2, <2>3, <3>3 DEF NotReady, Refuse, Inside, Asking
    <3>4. CASE Finally(t) \/ DrainOver(t)
      <4>1. /\ place[t] \in {"finally", "drain"} /\ t \in Callers
            /\ Returns(t) \/ Call(t, "drain") \/ Call(t, "release")
        BY <1>0, <3>4 DEF Finally, DrainOver, Torn, PlaceOf, Inside
      <4>2. QED
        BY <2>2, <2>3, <4>1 DEF Inside, Asking
    <3>5. CASE Break(t)
      <4>1. /\ place[t] = "wait" /\ place'[t] = "finally" /\ id'[t] = id[t] /\ got' = got
        BY <3>5 DEF Break, EndsCall, GoesTo, TypesOK, ThreadTypes
      <4>2. QED
        BY <1>0, <2>1, <4>1 DEF PlaceOf, Inside, Asking
    <3>6. QED
      BY <1>5, <2>4, <3>1, <3>2, <3>3, <3>4, <3>5 DEF Outside
  <2>5. CASE t \in Callers /\ StartSpawn(t)
    BY <2>2, <2>5 DEF StartSpawn, Inside, Asking
  <2>6. CASE StopBegin(t)
    <3>1. CASE process = Absent
      BY <2>3, <2>6, <3>1 DEF StopBegin
    <3>2. CASE process # Absent
      <4>1. /\ place'[t] = "join" /\ joined'[t] = process /\ UNCHANGED <<id, got, ending>>
            /\ starts' = starts /\ place[t] = "stop"
        BY <2>6, <3>2 DEF StopBegin, GoesTo, TypesOK, ThreadTypes, service
      <4>2. process \in 1 .. starts
        BY <3>2 DEF TypesOK, ServiceTypes
      <4>3. QED
        BY <1>0, <4>1, <4>2 DEF PlaceOf, Inside, Asking
    <3>3. QED
      BY <3>1, <3>2
  <2>7. CASE StopJoin(t)
    <3>1. /\ place'[t] = "clear" /\ UNCHANGED <<joined, id, got, ending>>
          /\ starts' = starts /\ place[t] = "join"
      BY <2>7 DEF StopJoin, GoesTo, TypesOK, ThreadTypes, service
    <3>2. QED
      BY <1>0, <3>1 DEF PlaceOf, Inside, Asking
  <2>8. CASE StopClear(t)
    BY <2>3, <2>8 DEF StopClear
  <2>9. CASE Put(t)
    <3>1. place[t] = "put" /\ t \in Callers /\ (Call(t, "wait") \/ Call(t, "finally"))
      BY <1>0, <2>9 DEF Put, PlaceOf, Inside
    <3>2. QED
      BY <2>2, <3>1 DEF Inside, Asking
  <2>10. CASE Receive(t)
    <3>1. /\ place[t] = "wait" /\ place'[t] \in {"wait", "finally", "release"} /\ id'[t] = id[t]
          /\ place'[t] \in {"finally", "release"} \/ ending'[t] = ending[t]
      BY <2>10 DEF Receive, EndsCall, GoesTo, TypesOK, ThreadTypes
    <3>2. QED
      BY <1>0, <2>1, <3>1 DEF PlaceOf, Inside, Asking
  <2>11. CASE DrainFrame(t)
    <3>1. place[t] = "drain" /\ place'[t] \in {"drain", "release"} /\ UNCHANGED <<id, got, ending>>
      BY <2>11 DEF DrainFrame, GoesTo, TypesOK, ThreadTypes
    <3>2. QED
      BY <1>0, <2>1, <3>1 DEF PlaceOf, Inside, Asking
  <2>12. QED
    BY <2>4, <2>5, <2>6, <2>7, <2>8, <2>9, <2>10, <2>11 DEF Steps
<1>6. QED
  BY <1>2, <1>3, <1>4, <1>5

(* A worker, and a cancellation from outside, move no thread.              *)
LEMMA PlaceAnyway ==
    ASSUME ThreadsOK, UNCHANGED <<service, threads>>
    PROVE  ThreadsOK'
  BY DEF ThreadsOK, PlaceOf, service, threads

-----------------------------------------------------------------------------
(* The requests on their way.                                              *)
LEMMA OneInside ==
    ASSUME ThreadsOK, NEW t \in Threads, NEW u \in Threads, place[t] \in Inside, place[u] \in Inside
    PROVE  t = u
  BY DEF ThreadsOK, PlaceOf

LEMMA IdsKept ==
    ASSUME TypesOK, TypesOK', IdsOK,
           \A p \in Incarnations, i \in Ids : Occurs(p, i)' => Occurs(p, i),
           next_request_id' \in {next_request_id, next_request_id + 1},
           \A c \in Callers : place'[c] = "put" =>
              \/ place[c] = "put" /\ id'[c] = id[c]
              \/ id'[c] = next_request_id
    PROVE  IdsOK'
<1> SUFFICES ASSUME NEW p \in Incarnations, NEW i \in Ids, Occurs(p, i)'
             PROVE  /\ i < next_request_id'
                    /\ \A c \in Callers : place'[c] = "put" => id'[c] # i
  BY DEF IdsOK
<1>1. Occurs(p, i)
  OBVIOUS
<1>2. i < next_request_id /\ \A c \in Callers : place[c] = "put" => id[c] # i
  BY <1>1 DEF IdsOK
<1>3. i \in Nat /\ next_request_id \in Nat
  BY Bounds DEF Ids, TypesOK, ServiceTypes
<1>4. QED
  BY <1>2, <1>3

LEMMA WorkerPasses ==
    ASSUME TypesOK, WorkOK, NEW p \in Incarnations, Serve(p) \/ Die(p), use' = use
    PROVE  \A q \in Incarnations, i \in Ids : Occurs(q, i)' => Occurs(q, i)
<1> SUFFICES ASSUME NEW q \in Incarnations, NEW i \in Ids, Occurs(q, i)'
             PROVE  Occurs(q, i)
  OBVIOUS
<1>0. WorkerFrame(p)
  BY LoadTypes, TakeTypes, SilentTypes, DecodeTypes, FinishTypes, DieTypes DEF Serve
<1>1. CASE q # p
  BY <1>0, <1>1 DEF WorkerFrame, Occurs
<1>2. CASE q = p
  <2>1. CASE LoadModel(p)
    BY <1>2, <2>1 DEF LoadModel, wires, Occurs
  <2>2. CASE Take(p)
    <3>1. /\ requests[p] # <<>> /\ Head(requests[p]) = requests[p][1]
          /\ Len(requests[p]) \in Nat /\ Len(requests'[p]) = Len(requests[p]) - 1
          /\ \A k \in 1 .. Len(requests'[p]) :
                k + 1 \in 1 .. Len(requests[p]) /\ requests'[p][k] = requests[p][k + 1]
      BY <2>2, TakeTypes
    <3>2. 1 \in 1 .. Len(requests[p])
      BY <3>1, EmptySeq DEF TypesOK, WorkerTypes
    <3>3. UNCHANGED responses
          /\ (work'[p] = work[p] \/ work'[p].id = requests[p][1])
      BY <2>2, <3>1 DEF Take, Works, TypesOK, WorkerTypes
    <3>4. CASE \E k \in 1 .. Len(requests'[p]) : requests'[p][k] = i
      BY <1>2, <3>1, <3>4 DEF Occurs
    <3>5. CASE work'[p] # Absent /\ work'[p].id = i
      BY <1>2, <3>2, <3>3, <3>5 DEF Occurs
    <3>6. CASE \E k \in 1 .. Len(responses'[p]) : responses'[p][k].id = i
      BY <1>2, <3>3, <3>6 DEF Occurs
    <3>7. QED
      BY <1>2, <3>4, <3>5, <3>6 DEF Occurs
  <2>3. CASE SkipCancelled(p) \/ Check(p) \/ ModelRaises(p)
    <3>1. UNCHANGED wires /\ work[p] # Absent /\ work'[p].id = work[p].id
      BY <2>3, SilentTypes
    <3>2. QED
      BY <1>2, <3>1 DEF Occurs, wires
  <2>4. CASE Decode(p)
    <3>1. /\ requests'[p] = requests[p] /\ work[p] # Absent /\ work'[p].id = work[p].id
          /\ \/ responses'[p] = responses[p]
             \/ \E f \in Frames : responses'[p] = Append(responses[p], f) /\ f.id = work[p].id
      BY <2>4, DecodeTypes
    <3>2. responses'[p] = responses[p] \/ \E f \in Frames :
             /\ f.id = work[p].id
             /\ \A k \in 1 .. Len(responses'[p]) :
                   responses'[p][k] = f \/ (k \in 1 .. Len(responses[p])
                                            /\ responses'[p][k] = responses[p][k])
      BY <3>1, FrameAdded
    <3>3. (\E k \in 1 .. Len(responses'[p]) : responses'[p][k].id = i) =>
             \/ work[p].id = i
             \/ \E k \in 1 .. Len(responses[p]) : responses[p][k].id = i
      BY <3>2
    <3>4. QED
      BY <1>2, <3>1, <3>3 DEF Occurs
  <2>5. CASE FinishRequest(p)
    <3>1. /\ requests'[p] = requests[p] /\ work[p] # Absent /\ work'[p].id = work[p].id
          /\ \/ responses'[p] = responses[p]
             \/ \E f \in Frames : responses'[p] = Append(responses[p], f) /\ f.id = work[p].id
      BY <2>5, FinishTypes
    <3>2. responses'[p] = responses[p] \/ \E f \in Frames :
             /\ f.id = work[p].id
             /\ \A k \in 1 .. Len(responses'[p]) :
                   responses'[p][k] = f \/ (k \in 1 .. Len(responses[p])
                                            /\ responses'[p][k] = responses[p][k])
      BY <3>1, FrameAdded
    <3>3. (\E k \in 1 .. Len(responses'[p]) : responses'[p][k].id = i) =>
             \/ work[p].id = i
             \/ \E k \in 1 .. Len(responses[p]) : responses[p][k].id = i
      BY <3>2
    <3>4. QED
      BY <1>2, <3>1, <3>3 DEF Occurs
  <2>6. CASE Die(p)
    <3>1. UNCHANGED wires /\ work'[p] = Absent
      BY <2>6, DieTypes DEF Ended, TypesOK, WorkerTypes
    <3>2. QED
      BY <1>2, <3>1 DEF Occurs, wires
  <2>7. QED
    BY <2>1, <2>2, <2>3, <2>4, <2>5, <2>6 DEF Serve
<1>3. QED
  BY <1>1, <1>2

(* What a thread adds to a queue of requests. *)
LEMMA RequestAdded ==
    ASSUME TypesOK, process \in Incarnations, NEW x \in Ids \cup {Stop},
           requests' = [requests EXCEPT ![process] = Append(@, x)]
    PROVE  /\ \A p \in Incarnations \ {process} : requests'[p] = requests[p]
           /\ Len(requests[process]) \in Nat
           /\ Len(requests'[process]) = Len(requests[process]) + 1
           /\ requests'[process][Len(requests[process]) + 1] = x
           /\ \A k \in 1 .. Len(requests[process]) : requests'[process][k] = requests[process][k]
<1>1. requests[process] \in Seq(Ids \cup {Stop})
  BY DEF TypesOK, WorkerTypes
<1>2. /\ Len(Append(requests[process], x)) = Len(requests[process]) + 1
      /\ Len(requests[process]) \in Nat
      /\ Append(requests[process], x)[Len(requests[process]) + 1] = x
      /\ \A k \in 1 .. Len(requests[process]) : Append(requests[process], x)[k] = requests[process][k]
  BY <1>1, Appended
<1>3. /\ requests'[process] = Append(requests[process], x)
      /\ \A p \in Incarnations \ {process} : requests'[p] = requests[p]
  BY DEF TypesOK, WorkerTypes
<1>4. QED
  BY <1>2, <1>3

LEMMA IdsByThread ==
    ASSUME TypesOK, WorkOK, ThreadsOK, IdsOK, NEW t \in Threads, Steps(t), use' = use
    PROVE  IdsOK'
<1>0. TypesOK' /\ Others(t)
  BY TypesKept, OthersStand
<1>1. next_request_id' \in {next_request_id, next_request_id + 1}
  BY DEF Steps, Outside, StartRunning, StopCall, Ready, NotReady, Refuse, Lock, Register, Break,
         Finally, DrainOver, Release, StartSpawn, StopBegin, StopJoin, StopClear, Put, Receive,
         DrainFrame, service
<1>2. place'[t] = "put" => id'[t] = next_request_id
  BY DEF Steps, Outside, StartRunning, StopCall, Ready, NotReady, Refuse, Lock, Register, Break,
         Finally, DrainOver, Release, StartSpawn, StopBegin, StopJoin, StopClear, Put, Receive,
         DrainFrame, Call, Returns, EndsCall, GoesTo, Torn, TypesOK, ThreadTypes
<1>3. \A c \in Callers : place'[c] = "put" =>
         \/ c # t /\ place[c] = "put" /\ id'[c] = id[c]
         \/ c = t /\ id'[c] = next_request_id
  BY <1>0, <1>2, Bounds DEF Others
<1>4. ASSUME \A p \in Incarnations, i \in Ids : Occurs(p, i)' => Occurs(p, i)
      PROVE  IdsOK'
  BY <1>0, <1>1, <1>3, <1>4, IdsKept
<1>5. CASE Outside(t)
  <2>1. UNCHANGED <<wires, workers>>
    BY <1>5, OutsideTypes
  <2>2. \A p \in Incarnations, i \in Ids : Occurs(p, i)' => Occurs(p, i)
    BY <2>1 DEF Occurs, wires, workers
  <2>3. QED
    BY <1>4, <2>2
<1>6. CASE (t \in Callers /\ StartSpawn(t)) \/ StopClear(t) \/ StopJoin(t)
  <2>1. \A p \in Incarnations : /\ requests'[p] \in {requests[p], <<>>}
                                /\ responses'[p] \in {responses[p], <<>>}
                                /\ work'[p] \in {work[p], Absent}
    BY <1>6 DEF StartSpawn, StopClear, StopJoin, Ended, wires, TypesOK, WorkerTypes
  <2>2. \A p \in Incarnations, i \in Ids : Occurs(p, i)' => Occurs(p, i)
    BY <2>1, EmptySeq DEF Occurs
  <2>3. QED
    BY <1>4, <2>2
<1>7. CASE Receive(t) \/ DrainFrame(t)
  <2>1. /\ UNCHANGED <<workers, requests>>
        /\ process # Absent /\ responses[process] # <<>>
        /\ responses' = [responses EXCEPT ![process] = Tail(@)]
    BY <1>7 DEF Receive, DrainFrame, Running
  <2>2. process \in Incarnations
    BY <2>1, Bounds DEF TypesOK, ServiceTypes, Incarnations
  <2>3. /\ \A p \in Incarnations \ {process} : responses'[p] = responses[p]
        /\ \A k \in 1 .. Len(responses'[process]) :
              /\ k + 1 \in 1 .. Len(responses[process])
              /\ responses'[process][k] = responses[process][k + 1]
    BY <2>1, <2>2, FrameTaken
  <2>4. \A p \in Incarnations, i \in Ids : Occurs(p, i)' => Occurs(p, i)
    BY <2>1, <2>3 DEF Occurs, workers
  <2>5. QED
    BY <1>4, <2>4
<1>8. CASE StopBegin(t)
  <2>1. UNCHANGED <<workers, responses>>
        /\ \/ requests' = requests
           \/ process # Absent /\ requests' = [requests EXCEPT ![process] = Append(@, Stop)]
    BY <1>8 DEF StopBegin
  <2>2. CASE requests' = requests
    <3>1. \A p \in Incarnations, i \in Ids : Occurs(p, i)' => Occurs(p, i)
      BY <2>1, <2>2 DEF Occurs, workers
    <3>2. QED
      BY <1>4, <3>1
  <2>3. CASE process # Absent /\ requests' = [requests EXCEPT ![process] = Append(@, Stop)]
    <3>1. process \in Incarnations
      BY <2>3, Bounds DEF TypesOK, ServiceTypes, Incarnations
    <3>2. /\ \A p \in Incarnations \ {process} : requests'[p] = requests[p]
          /\ Len(requests[process]) \in Nat
          /\ Len(requests'[process]) = Len(requests[process]) + 1
          /\ requests'[process][Len(requests[process]) + 1] = Stop
          /\ \A k \in 1 .. Len(requests[process]) : requests'[process][k] = requests[process][k]
      BY <2>3, <3>1, RequestAdded
    <3>3. \A i \in Ids : i # Stop
      BY Bounds DEF Ids, Stop
    <3>4. \A p \in Incarnations, i \in Ids : Occurs(p, i)' => Occurs(p, i)
      BY <2>1, <3>1, <3>2, <3>3 DEF Occurs, workers
    <3>5. QED
      BY <1>4, <3>4
  <2>4. QED
    BY <2>1, <2>2, <2>3
<1>9. CASE Put(t)
  <2>1. UNCHANGED <<workers, responses, next_request_id>> /\ place[t] = "put" /\ id[t] \in Ids
        /\ id[t] < next_request_id
    BY <1>9 DEF Put, service, ThreadsOK, PlaceOf, Asking, Inside
  <2>2. CASE requests' = requests
    <3>1. \A p \in Incarnations, i \in Ids : Occurs(p, i)' => Occurs(p, i)
      BY <2>1, <2>2 DEF Occurs, workers
    <3>2. QED
      BY <1>4, <3>1
  <2>3. CASE process # Absent /\ requests' = [requests EXCEPT ![process] = Append(@, id[t])]
    <3>1. process \in Incarnations
      BY <2>3, Bounds DEF TypesOK, ServiceTypes, Incarnations
    <3>2. /\ \A p \in Incarnations \ {process} : requests'[p] = requests[p]
          /\ Len(requests[process]) \in Nat
          /\ Len(requests'[process]) = Len(requests[process]) + 1
          /\ requests'[process][Len(requests[process]) + 1] = id[t]
          /\ \A k \in 1 .. Len(requests[process]) : requests'[process][k] = requests[process][k]
      BY <2>1, <2>3, <3>1, RequestAdded
    <3>3. \A p \in Incarnations, i \in Ids : Occurs(p, i)' => Occurs(p, i) \/ i = id[t]
      BY <2>1, <3>1, <3>2 DEF Occurs, workers
    <3>4. \A c \in Callers : place'[c] # "put"
      <4>1. place'[t] # "put"
        BY <1>9 DEF Put, Call, GoesTo, TypesOK, ThreadTypes
      <4>2. QED
        BY <1>3, <2>1, <4>1, OneInside, Bounds DEF Inside
    <3>5. QED
      BY <2>1, <3>3, <3>4 DEF IdsOK
  <2>4. QED
    BY <1>9, <2>2, <2>3 DEF Put, HasRoom
<1>10. QED
  BY <1>5, <1>6, <1>7, <1>8, <1>9 DEF Steps

LEMMA IdsByWorker ==
    ASSUME TypesOK, WorkOK, IdsOK, NEW p \in Incarnations, Serve(p) \/ Die(p), use' = use
    PROVE  TypesOK' /\ WorkerFrame(p) /\ IdsOK'
<1>1. TypesOK' /\ WorkerFrame(p)
  BY LoadTypes, TakeTypes, SilentTypes, DecodeTypes, FinishTypes, DieTypes DEF Serve
<1>2. UNCHANGED <<place, id, next_request_id>>
  BY <1>1 DEF WorkerFrame, service, threads
<1>3. QED
  BY <1>1, <1>2, WorkerPasses, IdsKept

-----------------------------------------------------------------------------
(* The worker in service is at rest, or at the request of the one caller   *)
(* that is inside.                                                         *)
LEMMA RestHere ==
    ASSUME NEW p \in Incarnations, process' = p, Clean(p)'
    PROVE  RestOK'
  BY DEF RestOK, Clean

LEMMA RestHeld ==
    ASSUME NEW p \in Incarnations, process' = p, NEW i \in Ids, NEW c \in Callers, id'[c] = i,
           place'[c] \in {"wait", "finally", "drain"}, ending'[c] # "late", Holds(p, i)'
    PROVE  RestOK'
  BY DEF RestOK, Holds

(* Who holds the worker, before a step. *)
LEMMA RestBefore ==
    ASSUME TypesOK, ThreadsOK, RestOK, Running, ~gave_up
    PROVE  /\ process \in Incarnations
           /\ \/ Clean(process)
              \/ \E c \in Callers : /\ place[c] \in {"wait", "finally", "drain"}
                                    /\ ending[c] # "late" /\ id[c] \in Ids
                                    /\ Holds(process, id[c])
<1>1. process \in Incarnations
  BY Bounds DEF Running, TypesOK, ServiceTypes, Incarnations
<1>2. \A c \in Callers : place[c] \in {"wait", "finally", "drain"} => id[c] \in Ids
  BY Bounds DEF ThreadsOK, PlaceOf, Asking, Inside
<1>3. QED
  BY <1>1, <1>2 DEF RestOK

(* Nothing happens to the worker in service, and whoever holds it stays.   *)
LEMMA RestAnyway ==
    ASSUME TypesOK, ThreadsOK, RestOK, process' = process,
           Running' /\ ~gave_up' => Running /\ ~gave_up,
           Running' /\ ~gave_up' =>
               /\ worker'[process] = worker[process] /\ work'[process] = work[process]
               /\ requests'[process] = requests[process]
               /\ responses'[process] = responses[process],
           Running' /\ ~gave_up' =>
              \A c \in Callers : place[c] \in {"wait", "finally", "drain"} /\ ending[c] # "late" =>
                 /\ place'[c] \in {"wait", "finally", "drain"} /\ ending'[c] # "late"
                 /\ id'[c] = id[c]
    PROVE  RestOK'
<1> SUFFICES ASSUME Running', ~gave_up'
             PROVE  RestOK'
  BY DEF RestOK
<1>1. Running /\ ~gave_up
  OBVIOUS
<1>2. PICK p \in Incarnations : p = process
  BY <1>1, RestBefore
<1>3. CASE Clean(p)
  <2>1. Clean(p)'
    BY <1>2, <1>3 DEF Clean
  <2>2. QED
    BY <1>2, <2>1, RestHere
<1>4. CASE \E c \in Callers : /\ place[c] \in {"wait", "finally", "drain"} /\ id[c] \in Ids
                              /\ ending[c] # "late" /\ Holds(p, id[c])
  <2>1. PICK c \in Callers, i \in Ids : /\ place[c] \in {"wait", "finally", "drain"} /\ i = id[c]
                                        /\ ending[c] # "late" /\ Holds(p, i)
    BY <1>4
  <2>2. Holds(p, i)'
    BY <1>2, <2>1 DEF Holds
  <2>3. QED
    BY <1>2, <2>1, <2>2, RestHeld
<1>5. QED
  BY <1>1, <1>2, <1>3, <1>4, RestBefore

LEMMA RestOutside ==
    ASSUME TypesOK, ThreadsOK, RestOK, NEW t \in Threads, Outside(t), use' = use
    PROVE  RestOK'
<1>1. UNCHANGED <<wires, workers, process, starts>> /\ Others(t)
  BY OutsideTypes, OthersStand DEF Steps
<1>2. gave_up' = gave_up \/ (gave_up' = (gave_up \/ (Running /\ ending[t] # "late")) /\ DrainOver(t))
  BY DEF Outside, StartRunning, StopCall, Ready, NotReady, Refuse, Lock, Register, Break,
         Finally, DrainOver, Release
<1>3. ~gave_up' => ~gave_up
  BY <1>2
<1>4. Running' <=> Running
  BY <1>1 DEF Running, Live, workers
<1>5. Running' /\ ~gave_up' /\ place[t] \in {"wait", "finally", "drain"} /\ ending[t] # "late" =>
         place'[t] \in {"wait", "finally", "drain"} /\ ending'[t] # "late" /\ id'[t] = id[t]
  <2> SUFFICES ASSUME Running, ~gave_up', ending[t] # "late", place[t] \in {"wait", "finally", "drain"}
               PROVE  place'[t] \in {"wait", "finally", "drain"} /\ ending'[t] # "late" /\ id'[t] = id[t]
    BY <1>4
  <2>1. CASE Break(t)
    BY <2>1 DEF Break, EndsCall, GoesTo, TypesOK, ThreadTypes
  <2>2. CASE Finally(t)
    <3>1. Call(t, "drain")
      BY <2>2 DEF Finally, Torn, Running
    <3>2. QED
      BY <3>1, Called
  <2>3. CASE DrainOver(t)
    BY <2>3 DEF DrainOver
  <2>4. QED
    BY <2>1, <2>2, <2>3 DEF Outside, StartRunning, StopCall, Ready, NotReady, Refuse, Lock,
                            Register,
         Release
<1>6. \A c \in Callers : c # t => place'[c] = place[c] /\ ending'[c] = ending[c] /\ id'[c] = id[c]
  BY <1>1, Bounds DEF Others
<1>7. Running' /\ ~gave_up' =>
          \A c \in Callers : place[c] \in {"wait", "finally", "drain"} /\ ending[c] # "late" =>
             /\ place'[c] \in {"wait", "finally", "drain"} /\ ending'[c] # "late"
             /\ id'[c] = id[c]
  BY <1>5, <1>6
<1>8. /\ worker'[process] = worker[process] /\ work'[process] = work[process]
      /\ requests'[process] = requests[process] /\ responses'[process] = responses[process]
      /\ process' = process
  BY <1>1 DEF wires, workers
<1>9. QED
  BY <1>3, <1>4, <1>7, <1>8, RestAnyway

LEMMA RestBySpawn ==
    ASSUME TypesOK, WorkOK, NEW c \in Callers, StartSpawn(c), use' = use
    PROVE  RestOK'
<1>1. PICK n \in Incarnations : n = starts + 1
  BY Bounds DEF StartSpawn, TypesOK, ServiceTypes, Incarnations
<1>2. process' = n /\ worker'[n] = "loading" /\ UNCHANGED wires
  BY <1>1 DEF StartSpawn, TypesOK, WorkerTypes
<1>3. n > starts
  BY <1>1, Bounds DEF TypesOK, ServiceTypes
<1>4. requests[n] = <<>> /\ responses[n] = <<>>
  BY <1>3 DEF WorkOK, WorkOf
<1>5. Clean(n)'
  BY <1>2, <1>4 DEF Clean, Stops, wires
<1>6. QED
  BY <1>2, <1>5, RestHere

LEMMA RestByStop ==
    ASSUME TypesOK, ThreadsOK, RestOK, NEW t \in Threads, use' = use,
           StopBegin(t) \/ StopJoin(t) \/ StopClear(t)
    PROVE  RestOK'
<1>0. Others(t) /\ gave_up' = gave_up /\ place[t] \notin Inside
  BY OthersStand DEF Steps, StopBegin, StopJoin, StopClear, Inside
<1>1. \A c \in Callers : place[c] \in Inside => c # t /\ place'[c] = place[c] /\ ending'[c] = ending[c]
                                             /\ id'[c] = id[c]
  BY <1>0, Bounds DEF Others
<1> SUFFICES ASSUME Running', ~gave_up'
             PROVE  RestOK'
  BY DEF RestOK
<1>2. CASE StopClear(t)
  BY <1>2 DEF StopClear, Running
<1>3. CASE StopJoin(t)
  <2>1. UNCHANGED <<wires, process>> /\ Ended(joined[t])
    BY <1>3 DEF StopJoin, service
  <2>2. process \in Incarnations
    BY <2>1, Bounds DEF Running, TypesOK, ServiceTypes, Incarnations
  <2>3. process # joined[t]
    BY <2>1, <2>2 DEF Running, Live, Ended, TypesOK, WorkerTypes
  <2>4. worker'[process] = worker[process] /\ work'[process] = work[process]
    BY <2>1, <2>2, <2>3 DEF Ended, TypesOK, WorkerTypes
  <2>5. Running
    BY <2>1, <2>4 DEF Running, Live
  <2>6. QED
    BY <1>0, <1>1, <2>1, <2>4, <2>5, RestAnyway DEF wires, Inside
<1>4. CASE StopBegin(t)
  <2>1. UNCHANGED <<process, workers, responses>>
        /\ \/ requests' = requests
           \/ requests' = [requests EXCEPT ![process] = Append(@, Stop)]
    BY <1>4 DEF StopBegin, service
  <2>2. Running /\ ~gave_up
    BY <1>0, <2>1 DEF Running, Live, workers
  <2>3. CASE requests' = requests
    BY <1>0, <1>1, <2>1, <2>2, <2>3, RestAnyway DEF workers, Inside
  <2>4. CASE requests' = [requests EXCEPT ![process] = Append(@, Stop)]
    <3>1. PICK p \in Incarnations : p = process
      BY <2>2, RestBefore
    <3>2. /\ Len(requests[p]) \in Nat /\ Len(requests'[p]) = Len(requests[p]) + 1
          /\ requests'[p][Len(requests[p]) + 1] = Stop
          /\ \A k \in 1 .. Len(requests[p]) : requests'[p][k] = requests[p][k]
      BY <2>4, <3>1, RequestAdded
    <3>3. Stops(requests[p]) => Stops(requests'[p])
      BY <3>2 DEF Stops
    <3>4. \A i \in Ids : Once(requests[p], i) => Once(requests'[p], i)
      <4> SUFFICES ASSUME NEW i \in Ids, Once(requests[p], i)
                   PROVE  Once(requests'[p], i)
        OBVIOUS
      <4>1. PICK k \in 1 .. Len(requests[p]) :
               /\ requests[p][k] = i
               /\ \A m \in 1 .. Len(requests[p]) : m # k => requests[p][m] = Stop
        BY DEF Once
      <4>2. k \in 1 .. Len(requests'[p]) /\ requests'[p][k] = i
        BY <3>2, <4>1
      <4>3. \A m \in 1 .. Len(requests'[p]) : m # k => requests'[p][m] = Stop
        BY <3>2, <4>1, SMTT(30)
      <4>4. QED
        BY <4>2, <4>3 DEF Once
    <3>5. CASE Clean(p)
      <4>1. Clean(p)'
        BY <2>1, <3>3, <3>5 DEF Clean, workers
      <4>2. QED
        BY <2>1, <3>1, <4>1, RestHere
    <3>6. CASE \E c \in Callers : /\ place[c] \in {"wait", "finally", "drain"} /\ id[c] \in Ids
                                  /\ ending[c] # "late" /\ Holds(p, id[c])
      <4>1. PICK c \in Callers, i \in Ids : /\ place[c] \in {"wait", "finally", "drain"} /\ i = id[c]
                                            /\ ending[c] # "late" /\ Holds(p, i)
        BY <3>6
      <4>2. Holds(p, i)'
        BY <2>1, <3>3, <3>4, <4>1 DEF Holds, workers
      <4>3. place[c] \in Inside
        BY <4>1 DEF Inside
      <4>4. QED
        BY <1>1, <2>1, <3>1, <4>1, <4>2, <4>3, RestHeld
    <3>7. QED
      BY <2>2, <3>1, <3>5, <3>6, RestBefore
  <2>5. QED
    BY <2>1, <2>3, <2>4
<1>5. QED
  BY <1>2, <1>3, <1>4

LEMMA RestByPut ==
    ASSUME TypesOK, ThreadsOK, RestOK, NEW t \in Threads, Put(t), use' = use
    PROVE  RestOK'
<1>0. Others(t) /\ gave_up' = gave_up /\ place[t] = "put" /\ t \in Callers /\ id[t] \in Ids
      /\ ending[t] = "none" /\ UNCHANGED <<process, workers, responses>>
  BY OthersStand DEF Steps, Put, ThreadsOK, PlaceOf, Inside, Asking, service
<1> SUFFICES ASSUME Running', ~gave_up'
             PROVE  RestOK'
  BY DEF RestOK
<1>1. Running /\ ~gave_up
  BY <1>0 DEF Running, Live, workers
<1>2. PICK p \in Incarnations : p = process
  BY <1>1, RestBefore
<1>3. Clean(p)
  <2>1. \A c \in Callers : place[c] \in Inside => c = t
    BY <1>0, OneInside, Bounds DEF Inside
  <2>2. \A c \in Callers : place[c] \notin {"wait", "finally", "drain"}
    BY <1>0, <2>1 DEF Inside
  <2>3. QED
    BY <1>1, <1>2, <2>2, RestBefore
<1>4. CASE requests' = requests
  <2>1. Clean(p)'
    BY <1>0, <1>3, <1>4 DEF Clean, workers
  <2>2. QED
    BY <1>0, <1>2, <2>1, RestHere
<1>5. CASE requests' = [requests EXCEPT ![process] = Append(@, id[t])] /\ Call(t, "wait")
  <2>1. PICK i \in Ids : i = id[t]
    BY <1>0
  <2>2. /\ Len(requests[p]) \in Nat /\ Len(requests'[p]) = Len(requests[p]) + 1
        /\ requests'[p][Len(requests[p]) + 1] = i
        /\ \A k \in 1 .. Len(requests[p]) : requests'[p][k] = requests[p][k]
    BY <1>2, <1>5, <2>1, RequestAdded
  <2>3. Once(requests'[p], i)
    <3>1. Len(requests'[p]) \in 1 .. Len(requests'[p]) /\ requests'[p][Len(requests'[p])] = i
      BY <2>2
    <3>2. \A m \in 1 .. Len(requests'[p]) : m # Len(requests'[p]) => requests'[p][m] = Stop
      BY <1>3, <2>2 DEF Clean, Stops
    <3>3. QED
      BY <3>1, <3>2 DEF Once
  <2>4. Holds(p, i)'
    BY <1>0, <1>3, <2>3 DEF Holds, Clean, workers
  <2>5. place'[t] = "wait" /\ id'[t] = i /\ ending'[t] = "none"
    BY <1>0, <1>5, <2>1, Called
  <2>6. QED
    BY <1>0, <1>2, <2>4, <2>5, RestHeld
<1>6. QED
  BY <1>4, <1>5 DEF Put

(* A frame taken by the caller that holds the worker is its own, and the   *)
(* last one leaves the worker at rest.                                     *)
LEMMA RestByFrame ==
    ASSUME TypesOK, WorkOK, ThreadsOK, RestOK, NEW t \in Threads, Running, ~gave_up,
           place[t] \in {"wait", "drain"}, responses[process] # <<>>,
           responses' = [responses EXCEPT ![process] = Tail(@)], requests' = requests,
           UNCHANGED workers, process' = process
    PROVE  /\ t \in Callers /\ ending[t] # "late" /\ id[t] \in Ids
           /\ process \in Incarnations
           /\ Head(responses[process]).id = id[t]
           /\ IF Head(responses[process]).final
              THEN Clean(process)' ELSE /\ Head(responses[process]).status = "ok"
                                        /\ \A p, i : p = process /\ i = id[t] => Holds(p, i)'
<1>1. PICK p \in Incarnations : p = process
  BY RestBefore
<1>2. ~Clean(p)
  BY <1>1 DEF Clean
<1>3. \A c \in Callers : place[c] \in Inside => c = t
  BY OneInside, Bounds DEF Inside
<1>4. t \in Callers /\ ending[t] # "late" /\ id[t] \in Ids /\ Holds(p, id[t])
  BY <1>1, <1>2, <1>3, RestBefore DEF Inside
<1>5. PICK i \in Ids : i = id[t]
  BY <1>4
<1> DEFINE q == responses[p]
<1>6. /\ Head(q) = q[1] /\ Len(q) \in Nat /\ Len(responses'[p]) = Len(q) - 1
      /\ \A k \in 1 .. Len(responses'[p]) :
            k + 1 \in 1 .. Len(q) /\ responses'[p][k] = q[k + 1]
      /\ responses'[p] \in Seq(Frames)
  BY <1>1, FrameTaken DEF WorkerTypes
<1>7. q \in Seq(Frames) /\ q # <<>> /\ 1 \in 1 .. Len(q)
  BY <1>1, <1>6, EmptySeq DEF TypesOK, WorkerTypes
<1>8. ~q[1].final => q[1].status = "ok"
  BY <1>7 DEF WorkOK, WorkOf
<1>9. UNCHANGED <<worker, work>>
  BY DEF workers
<1> HIDE DEF q
<1>10. CASE worker[p] \in AtWork /\ work[p].id = i /\ Stops(requests[p]) /\ Streamed(q, i)
  <2>1. q[1].id = i /\ ~q[1].final
    BY <1>7, <1>10 DEF Streamed
  <2>2. Streamed(responses'[p], i)
    BY <1>6, <1>10 DEF Streamed
  <2>3. Holds(p, i)'
    BY <1>9, <1>10, <2>2 DEF Holds
  <2>4. QED
    BY <1>1, <1>4, <1>5, <1>6, <1>8, <2>1, <2>3 DEF q
<1>11. CASE worker[p] = "idle" /\ Stops(requests[p]) /\ Answered(q, i)
  <2>1. q[1].id = i /\ (q[1].final <=> Len(q) = 1)
    BY <1>6, <1>7, <1>11 DEF Answered
  <2>2. CASE q[1].final
    <3>1. responses'[p] = <<>>
      BY <1>6, <2>1, <2>2, EmptySeq
    <3>2. Clean(p)'
      BY <1>9, <1>11, <3>1 DEF Clean
    <3>3. Clean(process)'
      BY <1>1, <3>2 DEF Clean
    <3>4. QED
      BY <1>1, <1>4, <1>5, <1>6, <2>1, <2>2, <3>3 DEF q
  <2>3. CASE ~q[1].final
    <3>1. Len(responses'[p]) >= 1
      <4>1. Len(q) \in Nat /\ Len(q) >= 1 /\ Len(q) # 1
        BY <1>6, <1>7, <2>1, <2>3
      <4>2. PICK n \in Nat : n = Len(q)
        BY <4>1
      <4>3. Len(responses'[p]) = n - 1
        BY <1>6, <4>2
      <4>4. n >= 2
        BY <4>1, <4>2
      <4>5. QED
        BY <4>3, <4>4
    <3>2. responses'[p] # <<>>
      <4>1. Len(<<>>) = 0 /\ ~(0 >= 1)
        BY EmptySeq
      <4>2. QED
        BY <3>1, <4>1
    <3>3. \A k \in 1 .. Len(responses'[p]) :
             responses'[p][k].id = i /\ (responses'[p][k].final <=> k = Len(responses'[p]))
      <4> SUFFICES ASSUME NEW k \in 1 .. Len(responses'[p])
                   PROVE  responses'[p][k].id = i
                          /\ (responses'[p][k].final <=> k = Len(responses'[p]))
        OBVIOUS
      <4>1. k + 1 \in 1 .. Len(q) /\ responses'[p][k] = q[k + 1]
        BY <1>6
      <4>2. q[k + 1].id = i /\ (q[k + 1].final <=> k + 1 = Len(q))
        BY <1>11, <4>1 DEF Answered
      <4>3. QED
        BY <1>6, <4>1, <4>2
    <3>4. Answered(responses'[p], i)
      BY <3>2, <3>3 DEF Answered
    <3>5. Holds(p, i)'
      BY <1>9, <1>11, <3>4 DEF Holds
    <3>6. QED
      BY <1>1, <1>4, <1>5, <1>6, <1>8, <2>1, <2>3, <3>5 DEF q
  <2>4. QED
    BY <2>2, <2>3
<1>12. ~(worker[p] \in {"loading", "idle"} /\ Once(requests[p], i) /\ q = <<>>)
  BY <1>7
<1>13. QED
  BY <1>4, <1>5, <1>10, <1>11, <1>12 DEF Holds, q

LEMMA RestByFrames ==
    ASSUME TypesOK, WorkOK, ThreadsOK, RestOK, NEW t \in Threads, use' = use,
           Receive(t) \/ DrainFrame(t)
    PROVE  RestOK'
<1>1. /\ Running /\ responses[process] # <<>> /\ gave_up' = gave_up
      /\ responses' = [responses EXCEPT ![process] = Tail(@)] /\ requests' = requests
      /\ UNCHANGED workers /\ process' = process /\ place[t] \in {"wait", "drain"} /\ id' = id
  BY DEF Receive, DrainFrame, service
<1> SUFFICES ASSUME ~gave_up
             PROVE  RestOK'
  BY <1>1 DEF RestOK
<1>2. /\ t \in Callers /\ ending[t] # "late" /\ id[t] \in Ids
      /\ process \in Incarnations
      /\ Head(responses[process]).id = id[t]
      /\ IF Head(responses[process]).final
         THEN Clean(process)' ELSE /\ Head(responses[process]).status = "ok"
                                   /\ \A p, i : p = process /\ i = id[t] => Holds(p, i)'
  BY <1>1, RestByFrame
<1>3. CASE Head(responses[process]).final
  BY <1>1, <1>2, <1>3 DEF RestOK, Clean
<1>4. CASE ~Head(responses[process]).final
  <2>1. PICK p \in Incarnations, i \in Ids : p = process /\ i = id[t]
    BY <1>2
  <2>2. Holds(p, i)'
    BY <1>2, <1>4, <2>1
  <2>3. place'[t] \in {"wait", "finally", "drain"} /\ ending'[t] # "late"
    <3>1. CASE DrainFrame(t)
      BY <1>2, <1>4, <3>1 DEF DrainFrame, Own, GoesTo, TypesOK, ThreadTypes
    <3>2. CASE Receive(t)
      BY <1>2, <1>4, <3>2 DEF Receive, EndsCall, GoesTo, TypesOK, ThreadTypes
    <3>3. QED
      BY <3>1, <3>2
  <2>4. QED
    BY <1>1, <1>2, <2>1, <2>2, <2>3, RestHeld
<1>5. QED
  BY <1>3, <1>4

(* The worker in service takes the request, streams it and answers it.     *)
LEMMA RestByWorker ==
    ASSUME TypesOK, WorkOK, ThreadsOK, RestOK, NEW p \in Incarnations, Serve(p) \/ Die(p),
           use' = use
    PROVE  RestOK'
<1>0. TypesOK' /\ WorkerFrame(p)
  BY LoadTypes, TakeTypes, SilentTypes, DecodeTypes, FinishTypes, DieTypes DEF Serve
<1>1. UNCHANGED <<process, gave_up, place, id, ending>>
  BY <1>0 DEF WorkerFrame, service, threads
<1> SUFFICES ASSUME Running', ~gave_up'
             PROVE  RestOK'
  BY DEF RestOK
<1>2. worker[p] \notin {"none", "dead"}
  BY DEF Serve, LoadModel, Take, SkipCancelled, Decode, Check, ModelRaises, FinishRequest,
         Die, Live
<1>3. process \in Incarnations
  BY <1>1, Bounds DEF Running, TypesOK, ServiceTypes, Incarnations
<1>4. Running /\ ~gave_up
  BY <1>0, <1>1, <1>2, <1>3 DEF Running, Live, WorkerFrame
<1>5. CASE p # process
  <2>1. /\ worker'[process] = worker[process] /\ work'[process] = work[process]
        /\ requests'[process] = requests[process] /\ responses'[process] = responses[process]
    BY <1>0, <1>3, <1>5 DEF WorkerFrame
  <2>2. QED
    BY <1>1, <1>4, <2>1, RestAnyway
<1>6. CASE p = process
  <2>0. worker'[p] \notin {"none", "dead"}
    BY <1>1, <1>6 DEF Running, Live
  <2>1. ASSUME Clean(p)' PROVE RestOK'
    BY <1>1, <1>6, <2>1, RestHere
  <2>2. ASSUME NEW i \in Ids, NEW c \in Callers, id[c] = i,
               place[c] \in {"wait", "finally", "drain"}, ending[c] # "late", Holds(p, i)'
        PROVE  RestOK'
    BY <1>1, <1>6, <2>2, RestHeld
  <2>3. ASSUME Clean(p) PROVE Clean(p)'
    <3>1. CASE LoadModel(p)
      BY <2>3, <3>1 DEF LoadModel, Moves, Clean, wires, TypesOK, WorkerTypes
    <3>2. CASE Take(p)
      <4>1. requests[p] # <<>> /\ Head(requests[p]) = requests[p][1] /\ 1 \in 1 .. Len(requests[p])
        BY <3>2, TakeTypes, EmptySeq DEF TypesOK, WorkerTypes
      <4>2. Head(requests[p]) = Stop
        BY <2>3, <4>1 DEF Clean, Stops
      <4>3. QED
        BY <2>0, <3>2, <4>2 DEF Take, Moves, TypesOK, WorkerTypes
    <3>3. CASE Die(p)
      BY <2>0, <3>3 DEF Die, Ended, TypesOK, WorkerTypes
    <3>4. QED
      BY <2>3, <3>1, <3>2, <3>3 DEF Serve, SkipCancelled, Decode, Check, ModelRaises,
                                    FinishRequest, Clean
  <2>4. ASSUME NEW i \in Ids, Holds(p, i) PROVE Holds(p, i)'
    <3>1. CASE LoadModel(p)
      BY <2>4, <3>1 DEF LoadModel, Moves, Holds, wires, AtWork, TypesOK, WorkerTypes
    <3>2. CASE Take(p)
      <4>1. /\ requests[p] # <<>> /\ Head(requests[p]) = requests[p][1]
            /\ Len(requests[p]) \in Nat /\ Len(requests'[p]) = Len(requests[p]) - 1
            /\ \A k \in 1 .. Len(requests'[p]) :
                  k + 1 \in 1 .. Len(requests[p]) /\ requests'[p][k] = requests[p][k + 1]
        BY <3>2, TakeTypes
      <4>2. 1 \in 1 .. Len(requests[p])
        BY <4>1, EmptySeq DEF TypesOK, WorkerTypes
      <4>3. Head(requests[p]) # Stop
        BY <2>0, <3>2 DEF Take, Moves, TypesOK, WorkerTypes
      <4>4. worker[p] = "idle" /\ ~Stops(requests[p])
        BY <3>2, <4>1, <4>2, <4>3 DEF Take, Stops
      <4>5. Once(requests[p], i) /\ responses[p] = <<>>
        BY <2>4, <4>4 DEF Holds, AtWork
      <4>6. PICK k \in 1 .. Len(requests[p]) :
               /\ requests[p][k] = i
               /\ \A m \in 1 .. Len(requests[p]) : m # k => requests[p][m] = Stop
        BY <4>5 DEF Once
      <4>7. k = 1
        BY <4>1, <4>2, <4>3, <4>6
      <4>8. \A m \in 1 .. Len(requests'[p]) : requests'[p][m] = Stop
        BY <4>1, <4>6, <4>7
      <4>9. Stops(requests'[p]) /\ Head(requests[p]) = i
        BY <4>1, <4>6, <4>7, <4>8 DEF Stops
      <4>10. worker'[p] = "decode" /\ work'[p].id = i /\ responses'[p] = <<>>
        BY <3>2, <4>3, <4>5, <4>9 DEF Take, Moves, Works, TypesOK, WorkerTypes
      <4>11. Streamed(responses'[p], i)
        BY <4>10, EmptySeq DEF Streamed
      <4>12. QED
        BY <4>9, <4>10, <4>11 DEF Holds, AtWork
    <3>3. ASSUME worker[p] \in AtWork
          PROVE  work[p].id = i /\ Stops(requests[p]) /\ Streamed(responses[p], i)
      BY <2>4, <3>3 DEF Holds, AtWork
    <3>4. CASE SkipCancelled(p) \/ Check(p) \/ ModelRaises(p)
      <4>1. /\ UNCHANGED wires /\ work'[p].id = work[p].id
            /\ worker[p] \in AtWork /\ worker'[p] \in AtWork
        BY <3>4, SilentTypes DEF AtWork
      <4>2. QED
        BY <3>3, <4>1 DEF Holds, wires
    <3>5. CASE Decode(p)
      <4>1. /\ requests'[p] = requests[p] /\ work'[p].id = work[p].id
            /\ worker[p] \in AtWork /\ worker'[p] \in AtWork
            /\ \/ responses'[p] = responses[p]
               \/ \E f \in Frames : responses'[p] = Append(responses[p], f) /\ f.id = work[p].id
                                    /\ ~f.final
        BY <3>5, DecodeTypes DEF AtWork
      <4>2. work[p].id = i /\ Stops(requests[p]) /\ Streamed(responses[p], i)
        BY <3>3, <4>1
      <4>3. Streamed(responses'[p], i)
        BY <4>1, <4>2, FrameAdded DEF Streamed
      <4>4. QED
        BY <4>1, <4>2, <4>3 DEF Holds
    <3>6. CASE FinishRequest(p)
      <4>1. /\ requests'[p] = requests[p]
            /\ worker[p] = "finish" /\ worker'[p] = "idle"
            /\ \E f \in Frames : responses'[p] = Append(responses[p], f) /\ f.id = work[p].id
                                 /\ f.final
        BY <2>0, <3>6, FinishTypes
      <4>2. work[p].id = i /\ Stops(requests[p]) /\ Streamed(responses[p], i)
        BY <3>3, <4>1 DEF AtWork
      <4>3. PICK f \in Frames : responses'[p] = Append(responses[p], f) /\ f.id = i /\ f.final
        BY <4>1, <4>2
      <4>4. /\ Len(responses[p]) \in Nat /\ Len(responses'[p]) = Len(responses[p]) + 1
            /\ responses'[p][Len(responses'[p])] = f
            /\ \A k \in 1 .. Len(responses'[p]) :
                  k = Len(responses'[p]) \/ (k \in 1 .. Len(responses[p])
                                             /\ responses'[p][k] = responses[p][k])
        BY <4>3, FrameAdded
      <4>5. responses'[p] # <<>>
        BY <4>4, EmptySeq
      <4>6. \A k \in 1 .. Len(responses'[p]) :
               responses'[p][k].id = i /\ (responses'[p][k].final <=> k = Len(responses'[p]))
        <5> SUFFICES ASSUME NEW k \in 1 .. Len(responses'[p])
                     PROVE  responses'[p][k].id = i
                            /\ (responses'[p][k].final <=> k = Len(responses'[p]))
          OBVIOUS
        <5>1. CASE k = Len(responses'[p])
          BY <4>3, <4>4, <5>1
        <5>2. CASE k \in 1 .. Len(responses[p]) /\ responses'[p][k] = responses[p][k]
          BY <4>2, <4>4, <5>2 DEF Streamed
        <5>3. QED
          BY <4>4, <5>1, <5>2
      <4>7. Answered(responses'[p], i)
        BY <4>5, <4>6 DEF Answered
      <4>8. QED
        BY <4>1, <4>2, <4>7 DEF Holds
    <3>7. CASE Die(p)
      BY <2>0, <3>7 DEF Die, Ended, TypesOK, WorkerTypes
    <3>8. QED
      BY <3>1, <3>2, <3>4, <3>5, <3>6, <3>7 DEF Serve
  <2>5. QED
    BY <1>4, <1>6, <2>1, <2>2, <2>3, <2>4, RestBefore
<1>7. QED
  BY <1>5, <1>6

LEMMA RestByCancel ==
    ASSUME RestOK, CancelActive, use' = use
    PROVE  RestOK'
<1>1. UNCHANGED <<process, workers, wires, threads, gave_up>>
  BY DEF CancelActive, service
<1>2. QED
  BY <1>1 DEF RestOK, Running, Live, Clean, Holds, workers, wires, threads

-----------------------------------------------------------------------------
(* What a caller that waits can be sent.                                   *)
LEMMA ExpectsHere ==
    ASSUME NEW p \in Incarnations, process' = p,
           \A c \in Callers : place'[c] = "wait" /\ Running' =>
              \A i \in Ids : i = id'[c] => Expects(p, i)',
           \A c \in Callers : place'[c] = "wait" => id'[c] \in Ids
    PROVE  WaitOK'
<1> SUFFICES ASSUME NEW c \in Callers, place'[c] = "wait", Running'
             PROVE  Expects(process, id[c])'
  BY DEF WaitOK
<1>1. PICK i \in Ids : i = id'[c]
  OBVIOUS
<1>2. Expects(p, i)'
  BY <1>1
<1>3. QED
  BY <1>1, <1>2 DEF Expects

LEMMA WaitingIds ==
    ASSUME ThreadsOK, NEW c \in Callers, place[c] = "wait"
    PROVE  id[c] \in Ids /\ place[c] \in Inside
  BY Bounds DEF ThreadsOK, PlaceOf, Asking, Inside

(* Nothing happens at the worker in service but that it is cancelled.      *)
LEMMA WaitAnyway ==
    ASSUME TypesOK, ThreadsOK, WaitOK, process' = process,
           Running' => Running,
           Running' => /\ worker'[process] = worker[process] /\ work'[process] = work[process]
                       /\ requests'[process] = requests[process]
                       /\ responses'[process] = responses[process],
           Running' => \A c \in Callers : place'[c] = "wait" =>
              place[c] = "wait" /\ id'[c] = id[c] /\ (process \in cancel => process \in cancel')
    PROVE  WaitOK'
<1> SUFFICES ASSUME NEW c \in Callers, place'[c] = "wait", Running'
             PROVE  Expects(process, id[c])'
  BY DEF WaitOK
<1>1. place[c] = "wait" /\ id'[c] = id[c] /\ (process \in cancel => process \in cancel')
  OBVIOUS
<1>2. PICK i \in Ids : i = id[c]
  BY <1>1, WaitingIds
<1>3. PICK p \in Incarnations : p = process
  BY Bounds DEF Running, TypesOK, ServiceTypes, Incarnations
<1>4. Expects(p, i)
  BY <1>1, <1>2, <1>3 DEF WaitOK
<1>5. Expects(p, i)'
  BY <1>1, <1>3, <1>4 DEF Expects
<1>6. QED
  BY <1>1, <1>2, <1>3, <1>5 DEF Expects

LEMMA WaitOutside ==
    ASSUME TypesOK, ThreadsOK, WaitOK, NEW t \in Threads, Outside(t), use' = use
    PROVE  WaitOK'
<1>1. UNCHANGED <<wires, workers, process, starts>> /\ Others(t)
  BY OutsideTypes, OthersStand DEF Steps
<1>2. Running' <=> Running
  BY <1>1 DEF Running, Live, workers
<1>3. place'[t] # "wait"
  BY DEF Outside, StartRunning, StopCall, Ready, NotReady, Refuse, Lock, Register, Break,
         Finally, DrainOver, Release, Call, Returns, EndsCall, GoesTo, Torn, TypesOK, ThreadTypes
<1>4. \A c \in Callers : place'[c] = "wait" => c # t /\ place[c] = "wait" /\ id'[c] = id[c]
  BY <1>1, <1>3, Bounds DEF Others
<1>5. cancel \subseteq cancel' \/ Register(t)
  BY DEF Outside, StartRunning, StopCall, Ready, NotReady, Refuse, Lock, Register, Break,
         Finally, DrainOver, Release, Torn, Set
<1>6. Register(t) => \A c \in Callers : place[c] # "wait"
  <2> SUFFICES ASSUME Register(t), NEW c \in Callers, place[c] = "wait"
               PROVE  FALSE
    OBVIOUS
  <2>1. place[t] = "register" /\ place[t] \in Inside /\ place[c] \in Inside
    BY DEF Register, Inside
  <2>2. QED
    BY <2>1, OneInside, Bounds
<1>7. /\ worker'[process] = worker[process] /\ work'[process] = work[process]
      /\ requests'[process] = requests[process] /\ responses'[process] = responses[process]
      /\ process' = process
  BY <1>1 DEF wires, workers
<1>8. \A c \in Callers : place'[c] = "wait" =>
         place[c] = "wait" /\ id'[c] = id[c] /\ (process \in cancel => process \in cancel')
  BY <1>4, <1>5, <1>6
<1>9. QED
  BY <1>2, <1>7, <1>8, WaitAnyway

LEMMA WaitBySpawn ==
    ASSUME TypesOK, WorkOK, ThreadsOK, NEW c \in Callers, StartSpawn(c), use' = use
    PROVE  WaitOK'
<1>1. PICK n \in Incarnations : n = starts + 1
  BY Bounds DEF StartSpawn, TypesOK, ServiceTypes, Incarnations
<1>2. process' = n /\ UNCHANGED <<wires, work>>
  BY <1>1 DEF StartSpawn
<1>3. n > starts
  BY <1>1, Bounds DEF TypesOK, ServiceTypes
<1>4. requests[n] = <<>> /\ responses[n] = <<>> /\ work[n] = Absent
  BY <1>3 DEF WorkOK, WorkOf
<1>5. \A i \in Ids : Expects(n, i)'
  BY <1>2, <1>4, EmptySeq DEF Expects, wires
<1>6. \A d \in Callers : place'[d] = "wait" => id'[d] \in Ids
  <2>1. ThreadsOK'
    BY PlaceByThread, Bounds DEF Steps
  <2>2. QED
    BY <2>1, Bounds DEF ThreadsOK, PlaceOf, Asking, Inside
<1>7. QED
  BY <1>2, <1>5, <1>6, ExpectsHere

LEMMA WaitByStop ==
    ASSUME TypesOK, ThreadsOK, WaitOK, NEW t \in Threads, use' = use,
           StopBegin(t) \/ StopJoin(t) \/ StopClear(t)
    PROVE  WaitOK'
<1>0. Others(t) /\ place'[t] # "wait"
  BY OthersStand DEF Steps, StopBegin, StopJoin, StopClear, Returns, GoesTo, TypesOK,
                     ThreadTypes
<1>1. \A c \in Callers : place'[c] = "wait" => c # t /\ place[c] = "wait" /\ id'[c] = id[c]
  BY <1>0, Bounds DEF Others
<1>2. CASE StopClear(t)
  BY <1>2 DEF StopClear, Running, WaitOK
<1>3. CASE StopJoin(t)
  <2>1. UNCHANGED <<wires, process, cancel>> /\ Ended(joined[t])
    BY <1>3 DEF StopJoin, service
  <2>2. Running' => /\ process # joined[t] /\ process \in Incarnations
    BY <2>1, Bounds DEF Running, Live, Ended, TypesOK, WorkerTypes, ServiceTypes, Incarnations
  <2>3. Running' => worker'[process] = worker[process] /\ work'[process] = work[process]
    BY <2>1, <2>2 DEF Ended, TypesOK, WorkerTypes
  <2>4. Running' => Running
    BY <2>1, <2>3 DEF Running, Live
  <2>5. QED
    BY <1>1, <2>1, <2>3, <2>4, WaitAnyway DEF wires
<1>4. CASE StopBegin(t)
  <2>1. UNCHANGED <<process, workers, responses>> /\ cancel \subseteq cancel'
        /\ \/ requests' = requests
           \/ requests' = [requests EXCEPT ![process] = Append(@, Stop)]
    BY <1>4 DEF StopBegin, service, Set
  <2>2. CASE requests' = requests
    BY <1>1, <2>1, <2>2, WaitAnyway DEF workers, Running, Live
  <2>3. CASE requests' = [requests EXCEPT ![process] = Append(@, Stop)]
    <3> SUFFICES ASSUME NEW c \in Callers, place'[c] = "wait", Running'
                 PROVE  Expects(process, id[c])'
      BY DEF WaitOK
    <3>1. place[c] = "wait" /\ id'[c] = id[c] /\ Running
      BY <1>1, <2>1 DEF Running, Live, workers
    <3>2. PICK i \in Ids : i = id[c]
      BY <3>1, WaitingIds
    <3>3. PICK p \in Incarnations : p = process
      BY <3>1, Bounds DEF Running, TypesOK, ServiceTypes, Incarnations
    <3>4. Expects(p, i)
      BY <3>1, <3>2, <3>3 DEF WaitOK
    <3>5. /\ Len(requests[p]) \in Nat /\ Len(requests'[p]) = Len(requests[p]) + 1
          /\ requests'[p][Len(requests[p]) + 1] = Stop
          /\ \A k \in 1 .. Len(requests[p]) : requests'[p][k] = requests[p][k]
      BY <2>3, <3>3, RequestAdded
    <3>6. i # Stop
      BY Bounds DEF Ids, Stop
    <3>7. \A k \in 1 .. Len(requests'[p]) : requests'[p][k] = i =>
             \A m \in k + 1 .. Len(requests'[p]) : requests'[p][m] = Stop
      <4> SUFFICES ASSUME NEW k \in 1 .. Len(requests'[p]), requests'[p][k] = i,
                          NEW m \in k + 1 .. Len(requests'[p])
                   PROVE  requests'[p][m] = Stop
        OBVIOUS
      <4>1. k \in 1 .. Len(requests[p]) /\ requests[p][k] = i
        BY <3>5, <3>6
      <4>2. m = Len(requests[p]) + 1 \/ (m \in k + 1 .. Len(requests[p]) /\ m \in 1 .. Len(requests[p]))
        BY <3>5, <4>1
      <4>3. QED
        BY <3>4, <3>5, <4>1, <4>2 DEF Expects
    <3>8. Stops(requests[p]) => Stops(requests'[p])
      BY <3>5 DEF Stops
    <3>9. Expects(p, i)'
      BY <2>1, <3>4, <3>7, <3>8 DEF Expects, workers
    <3>10. QED
      BY <2>1, <3>1, <3>2, <3>3, <3>9 DEF Expects
  <2>4. QED
    BY <2>1, <2>2, <2>3
<1>5. QED
  BY <1>2, <1>3, <1>4

LEMMA WaitByPut ==
    ASSUME TypesOK, ThreadsOK, IdsOK, WaitOK, NEW t \in Threads, Put(t), use' = use
    PROVE  WaitOK'
<1>0. Others(t) /\ place[t] = "put" /\ t \in Callers /\ id[t] \in Ids
      /\ UNCHANGED <<process, workers, responses, cancel>>
  BY OthersStand DEF Steps, Put, ThreadsOK, PlaceOf, Inside, Asking, service
<1>1. \A c \in Callers : place[c] # "wait"
  BY <1>0, OneInside, Bounds DEF Inside
<1>2. \A c \in Callers : place'[c] = "wait" => c = t
  BY <1>0, <1>1, Bounds DEF Others
<1>3. CASE Call(t, "finally")
  <2>1. place'[t] = "finally"
    BY <1>3, Called
  <2>2. QED
    BY <1>2, <2>1 DEF WaitOK
<1>4. CASE HasRoom /\ requests' = [requests EXCEPT ![process] = Append(@, id[t])] /\ Call(t, "wait")
  <2>0. process \in Incarnations
    BY <1>4, Bounds DEF HasRoom, TypesOK, ServiceTypes, Incarnations
  <2>1. PICK p \in Incarnations, i \in Ids : p = process /\ i = id[t]
    BY <1>0, <2>0
  <2>2. /\ Len(requests[p]) \in Nat /\ Len(requests'[p]) = Len(requests[p]) + 1
        /\ requests'[p][Len(requests[p]) + 1] = i
        /\ \A k \in 1 .. Len(requests[p]) : requests'[p][k] = requests[p][k]
    BY <1>4, <2>1, RequestAdded
  <2>3. ~Occurs(p, i)
    BY <1>0, <2>1 DEF IdsOK
  <2>4. \A k \in 1 .. Len(requests'[p]) : requests'[p][k] = i =>
           \A m \in k + 1 .. Len(requests'[p]) : requests'[p][m] = Stop
    <3> SUFFICES ASSUME NEW k \in 1 .. Len(requests'[p]), requests'[p][k] = i,
                        NEW m \in k + 1 .. Len(requests'[p])
                 PROVE  FALSE
      OBVIOUS
    <3>1. k \in 1 .. Len(requests[p])
      BY <2>2
    <3>2. QED
      BY <2>2, <2>3, <3>1 DEF Occurs
  <2>5. Expects(p, i)'
    BY <1>0, <2>3, <2>4 DEF Expects, Occurs, workers
  <2>6. id'[t] = i
    BY <1>4, <2>1, Called
  <2>7. QED
    BY <1>0, <1>2, <2>1, <2>5, <2>6, ExpectsHere
<1>5. QED
  BY <1>3, <1>4 DEF Put

LEMMA WaitByFrames ==
    ASSUME TypesOK, ThreadsOK, WaitOK, NEW t \in Threads, use' = use,
           Receive(t) \/ DrainFrame(t)
    PROVE  WaitOK'
<1>0. Others(t)
  BY OthersStand DEF Steps
<1>1. /\ Running /\ responses[process] # <<>> /\ UNCHANGED <<process, workers, requests, id, cancel>>
      /\ responses' = [responses EXCEPT ![process] = Tail(@)] /\ place[t] \in {"wait", "drain"}
  BY DEF Receive, DrainFrame, service
<1>2. \A c \in Callers : place'[c] = "wait" => c = t /\ place[c] = "wait"
  <2>1. \A c \in Callers \ {t} : place[c] # "wait"
    BY <1>1, OneInside, Bounds DEF Inside
  <2>2. place'[t] = "wait" => place[t] = "wait"
    BY DEF Receive, DrainFrame, EndsCall, GoesTo, TypesOK, ThreadTypes
  <2>3. QED
    BY <1>0, <2>1, <2>2, Bounds DEF Others
<1> SUFFICES ASSUME NEW c \in Callers, place'[c] = "wait"
             PROVE  Expects(process, id[c])'
  BY DEF WaitOK
<1>3. place[c] = "wait" /\ id'[c] = id[c]
  BY <1>1, <1>2
<1>4. PICK i \in Ids : i = id[c]
  BY <1>3, WaitingIds
<1>5. PICK p \in Incarnations : p = process
  BY <1>1, Bounds DEF Running, TypesOK, ServiceTypes, Incarnations
<1>6. Expects(p, i)
  BY <1>1, <1>3, <1>4, <1>5 DEF WaitOK
<1>7. \A k \in 1 .. Len(responses'[p]) :
         k + 1 \in 1 .. Len(responses[p]) /\ responses'[p][k] = responses[p][k + 1]
  BY <1>1, <1>5, FrameTaken
<1>8. Expects(p, i)'
  BY <1>1, <1>6, <1>7 DEF Expects, workers
<1>9. process' = p /\ id'[c] = i
  BY <1>1, <1>3, <1>4, <1>5
<1>10. QED
  BY <1>8, <1>9 DEF Expects

(* The worker: what it sends for a request, and that a request it takes    *)
(* has had no frame yet.                                                   *)
LEMMA WaitByWorker ==
    ASSUME TypesOK, WorkOK, ThreadsOK, WaitOK, NEW p \in Incarnations, Serve(p) \/ Die(p),
           use' = use
    PROVE  WaitOK'
<1>0. WorkerFrame(p)
  BY LoadTypes, TakeTypes, SilentTypes, DecodeTypes, FinishTypes, DieTypes DEF Serve
<1>1. UNCHANGED <<process, place, id, cancel>>
  BY <1>0 DEF WorkerFrame, service, threads
<1>2. worker[p] \notin {"none", "dead"}
  BY DEF Serve, LoadModel, Take, SkipCancelled, Decode, Check, ModelRaises, FinishRequest,
         Die, Live
<1>3. Running' => Running /\ process \in Incarnations
  BY <1>0, <1>1, <1>2, Bounds DEF Running, Live, WorkerFrame, TypesOK, ServiceTypes,
                                  Incarnations
<1>4. CASE p # process
  <2>1. Running' =>
          /\ worker'[process] = worker[process] /\ work'[process] = work[process]
          /\ requests'[process] = requests[process] /\ responses'[process] = responses[process]
    BY <1>0, <1>3, <1>4 DEF WorkerFrame
  <2>2. QED
    BY <1>1, <1>3, <2>1, WaitAnyway
<1>5. CASE p = process
  <2> SUFFICES ASSUME NEW c \in Callers, place[c] = "wait", Running'
               PROVE  Expects(process, id[c])'
    BY <1>1 DEF WaitOK
  <2>1. PICK i \in Ids : i = id[c]
    BY WaitingIds
  <2>2. Expects(p, i)
    BY <1>3, <1>5, <2>1 DEF WaitOK
  <2>3. worker'[p] \notin {"none", "dead"}
    BY <1>1, <1>5 DEF Running, Live
  <2>4. CASE LoadModel(p)
    <3>1. worker[p] = "loading" /\ worker'[p] = "idle" /\ UNCHANGED <<wires, work>>
      BY <2>4 DEF LoadModel, Moves, TypesOK, WorkerTypes
    <3>2. Expects(p, i)'
      BY <2>2, <3>1 DEF Expects, AtWork, wires
    <3>3. QED
      BY <1>1, <1>5, <2>1, <3>2 DEF Expects
  <2>5. CASE Take(p)
    <3>1. /\ requests[p] # <<>> /\ Head(requests[p]) = requests[p][1]
          /\ Len(requests[p]) \in Nat /\ Len(requests'[p]) = Len(requests[p]) - 1
          /\ \A k \in 1 .. Len(requests'[p]) :
                k + 1 \in 1 .. Len(requests[p]) /\ requests'[p][k] = requests[p][k + 1]
      BY <2>5, TakeTypes
    <3>2. 1 \in 1 .. Len(requests[p])
      BY <3>1, EmptySeq DEF TypesOK, WorkerTypes
    <3>3. Head(requests[p]) # Stop
      BY <2>3, <2>5 DEF Take, Moves, TypesOK, WorkerTypes
    <3>4. /\ worker'[p] = "decode" /\ work'[p].id = Head(requests[p])
          /\ work'[p].made = 0 /\ work'[p].emitted = <<>> /\ responses' = responses
      BY <2>5, <3>3 DEF Take, Moves, Works, TypesOK, WorkerTypes
    <3>5. \A k \in 1 .. Len(requests'[p]) : requests'[p][k] = i =>
             \A m \in k + 1 .. Len(requests'[p]) : requests'[p][m] = Stop
      <4> SUFFICES ASSUME NEW k \in 1 .. Len(requests'[p]), requests'[p][k] = i,
                          NEW m \in k + 1 .. Len(requests'[p])
                   PROVE  requests'[p][m] = Stop
        OBVIOUS
      <4>1. k + 1 \in 1 .. Len(requests[p]) /\ requests[p][k + 1] = i
        BY <3>1
      <4>2. m \in 1 .. Len(requests'[p]) /\ m + 1 \in (k + 1) + 1 .. Len(requests[p])
        BY <3>1
      <4>3. requests[p][m + 1] = Stop
        BY <2>2, <4>1, <4>2 DEF Expects
      <4>4. QED
        BY <3>1, <4>2, <4>3
    <3>6. work'[p].id = i => Stops(requests'[p])
      <4> SUFFICES ASSUME requests[p][1] = i, NEW k \in 1 .. Len(requests'[p])
                   PROVE  requests'[p][k] = Stop
        BY <3>1, <3>4 DEF Stops
      <4>1. k + 1 \in 1 + 1 .. Len(requests[p])
        BY <3>1
      <4>2. requests[p][k + 1] = Stop
        BY <2>2, <3>2, <4>1 DEF Expects
      <4>3. QED
        BY <3>1, <4>2
    <3>7. \A k \in 1 .. Len(responses[p]) : responses[p][k].id # i
      <4> SUFFICES ASSUME NEW k \in 1 .. Len(responses[p]), responses[p][k].id = i
                   PROVE  FALSE
        OBVIOUS
      <4>1. Stops(requests[p])
        BY <2>2 DEF Expects
      <4>2. QED
        BY <3>1, <3>2, <3>3, <4>1 DEF Stops
    <3>8. work'[p].made = Len(work'[p].emitted)
      BY <3>4, EmptySeq
    <3>9. Expects(p, i)'
      BY <3>4, <3>5, <3>6, <3>7, <3>8 DEF Expects
    <3>10. QED
      BY <1>1, <1>5, <2>1, <3>9 DEF Expects
  <2>6. CASE SkipCancelled(p) \/ Check(p) \/ ModelRaises(p)
    <3>1. /\ UNCHANGED wires /\ work[p] # Absent
          /\ work'[p].id = work[p].id /\ work'[p].made = work[p].made
          /\ work'[p].emitted = work[p].emitted
          /\ worker[p] \in {"decode", "check"} /\ worker[p] \in AtWork
      BY <2>6, SilentTypes DEF AtWork
    <3>2. work'[p] # Absent
      BY <2>6, SilentTypes, Bounds
    <3>3. Expects(p, i)'
      BY <1>1, <2>2, <3>1, <3>2 DEF Expects, wires
    <3>4. QED
      BY <1>1, <1>5, <2>1, <3>3 DEF Expects
  <2>7. CASE Decode(p)
    <3>1. /\ requests'[p] = requests[p] /\ worker[p] = "decode"
          /\ worker'[p] \in {"check", "finish"}
          /\ work[p] # Absent /\ work'[p].id = work[p].id /\ work'[p].made = work[p].made + 1
          /\ worker'[p] = "check" /\ p \notin cancel =>
                Len(work'[p].emitted) = Len(work[p].emitted) + 1
          /\ \/ responses'[p] = responses[p]
             \/ \E f \in Frames :
                   /\ responses'[p] = Append(responses[p], f)
                   /\ ~f.final /\ f.status = "ok" /\ f.id = work[p].id /\ p \notin cancel
                   /\ f.tokens = <<Token(work[p].id, work[p].made + 1)>>
                   /\ f.total = Len(work[p].emitted) + 1
      BY <2>7, DecodeTypes
    <3>2. work'[p] # Absent
      BY <2>7, DecodeTypes, Bounds
    <3>3. work[p].made \in Nat /\ Len(work[p].emitted) \in Nat
      <4>1. work[p].made \in 0 .. MaxTokens /\ work[p].emitted \in Seq(Tokens)
        BY <3>1, TaskOf
      <4>2. QED
        BY <4>1, Bounds, LenProperties
    <3>4. work'[p].id = i => /\ Stops(requests'[p])
                             /\ worker'[p] \in {"decode", "check"} =>
                                   work'[p].made = Len(work'[p].emitted) \/ p \in cancel'
      BY <1>1, <2>2, <3>1 DEF Expects
    <3>5. \A k \in 1 .. Len(responses[p]) : responses[p][k].id = i =>
             work[p].id = i /\ Matches(responses[p][k]) /\ ~responses[p][k].final
      BY <2>2, <3>1 DEF Expects, AtWork
    <3>6. \A k \in 1 .. Len(responses'[p]) : responses'[p][k].id = i =>
             work[p].id = i /\ Matches(responses'[p][k]) /\ ~responses'[p][k].final
      <4>1. CASE responses'[p] = responses[p]
        BY <3>5, <4>1
      <4>2. ASSUME NEW f \in Frames,
                   responses'[p] = Append(responses[p], f),
                   ~f.final, f.id = work[p].id, p \notin cancel,
                   f.tokens = <<Token(work[p].id, work[p].made + 1)>>,
                   f.total = Len(work[p].emitted) + 1
            PROVE  \A k \in 1 .. Len(responses'[p]) : responses'[p][k].id = i =>
                      work[p].id = i /\ Matches(responses'[p][k]) /\ ~responses'[p][k].final
        <5>1. f.id = i => Matches(f)
          <6> SUFFICES ASSUME f.id = i PROVE Matches(f)
            OBVIOUS
          <6>1. work[p].made = Len(work[p].emitted)
            BY <2>2, <3>1, <4>2 DEF Expects
          <6>2. /\ Len(f.tokens) = 1 /\ f.tokens[1] = Token(f.id, work[p].made + 1)
                /\ f.total - Len(f.tokens) + 1 = work[p].made + 1
            BY <3>3, <4>2, <6>1
          <6>3. [k \in 1 .. 1 |-> Token(f.id, f.total - 1 + k)] = <<Token(f.id, work[p].made + 1)>>
            BY <3>3, <4>2, <6>1
          <6>4. QED
            BY <4>2, <6>2, <6>3 DEF Matches
        <5>2. QED
          BY <3>5, <4>2, <5>1, FrameAdded
      <4>3. QED
        BY <3>1, <4>1, <4>2
    <3>7. Expects(p, i)'
      BY <2>2, <3>1, <3>2, <3>4, <3>6 DEF Expects
    <3>8. QED
      BY <1>1, <1>5, <2>1, <3>7 DEF Expects
  <2>8. CASE FinishRequest(p)
    <3>1. /\ requests'[p] = requests[p] /\ worker[p] = "finish" /\ worker'[p] = "idle"
          /\ work[p] # Absent /\ work'[p].id = work[p].id /\ work'[p].made = work[p].made
          /\ \E f \in Frames :
                /\ responses'[p] = Append(responses[p], f)
                /\ f.final /\ f.id = work[p].id /\ Matches(f)
                /\ f.status = "ok" => f.total = work[p].made
      BY <2>3, <2>8, FinishTypes
    <3>2. work'[p] # Absent
      BY <2>8, FinishTypes, Bounds
    <3>3. PICK f \in Frames :
                /\ responses'[p] = Append(responses[p], f)
                /\ f.final /\ f.id = work[p].id /\ Matches(f)
                /\ f.status = "ok" => f.total = work[p].made
      BY <3>1
    <3>4. \A k \in 1 .. Len(responses[p]) : responses[p][k].id = i =>
             work[p].id = i /\ Matches(responses[p][k]) /\ ~responses[p][k].final
      BY <2>2, <3>1 DEF Expects, AtWork
    <3>5. \A k \in 1 .. Len(responses'[p]) : responses'[p][k].id = i =>
             /\ work[p].id = i /\ Matches(responses'[p][k])
             /\ responses'[p][k].final =>
                   (responses'[p][k].status = "ok" => responses'[p][k].total = work[p].made)
      <4> SUFFICES ASSUME NEW k \in 1 .. Len(responses'[p]), responses'[p][k].id = i
                   PROVE  /\ work[p].id = i /\ Matches(responses'[p][k])
                          /\ responses'[p][k].final =>
                                (responses'[p][k].status = "ok" =>
                                    responses'[p][k].total = work[p].made)
        OBVIOUS
      <4>1. responses'[p][k] = f
            \/ (k \in 1 .. Len(responses[p]) /\ responses'[p][k] = responses[p][k])
        BY <3>3, FrameAdded
      <4>2. QED
        BY <3>3, <3>4, <4>1
    <3>6. work'[p].id = i => Stops(requests'[p])
      BY <2>2, <3>1 DEF Expects
    <3>7. Expects(p, i)'
      BY <2>2, <3>1, <3>2, <3>5, <3>6 DEF Expects, AtWork
    <3>8. QED
      BY <1>1, <1>5, <2>1, <3>7 DEF Expects
  <2>9. CASE Die(p)
    BY <2>3, <2>9 DEF Die, Ended, TypesOK, WorkerTypes
  <2>10. QED
    BY <2>4, <2>5, <2>6, <2>7, <2>8, <2>9 DEF Serve
<1>6. QED
  BY <1>4, <1>5

LEMMA WaitByCancel ==
    ASSUME TypesOK, ThreadsOK, WaitOK, CancelActive, use' = use
    PROVE  WaitOK'
<1>1. UNCHANGED <<process, workers, wires, threads, gave_up>> /\ cancel \subseteq cancel'
  BY DEF CancelActive, service, Set
<1>2. UNCHANGED <<worker, work, requests, responses, place, id>>
  BY <1>1 DEF workers, wires, threads
<1>3. Running' <=> Running
  BY <1>1, <1>2 DEF Running, Live
<1>4. QED
  BY <1>1, <1>2, <1>3, WaitAnyway

-----------------------------------------------------------------------------
(* What a caller has been handed.                                          *)
LEMMA Handed ==
    ASSUME NEW i \in Ids, NEW q \in Seq(Tokens), q = Answer(i, Len(q)),
           NEW f \in Frames, Matches(f), f.id = i, f.total = Len(q) + Len(f.tokens)
    PROVE  q \o f.tokens = Answer(i, f.total) /\ Len(q \o f.tokens) = f.total
<1> DEFINE ts == f.tokens
           n == Len(q)
           m == Len(ts)
<1>1. ts \in Seq(Tokens) /\ n \in Nat /\ m \in Nat /\ f.total = n + m /\ n + m <= MaxTokens
      /\ MaxTokens \in Nat
  BY Bounds, LenProperties DEF Frames
<1>2. /\ q \o ts \in Seq(Tokens) /\ Len(q \o ts) = n + m
      /\ \A k \in 1 .. n + m : (q \o ts)[k] = IF k <= n THEN q[k] ELSE ts[k - n]
  BY <1>1, ConcatProperties
<1>3. \A k \in 1 .. n : q[k] = Token(i, k)
  <2>1. \A k \in 1 .. n : Answer(i, n)[k] = Token(i, k)
    BY DEF Answer
  <2>2. QED
    BY <2>1
<1>4. \A k \in 1 .. m : ts[k] = Token(i, n + k)
  <2>1. ts = [k \in 1 .. m |-> Token(i, f.total - m + k)]
    BY DEF Matches
  <2>2. f.total - m = n
    BY <1>1
  <2>3. QED
    BY <2>1, <2>2
<1> HIDE DEF ts, m, n
<1>5. \A k \in 1 .. n + m : (q \o ts)[k] = Token(i, k)
  <2> SUFFICES ASSUME NEW k \in 1 .. n + m PROVE (q \o ts)[k] = Token(i, k)
    OBVIOUS
  <2>1. CASE k <= n
    BY <1>1, <1>2, <1>3, <2>1
  <2>2. CASE ~(k <= n)
    <3>1. k - n \in 1 .. m /\ n + (k - n) = k
      BY <1>1, <2>2
    <3>2. (q \o ts)[k] = ts[k - n] /\ ts[k - n] = Token(i, n + (k - n))
      BY <1>2, <1>4, <2>2, <3>1
    <3>3. QED
      BY <3>1, <3>2
  <2>3. QED
    BY <2>1, <2>2
<1>6. Answer(i, n + m) \in Seq(Tokens) /\ Len(Answer(i, n + m)) = n + m
  <2>1. \A k \in 1 .. n + m : Token(i, k) \in Tokens
    BY <1>1 DEF Token, Tokens
  <2>2. n + m \in Nat
    BY <1>1
  <2>3. QED
    BY <2>1, <2>2 DEF Answer
<1>7. \A k \in 1 .. n + m : Answer(i, n + m)[k] = Token(i, k)
  BY DEF Answer
<1>8. q \o ts = Answer(i, n + m)
  BY <1>2, <1>5, <1>6, <1>7, SeqEqual, ZenonT(40)
<1>9. QED
  BY <1>1, <1>2, <1>8 DEF ts

LEMMA NothingYet == \A i : Answer(i, 0) = <<>>
<1>1. \A i : Answer(i, 0) = [k \in {} |-> Token(i, k)]
  BY DEF Answer
<1>2. QED
  BY <1>1

(* A frame that a caller accepts continues its answer, and one that ends   *)
(* it well completes it.                                                   *)
LEMMA OwnFrame ==
    ASSUME TypesOK, ThreadsOK, WaitOK, OwnOK, NEW t \in Threads, Receive(t)
    PROVE  /\ got'[t] = Answer(id'[t], Len(got'[t]))
           /\ ending'[t] \in {"ok", "late"} => Len(got'[t]) = work[process].made
<1> DEFINE f == Head(responses[process])
<1>1. /\ Running /\ place[t] = "wait" /\ id' = id /\ responses[process] # <<>>
      /\ responses' = [responses EXCEPT ![process] = Tail(@)] /\ requests' = requests
      /\ UNCHANGED workers
  BY DEF Receive
<1>2. t \in Callers /\ id[t] \in Ids
  BY <1>1 DEF ThreadsOK, PlaceOf, Asking, Inside
<1>3. PICK p \in Incarnations : p = process
  BY <1>1, Bounds DEF Running, TypesOK, ServiceTypes, Incarnations
<1>4. f \in Frames /\ f = responses[p][1] /\ 1 \in 1 .. Len(responses[p])
  <2>1. f \in Frames /\ f = responses[p][1]
    BY <1>1, <1>3, FrameTaken
  <2>2. responses[p] \in Seq(Frames) /\ responses[p] # <<>>
    BY <1>1, <1>3 DEF TypesOK, WorkerTypes
  <2>3. QED
    BY <2>1, <2>2, HeadAndTail
<1>5. Expects(p, id[t])
  BY <1>1, <1>2, <1>3 DEF WaitOK
<1>6. f.id = id[t] => /\ Matches(f)
                      /\ f.final /\ f.status = "ok" => f.total = work[p].made
  BY <1>4, <1>5 DEF Expects
<1>7. got[t] \in Seq(Tokens) /\ got[t] = Answer(id[t], Len(got[t])) /\ ending[t] = "none"
  BY <1>1, <1>2 DEF TypesOK, ThreadTypes, OwnOK, ThreadsOK, PlaceOf
<1> HIDE DEF f
<1>8. CASE got' = got /\ ending'[t] \notin {"ok", "late"}
  BY <1>1, <1>7, <1>8
<1>9. CASE Accepts(t, f) /\ Hands(t, f)
           /\ (ending'[t] \in {"ok", "late"} => f.final /\ f.status = "ok")
  <2>1. f.id = id[t] /\ f.total = Len(got[t]) + Len(f.tokens)
    BY <1>9 DEF Accepts
  <2>2. got[t] \o f.tokens = Answer(id[t], f.total) /\ Len(got[t] \o f.tokens) = f.total
    BY <1>2, <1>4, <1>6, <1>7, <2>1, Handed
  <2>3. got'[t] = got[t] \o f.tokens
    BY <1>9 DEF Hands, TypesOK, ThreadTypes
  <2>4. QED
    BY <1>1, <1>3, <1>6, <1>9, <2>1, <2>2, <2>3
<1>10. QED
  <2>1. \/ got' = got /\ ending'[t] \notin {"ok", "late"}
        \/ /\ Accepts(t, f) /\ Hands(t, f)
           /\ ending'[t] \in {"ok", "late"} => f.final /\ f.status = "ok"
    BY <1>7 DEF Receive, EndsCall, TypesOK, ThreadTypes, f
  <2>2. QED
    BY <1>8, <1>9, <2>1

LEMMA OwnByThread ==
    ASSUME TypesOK, ThreadsOK, WaitOK, OwnOK, NEW t \in Threads, Steps(t)
    PROVE  OwnOK'
<1> SUFFICES ASSUME NEW c \in Callers
             PROVE  got'[c] = Answer(id'[c], Len(got'[c]))
  BY DEF OwnOK
<1>1. got[c] = Answer(id[c], Len(got[c])) /\ c \in Threads
  BY Bounds DEF OwnOK
<1>2. CASE c # t
  BY <1>1, <1>2, OthersStand DEF Others
<1>3. CASE c = t /\ Receive(t)
  BY <1>3, OwnFrame
<1>4. CASE c = t /\ Register(t)
  <2>1. got[t] = <<>> /\ got' = got
    BY <1>4 DEF Register, ThreadsOK, PlaceOf
  <2>2. QED
    BY <1>4, <2>1, NothingYet, EmptySeq
<1>5. CASE c = t /\ ~Receive(t) /\ ~Register(t)
  <2>1. Returns(t) \/ UNCHANGED <<id, got>>
    BY <1>5 DEF Steps, Outside, StartRunning, StopCall, Ready, NotReady, Refuse, Lock, Break,
           Finally, DrainOver, Release, StartSpawn, StopBegin, StopJoin, StopClear, Put,
           DrainFrame, Call, Torn
  <2>2. CASE Returns(t)
    BY <1>5, <2>2, Back, NothingYet, EmptySeq
  <2>3. CASE UNCHANGED <<id, got>>
    BY <1>1, <1>5, <2>3
  <2>4. QED
    BY <2>1, <2>2, <2>3
<1>6. QED
  BY <1>2, <1>3, <1>4, <1>5

-----------------------------------------------------------------------------
(* One thread at a time.                                                   *)
Lone(t) == \A u \in Threads \ {t} : place[u] = "idle"
AloneOf(t) ==
    /\ place[t] \in {"ready", "lock"} \cup Inside => process # Absent
    /\ place[t] \in {"join", "clear"} => joined[t] = process
    /\ place[t] = "clear" => ~Live(process)
    /\ request_lock # Absent => request_lock = t /\ place[t] \in Inside
    /\ active_request_id # Absent =>
          t \in Callers /\ place[t] \in Asking /\ id[t] = active_request_id

LEMMA AloneOfOne ==
    ASSUME TypesOK, AloneOK, use.alone, NEW t \in Threads, Lone(t)
    PROVE  AloneOf(t)
<1>1. request_lock # Absent => request_lock = t /\ place[t] \in Inside
  <2>1. request_lock # Absent => request_lock \in Threads /\ place[request_lock] \in Inside
    BY Bounds DEF AloneOK, TypesOK, ServiceTypes
  <2>2. request_lock # Absent => request_lock = t
    BY <2>1 DEF Lone, Inside
  <2>3. QED
    BY <2>1, <2>2
<1>2. active_request_id # Absent =>
          t \in Callers /\ place[t] \in Asking /\ id[t] = active_request_id
  <2>1. \A c \in Callers : place[c] \in Asking => c = t
    BY Bounds DEF Lone, Asking, Inside
  <2>2. QED
    BY <2>1 DEF AloneOK
<1>3. QED
  BY <1>1, <1>2 DEF AloneOK, AloneOf

LEMMA AloneAgain ==
    ASSUME use.alone, use' = use, NEW t \in Threads, Lone(t)', AloneOf(t)',
           \A p \in Incarnations : Live(p)' => p = process'
    PROVE  AloneOK'
<1>1. \A u, v \in Threads : place'[u] # "idle" /\ place'[v] # "idle" => u = v
  BY DEF Lone
<1>2. \A u \in Threads :
         /\ place'[u] \in {"ready", "lock"} \cup Inside => process' # Absent
         /\ place'[u] \in {"join", "clear"} => joined'[u] = process'
         /\ place'[u] = "clear" => ~Live(process)'
  BY DEF Lone, AloneOf, Inside
<1>3. request_lock' # Absent => place'[request_lock'] \in Inside
  BY DEF AloneOf
<1>4. active_request_id' # Absent =>
          \E c \in Callers : place'[c] \in Asking /\ id'[c] = active_request_id'
  BY DEF AloneOf
<1>5. QED
  BY <1>1, <1>2, <1>3, <1>4 DEF AloneOK

LEMMA Enters ==
    ASSUME TypesOK, AloneOK, use.alone, NEW t \in Threads, Steps(t)
    PROVE  Lone(t) /\ Lone(t)'
<1>1. place[t] # "idle" \/ MayEnter(t)
  BY DEF Steps, Outside, StartRunning, StopCall, Ready, NotReady, Refuse, Lock, Register, Break,
         Finally, DrainOver, Release, StartSpawn, StopBegin, StopJoin, StopClear, Put, Receive,
         DrainFrame
<1>2. Lone(t)
  BY <1>1 DEF Lone, MayEnter, AloneOK
<1>3. QED
  BY <1>2, OthersStand DEF Lone, Others

LEMMA AloneByThread ==
    ASSUME TypesOK, WorkOK, ThreadsOK, AloneOK, NEW t \in Threads, Steps(t), use' = use
    PROVE  AloneOK'
<1> SUFFICES ASSUME use.alone
             PROVE  AloneOK'
  BY DEF AloneOK
<1>0. AloneOf(t) /\ Lone(t)' /\ PlaceOf(t)
  BY Enters, AloneOfOne DEF ThreadsOK
<1>1. \A p \in Incarnations : Live(p) => p = process
  BY DEF AloneOK
<1>2. CASE Outside(t)
  <2>1. UNCHANGED <<wires, workers, process, starts>>
    BY <1>2, OutsideTypes
  <2>2. \A p \in Incarnations : Live(p)' => p = process'
    BY <1>1, <2>1 DEF Live, workers
  <2> SUFFICES AloneOf(t)'
    BY <1>0, <2>2, AloneAgain
  <2>3. ASSUME NEW point, place'[t] = point, point \notin {"join", "clear"},
               point \in {"ready", "lock"} \cup Inside => process # Absent,
               UNCHANGED <<request_lock, active_request_id>>,
               place[t] \in Inside => point \in Inside,
               place[t] \in Asking => point \in Asking /\ id'[t] = id[t]
        PROVE  AloneOf(t)'
    BY <1>0, <2>1, <2>3 DEF AloneOf
  <2>4. place[t] \in {"ready", "lock"} \cup Inside => process # Absent
    BY <1>0 DEF AloneOf
  <2>5. CASE (t \in Callers /\ StartRunning(t)) \/ StopCall(t) \/ Ready(t)
    <3>1. /\ place[t] \in {"idle", "ready"} /\ place'[t] \in {"lock", "stop"} /\ process # Absent
          /\ UNCHANGED <<request_lock, active_request_id>>
      BY <2>4, <2>5 DEF StartRunning, StopCall, Ready, Running, Call, GoesTo, service, TypesOK,
             ThreadTypes
    <3>2. QED
      BY <2>3, <3>1 DEF Inside, Asking
  <2>6. CASE NotReady(t) \/ Refuse(t)
    <3>1. /\ place[t] \in {"ready", "lock"} /\ place'[t] \in {"idle", "stop"}
          /\ UNCHANGED <<request_lock, active_request_id>>
      BY <2>6 DEF NotReady, Refuse, Returns, Call, GoesTo, service, TypesOK, ThreadTypes
    <3>2. QED
      BY <2>3, <3>1 DEF Inside, Asking
  <2>7. CASE Lock(t)
    <3>1. /\ place[t] = "lock" /\ place'[t] = "register" /\ request_lock' = t
          /\ active_request_id' = active_request_id
      BY <2>7 DEF Lock, GoesTo, TypesOK, ThreadTypes
    <3>2. active_request_id = Absent
      BY <1>0, <3>1 DEF AloneOf, Asking, Inside
    <3>3. QED
      BY <2>1, <2>4, <3>1, <3>2 DEF AloneOf, Inside
  <2>8. CASE Register(t)
    <3>1. place[t] = "register" /\ request_lock' = request_lock /\ process # Absent
          /\ t \in Callers /\ request_lock = t
      BY <1>0, <2>4, <2>8 DEF Register, PlaceOf, Inside
    <3>2. place'[t] = "put" /\ id'[t] = next_request_id /\ active_request_id' = next_request_id
      BY <2>8, <3>1 DEF Register, GoesTo, TypesOK, ThreadTypes
    <3>3. QED
      BY <2>1, <3>1, <3>2 DEF AloneOf, Asking, Inside
  <2>9. CASE Break(t) \/ Finally(t) \/ DrainOver(t)
    <3>1. place[t] \in {"wait", "finally", "drain"} /\ UNCHANGED <<request_lock, active_request_id>>
      BY <2>9 DEF Break, Finally, DrainOver, service
    <3>2. process # Absent
      BY <2>4, <3>1 DEF Inside
    <3>3. place'[t] \in {"finally", "drain", "release"} /\ id'[t] = id[t]
      BY <2>9, <3>2 DEF Break, Finally, DrainOver, Torn, EndsCall, Call, GoesTo, TypesOK,
                        ThreadTypes
    <3>4. QED
      BY <2>3, <3>1, <3>2, <3>3 DEF Inside, Asking
  <2>10. CASE Release(t)
    <3>1. /\ place'[t] = "idle" /\ request_lock' = Absent
          /\ active_request_id' = IF active_request_id = id[t] THEN Absent ELSE active_request_id
      BY <2>10, Back DEF Release
    <3>2. active_request_id' = Absent
      BY <1>0, <3>1 DEF AloneOf
    <3>3. QED
      BY <3>1, <3>2 DEF AloneOf, Inside
  <2>11. QED
    BY <1>2, <2>5, <2>6, <2>7, <2>8, <2>9, <2>10 DEF Outside
<1>3. CASE t \in Callers /\ StartSpawn(t)
  <2>1. PICK n \in Incarnations : n = starts + 1
    BY <1>3, SpawnTypes
  <2>2. /\ process' = n /\ worker' = [worker EXCEPT ![n] = "loading"] /\ ~Running
        /\ UNCHANGED <<request_lock, active_request_id>> /\ place[t] = "idle" /\ place'[t] = "ready"
    BY <1>3, <2>1 DEF StartSpawn, Call, GoesTo, TypesOK, ThreadTypes
  <2>3. \A p \in Incarnations : ~Live(p)
    BY <1>1, <2>2, Bounds DEF Running, Incarnations
  <2>4. \A p \in Incarnations : Live(p)' => p = process'
    BY <2>2, <2>3 DEF Live, TypesOK, WorkerTypes
  <2>5. n # Absent
    BY Bounds DEF Incarnations
  <2>6. AloneOf(t)'
    BY <1>0, <2>2, <2>5 DEF AloneOf, Inside, Asking
  <2>7. QED
    BY <1>0, <2>4, <2>6, AloneAgain
<1>4. CASE StopBegin(t)
  <2>1. UNCHANGED <<process, workers, request_lock, active_request_id>> /\ place[t] = "stop"
        /\ (place'[t] = "idle" \/ (place'[t] = "join" /\ joined'[t] = process))
    BY <1>4 DEF StopBegin, service, Returns, GoesTo, TypesOK, ThreadTypes
  <2>2. \A p \in Incarnations : Live(p)' => p = process'
    BY <1>1, <2>1 DEF Live, workers
  <2>3. AloneOf(t)'
    BY <1>0, <2>1 DEF AloneOf, Inside, Asking
  <2>4. QED
    BY <1>0, <2>2, <2>3, AloneAgain
<1>5. CASE StopJoin(t)
  <2>1. UNCHANGED <<process, joined, request_lock, active_request_id>> /\ place[t] = "join"
        /\ place'[t] = "clear" /\ Ended(joined[t])
    BY <1>5 DEF StopJoin, service, GoesTo, TypesOK, ThreadTypes
  <2>2. joined[t] = process /\ process \in Incarnations
    <3>1. joined[t] = process /\ joined[t] \in 1 .. starts
      BY <1>0, <2>1 DEF AloneOf, PlaceOf
    <3>2. QED
      BY <3>1, Bounds DEF TypesOK, ServiceTypes, Incarnations
  <2>3. \A p \in Incarnations : worker'[p] = (IF p = process THEN "dead" ELSE worker[p])
    BY <2>1, <2>2 DEF Ended, TypesOK, WorkerTypes
  <2>4. \A p \in Incarnations : Live(p)' => p = process'
    BY <1>1, <2>1, <2>3 DEF Live
  <2>5. AloneOf(t)'
    BY <1>0, <2>1, <2>2, <2>3 DEF AloneOf, Live, Inside, Asking
  <2>6. QED
    BY <1>0, <2>4, <2>5, AloneAgain
<1>6. CASE StopClear(t)
  <2>1. process' = Absent /\ active_request_id' = Absent /\ request_lock' = request_lock
        /\ worker' = worker /\ place[t] = "clear" /\ place'[t] = "idle"
    BY <1>6, Back DEF StopClear
  <2>2. \A p \in Incarnations : Live(p)' => p = process'
    BY <1>0, <1>1, <2>1 DEF Live, AloneOf
  <2>3. AloneOf(t)'
    BY <1>0, <2>1 DEF AloneOf, Inside
  <2>4. QED
    BY <1>0, <2>2, <2>3, AloneAgain
<1>7. CASE Put(t) \/ Receive(t) \/ DrainFrame(t)
  <2>1. UNCHANGED <<process, workers, request_lock, active_request_id>>
        /\ place[t] \in {"put", "wait", "drain"}
        /\ place'[t] \in {"wait", "finally", "drain", "release"} /\ id'[t] = id[t]
    BY <1>7 DEF Put, Receive, DrainFrame, service, Call, EndsCall, GoesTo, TypesOK, ThreadTypes
  <2>2. \A p \in Incarnations : Live(p)' => p = process'
    BY <1>1, <2>1 DEF Live, workers
  <2>3. AloneOf(t)'
    BY <1>0, <2>1 DEF AloneOf, Inside, Asking
  <2>4. QED
    BY <1>0, <2>2, <2>3, AloneAgain
<1>8. QED
  BY <1>2, <1>3, <1>4, <1>5, <1>6, <1>7 DEF Steps

(* A worker that ends, and a cancellation, make no other one.              *)
LEMMA AloneAnyway ==
    ASSUME TypesOK, ThreadsOK, AloneOK, use' = use, UNCHANGED <<service, threads>>,
           \A p \in Incarnations : Live(p)' => Live(p)
    PROVE  AloneOK'
<1>1. UNCHANGED <<process, request_lock, active_request_id, place, id, joined>>
  BY DEF service, threads
<1> SUFFICES ASSUME use.alone
             PROVE  AloneOK'
  BY DEF AloneOK
<1>2. \A p \in Incarnations : Live(p)' => p = process
  BY DEF AloneOK
<1>3. \A t \in Threads : place[t] = "clear" => ~Live(process)'
  <2> SUFFICES ASSUME NEW t \in Threads, place[t] = "clear"
               PROVE  ~Live(process)'
    OBVIOUS
  <2>1. ~Live(process) /\ joined[t] = process /\ joined[t] \in 1 .. starts
    BY DEF AloneOK, ThreadsOK, PlaceOf
  <2>2. PICK p \in Incarnations : p = process
    BY <2>1, Bounds DEF TypesOK, ServiceTypes, Incarnations
  <2>3. ~Live(p)'
    BY <2>1, <2>2
  <2>4. QED
    BY <1>1, <2>2, <2>3 DEF Live
<1>4. QED
  BY <1>1, <1>2, <1>3 DEF AloneOK

LEMMA NoneRises ==
    ASSUME NEW p \in Incarnations, WorkerFrame(p), TypesOK, Serve(p) \/ Die(p)
    PROVE  \A q \in Incarnations : Live(q)' => Live(q)
<1>1. Live(p)
  BY DEF Serve, LoadModel, Take, SkipCancelled, Decode, Check, ModelRaises, FinishRequest,
         Die, Live
<1>2. QED
  BY <1>1 DEF WorkerFrame, Live

-----------------------------------------------------------------------------
LEMMA ServiceStarts == ServiceInit => ServiceInv
<1> SUFFICES ASSUME ServiceInit PROVE ServiceInv
  OBVIOUS
<1> USE DEF ServiceInit
<1>1. ServiceTypes
  <2>1. starts \in 0 .. MaxStarts /\ next_request_id \in 1 .. MaxRequests + 1
    BY Bounds
  <2>2. /\ process \in (1 .. starts) \cup {Absent} /\ request_lock \in Callers \cup {Absent}
        /\ active_request_id \in Ids \cup {Absent} /\ ready \subseteq 1 .. starts
        /\ cancel \subseteq 1 .. starts /\ gave_up \in BOOLEAN /\ use \in Uses
    OBVIOUS
  <2>3. QED
    BY <2>1, <2>2 DEF ServiceTypes
<1>2. WorkerTypes
  <2>1. <<>> \in Seq(Ids \cup {Stop}) /\ <<>> \in Seq(Frames) /\ Len(<<>>) = 0
    BY EmptySeq
  <2>2. QED
    BY <2>1, Bounds DEF WorkerTypes
<1>3. ThreadTypes
  BY EmptySeq DEF ThreadTypes
<1>4. WorkOK
  BY EmptySeq, Bounds DEF WorkOK, WorkOf, AtWork, Incarnations
<1>5. ThreadsOK
  BY DEF ThreadsOK, PlaceOf, Inside, Asking
<1>6. IdsOK
  BY EmptySeq DEF IdsOK, Occurs
<1>7. RestOK /\ WaitOK
  BY Bounds DEF RestOK, WaitOK, Running
<1>8. OwnOK
  BY NothingYet, EmptySeq, Bounds DEF OwnOK
<1>9. AloneOK
  BY DEF AloneOK, Live, Inside
<1>10. QED
  BY <1>1, <1>2, <1>3, <1>4, <1>5, <1>6, <1>7, <1>8, <1>9 DEF ServiceInv, TypesOK

LEMMA ThreadsKeep ==
    ASSUME ServiceInv, NEW t \in Threads, Steps(t), use' = use
    PROVE  ServiceInv'
<1> USE DEF ServiceInv
<1>1. TypesOK'
  BY TypesKept
<1>2. WorkOK'
  BY WorkByThread, WorkBySpawn DEF Steps
<1>3. ThreadsOK'
  BY PlaceByThread
<1>4. IdsOK'
  BY IdsByThread
<1>5. RestOK'
  BY RestOutside, RestBySpawn, RestByStop, RestByPut, RestByFrames DEF Steps
<1>6. WaitOK'
  BY WaitOutside, WaitBySpawn, WaitByStop, WaitByPut, WaitByFrames DEF Steps
<1>7. OwnOK'
  BY OwnByThread
<1>8. AloneOK'
  BY AloneByThread
<1>9. QED
  BY <1>1, <1>2, <1>3, <1>4, <1>5, <1>6, <1>7, <1>8

LEMMA WorkersKeep ==
    ASSUME ServiceInv, NEW p \in Incarnations, Serve(p) \/ Die(p), use' = use
    PROVE  ServiceInv'
<1> USE DEF ServiceInv
<1>1. TypesOK' /\ WorkerFrame(p) /\ IdsOK'
  BY IdsByWorker
<1>2. WorkOK'
  BY WorkByWorker
<1>3. UNCHANGED <<service, threads>>
  BY <1>1 DEF WorkerFrame
<1>4. ThreadsOK'
  BY <1>3, PlaceAnyway
<1>5. RestOK' /\ WaitOK'
  BY RestByWorker, WaitByWorker
<1>6. OwnOK'
  BY <1>3 DEF OwnOK, threads
<1>7. AloneOK'
  BY <1>1, <1>3, NoneRises, AloneAnyway
<1>8. QED
  BY <1>1, <1>2, <1>4, <1>5, <1>6, <1>7

LEMMA CancelKeeps ==
    ASSUME ServiceInv, CancelActive, use' = use
    PROVE  ServiceInv'
<1> USE DEF ServiceInv
<1>1. UNCHANGED <<service, workers, wires, threads>>
  BY DEF CancelActive
<1>2. TypesOK'
  BY CancelTypes
<1>3. WorkOK'
  BY <1>1 DEF WorkOK, WorkOf, service, workers, wires
<1>4. ThreadsOK'
  BY <1>1, PlaceAnyway
<1>5. IdsOK'
  BY <1>1 DEF IdsOK, Occurs, service, workers, wires, threads
<1>6. RestOK' /\ WaitOK'
  BY RestByCancel, WaitByCancel
<1>7. OwnOK'
  BY <1>1 DEF OwnOK, threads
<1>8. AloneOK'
  <2>1. \A p \in Incarnations : Live(p)' => Live(p)
    BY <1>1 DEF Live, workers
  <2>2. QED
    BY <1>1, <2>1, AloneAnyway
<1>9. QED
  BY <1>2, <1>3, <1>4, <1>5, <1>6, <1>7, <1>8

LEMMA Cases ==
    ASSUME ServiceNext
    PROVE  /\ use' = use
           /\ \/ \E t \in Threads : Steps(t)
              \/ \E p \in Incarnations : Serve(p) \/ Die(p)
              \/ CancelActive
<1>1. ASSUME NEW t \in Threads, GoOn(t) PROVE Steps(t)
  BY <1>1 DEF GoOn, Steps, Outside
<1>2. ASSUME NEW c \in Callers, StartRunning(c) \/ StartSpawn(c) PROVE Steps(c) /\ c \in Threads
  BY <1>2, Bounds DEF Steps, Outside
<1>3. ASSUME NEW s \in Stoppers, StopCall(s) PROVE Steps(s) /\ s \in Threads
  BY <1>3 DEF Steps, Outside, Threads
<1>4. QED
  BY <1>1, <1>2, <1>3 DEF ServiceNext

LEMMA ServiceSteps == ServiceInv /\ [ServiceNext]_service_vars => ServiceInv'
<1> SUFFICES ASSUME ServiceInv, [ServiceNext]_service_vars PROVE ServiceInv'
  OBVIOUS
<1>1. CASE ServiceNext
  BY <1>1, Cases, ThreadsKeep, WorkersKeep, CancelKeeps
<1>2. CASE UNCHANGED service_vars
  <2>1. UNCHANGED <<process, starts, request_lock, active_request_id, next_request_id, ready,
                    worker, work, cancel, requests, responses, place, id, got, ending, joined,
                    gave_up, use>>
    BY <1>2 DEF service_vars, service, workers, wires, threads
  <2> USE DEF ServiceInv
  <2>2. TypesOK'
    BY <2>1 DEF TypesOK, ServiceTypes, WorkerTypes, ThreadTypes
  <2>3. WorkOK' /\ ThreadsOK' /\ IdsOK'
    BY <2>1 DEF WorkOK, WorkOf, ThreadsOK, PlaceOf, IdsOK, Occurs
  <2>4. RestOK'
    BY <2>1 DEF RestOK, Running, Live, Clean, Holds
  <2>5. WaitOK'
    BY <2>1 DEF WaitOK, Running, Live, Expects
  <2>6. OwnOK' /\ AloneOK'
    BY <2>1 DEF OwnOK, AloneOK, Live
  <2>7. QED
    BY <2>2, <2>3, <2>4, <2>5, <2>6
<1>3. QED
  BY <1>1, <1>2

LEMMA ServiceInvariant == ServiceSpec => []ServiceInv
  BY ServiceStarts, ServiceSteps, PTL DEF ServiceSpec

LEMMA ServiceMeans == ServiceInv => ServiceSound
<1> SUFFICES ASSUME ServiceInv PROVE ServiceSound
  OBVIOUS
<1> USE DEF ServiceInv
<1>1. ServiceTypeOK
  <2>1. \A p \in Incarnations :
          /\ requests[p] \in Seq(Ids \cup {Stop}) /\ Len(requests[p]) <= RequestSlots
          /\ responses[p] \in Seq(Frames) /\ Len(responses[p]) <= ResponseSlots
          /\ work[p] = Absent \/ work[p].id \in Ids
    BY TaskOf DEF TypesOK, WorkerTypes
  <2>2. /\ process \in Incarnations \cup {Absent}
        /\ ready \subseteq Incarnations /\ cancel \subseteq Incarnations
    BY Bounds DEF TypesOK, ServiceTypes, Incarnations
  <2>3. QED
    BY <2>1, <2>2 DEF ServiceTypeOK, TypesOK, ServiceTypes, WorkerTypes, ThreadTypes, AtWork,
                      Inside
<1>2. StartsClean
  <2> SUFFICES ASSUME NEW c \in Callers, place[c] = "put", Running, ~gave_up
               PROVE  /\ responses[process] = <<>>
                      /\ worker[process] \in {"loading", "idle"}
                      /\ Range(requests[process]) \subseteq {Stop}
    BY DEF StartsClean
  <2>1. \A d \in Callers : place[d] \notin {"wait", "finally", "drain"}
    <3> SUFFICES ASSUME NEW d \in Callers, place[d] \in {"wait", "finally", "drain"}
                 PROVE  FALSE
      OBVIOUS
    <3>1. place[d] \in Inside /\ place[c] \in Inside
      BY DEF Inside
    <3>2. QED
      BY <3>1, OneInside, Bounds
  <2>2. Clean(process) /\ process \in Incarnations
    BY <2>1, RestBefore
  <2>3. requests[process] \in Seq(Ids \cup {Stop})
    BY <2>2 DEF TypesOK, WorkerTypes
  <2>4. Range(requests[process]) \subseteq {Stop}
    BY <2>2, <2>3 DEF Clean, Stops, Range
  <2>5. QED
    BY <2>2, <2>4 DEF Clean
<1>3. OneResidentModel
  BY DEF OneResidentModel, AloneOK
<1>4. FreeWhenIdle
  BY DEF FreeWhenIdle, AloneOK, Inside, Asking
<1>5. QED
  BY <1>1, <1>2, <1>3, <1>4 DEF ServiceSound

(* model_service.py is what it promises: a request meets a worker at rest, *)
(* unless a cancelled one was given up undrained; one model is resident,   *)
(* and nobody who has left owns the service, when one thread at a time     *)
(* uses it.                                                                *)
THEOREM ServiceIsSound == ServiceSpec => []ServiceSound
  BY ServiceInvariant, ServiceMeans, PTL

LEMMA OwnSteps ==
    ASSUME ServiceInv, ServiceInv', ServiceNext
    PROVE  \A c \in Callers :
              /\ got'[c] = Answer(id'[c], Len(got'[c]))
              /\ ending[c] = "none" /\ ending'[c] \in {"ok", "late"} =>
                    Len(got'[c]) = work[process].made
<1> SUFFICES ASSUME NEW c \in Callers
             PROVE  /\ got'[c] = Answer(id'[c], Len(got'[c]))
                    /\ ending[c] = "none" /\ ending'[c] \in {"ok", "late"} =>
                          Len(got'[c]) = work[process].made
  OBVIOUS
<1> USE DEF ServiceInv
<1>1. got'[c] = Answer(id'[c], Len(got'[c]))
  BY DEF OwnOK
<1>2. c \in Threads
  BY Bounds
<1>3. ASSUME ending[c] = "none", ending'[c] \in {"ok", "late"}
      PROVE  Len(got'[c]) = work[process].made
  <2>1. ending'[c] # ending[c]
    BY <1>3
  <2>2. ~(UNCHANGED threads)
    BY <2>1 DEF threads
  <2>3. PICK t \in Threads : Steps(t)
    BY <2>2, Cases DEF Serve, LoadModel, Take, SkipCancelled, Decode, Check, ModelRaises,
                       FinishRequest, Die,
           others, CancelActive
  <2>4. t = c
    BY <1>2, <2>1, <2>3, OthersStand DEF Others
  <2>5. Receive(c)
    <3>1. ASSUME ~Receive(c) PROVE ending' = ending \/ ending' = [ending EXCEPT ![c] = "broken"]
                                   \/ ending' = [ending EXCEPT ![c] = "none"]
      BY <2>3, <2>4, <3>1 DEF Steps, Outside, StartRunning, StopCall, Ready, NotReady, Refuse,
                              Lock,
             Register, Break, Finally, DrainOver, Release, StartSpawn, StopBegin, StopJoin, StopClear,
             Put, DrainFrame, Call, Torn, Returns, EndsCall
    <3>2. QED
      BY <1>2, <1>3, <3>1 DEF TypesOK, ThreadTypes
  <2>6. QED
    BY <1>2, <1>3, <2>5, OwnFrame
<1>4. QED
  BY <1>1, <1>3

(* What iter_generate_tokens hands out: a call gets its own tokens, in     *)
(* order and without a gap, over cancelled predecessors, late frames and   *)
(* restarts, and one that ends well has got all the model made for it.     *)
THEOREM AnswersOwn == ServiceSpec => AnswersAreOwn
<1>1. ServiceInv /\ ServiceInv' /\ [ServiceNext]_service_vars =>
         [\A c \in Callers :
             /\ got'[c] = Answer(id'[c], Len(got'[c]))
             /\ ending[c] = "none" /\ ending'[c] \in {"ok", "late"} =>
                   Len(got'[c]) = work[process].made]_service_vars
  BY OwnSteps
<1>2. QED
  BY <1>1, ServiceInvariant, PTL DEF ServiceSpec, AnswersAreOwn
=============================================================================
